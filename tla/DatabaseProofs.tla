--------------------------- MODULE DatabaseProofs ---------------------------
(***************************************************************************)
(* Proofs about Database.tla, for any set of writes of any length.         *)
(***************************************************************************)
EXTENDS Database, SequenceTheorems, TLAPS

Absent(w) == \A i \in 1 .. Len(queue) : queue[i].w # w

FirstParts(w, n) == {w} \X (1 .. n)

(* Nothing a later writer queues can meet an open transaction.             *)
Settled == IF queue = <<>> THEN open = {} ELSE queue[Len(queue)].op = "rollback"

(* What the queue holds, wherever the calls that queued it stand.          *)
QueueInv ==
  /\ \A i \in 1 .. Len(queue) :
       /\ queue[i].op = "commit" => i = 1 /\ open = Parts(queue[1].w)
       /\ queue[i].op = "stmt" =>
            IF i = 1 THEN open = FirstParts(queue[1].w, queue[1].n - 1)
                     ELSE queue[i].n = 1 /\ queue[i - 1].op = "rollback"
       /\ queue[i].op = "stmt" => queue[i].n \in 1 .. Stmts[queue[i].w]
  /\ lock = None => Settled

(* Where the awaited operation is, and what the answer says of `open`.     *)
StageInv(w) ==
  /\ pc[w] \in {"start", "queued"} => issued[w] = 0 /\ Absent(w)
  /\ pc[w] = "body" =>
       /\ Absent(w)
       /\ IF issued[w] = 0 THEN Settled
                           ELSE queue = <<>> /\ open = FirstParts(w, issued[w])
  /\ pc[w] = "stmt" =>
       /\ issued[w] \in 1 .. Stmts[w]
       /\ reply[w] = "none" =>
            /\ queue # <<>>
            /\ queue[Len(queue)] = [op |-> "stmt", w |-> w, n |-> issued[w]]
            /\ \A i \in 1 .. Len(queue) - 1 : queue[i].w # w
       /\ reply[w] # "none" => queue = <<>>
       /\ reply[w] = "ok" => open = FirstParts(w, issued[w])
  /\ pc[w] = "commit" =>
       /\ issued[w] = Stmts[w]
       /\ reply[w] = "none" =>
            queue = <<[op |-> "commit", w |-> w, n |-> issued[w]]>>
       /\ reply[w] # "none" => queue = <<>>
       /\ reply[w] = "ok" => open = {} /\ Parts(w) \subseteq committed
  /\ pc[w] = "rollback" =>
       /\ reply[w] = "none" =>
            /\ queue # <<>>
            /\ queue[Len(queue)].op = "rollback" /\ queue[Len(queue)].w = w
            /\ \A i \in 1 .. Len(queue) - 1 : queue[i].w = w => queue[i].op # "rollback"
       /\ reply[w] # "none" => queue = <<>> /\ open = {}

(* A write that is not yet, or never will be, committed has no rows.       *)
Uncommitted(w) ==
  \/ pc[w] \in {"start", "queued", "body", "stmt", "error"}
  \/ pc[w] = "commit" /\ reply[w] # "ok"
  \/ pc[w] = "rollback" /\ cause[w] = "error"

CommitInv ==
  /\ \A w \in Writes : Uncommitted(w) => Parts(w) \cap committed = {}
  /\ \A i \in 1 .. Len(queue) : queue[i].op = "commit" =>
       LET w == queue[i].w
       IN  \/ pc[w] = "commit" /\ reply[w] = "none"
           \/ pc[w] = "rollback" /\ cause[w] = "cancelled"
           \/ pc[w] = "cancelled"

IInv ==
  /\ Types
  /\ LockIsWriters
  /\ QueueInv
  /\ \A w \in Writes : StageInv(w)
  /\ CommitInv
  /\ OneWriteOpen
  /\ WholeWrites
  /\ HonestOutcome
-----------------------------------------------------------------------------
(* Lemmas on the queue and on the steps that several actions share.        *)

LEMMA AppendFacts ==
  ASSUME NEW S, NEW q \in Seq(S), NEW x \in S
  PROVE  /\ Append(q, x) \in Seq(S)
         /\ Append(q, x) # <<>>
         /\ Len(Append(q, x)) = Len(q) + 1
         /\ Append(q, x)[Len(q) + 1] = x
         /\ \A i \in 1 .. Len(q) : Append(q, x)[i] = q[i]
  BY AppendProperties

LEMMA TailFacts ==
  ASSUME NEW S, NEW q \in Seq(S), q # <<>>
  PROVE  /\ Head(q) = q[1] /\ Head(q) \in S
         /\ Tail(q) \in Seq(S)
         /\ Len(q) \in Nat \ {0}
         /\ Len(Tail(q)) = Len(q) - 1
         /\ (Tail(q) = <<>>) <=> (Len(q) = 1)
         /\ \A i \in 1 .. Len(q) - 1 : Tail(q)[i] = q[i + 1]
<1>1. /\ Len(q) \in Nat \ {0}
      /\ Head(q) \in S
      /\ Tail(q) \in Seq(S)
      /\ Len(Tail(q)) = Len(q) - 1
      /\ \A i \in 1 .. Len(Tail(q)) : Tail(q)[i] = q[i + 1]
  BY EmptySeq, HeadTailProperties
<1>2. (Tail(q) = <<>>) <=> (Len(Tail(q)) = 0)
  BY <1>1, EmptySeq
<1>3. Head(q) = q[1]
  OBVIOUS
<1>4. QED
  BY <1>1, <1>2, <1>3

LEMMA RemoveAtType ==
  ASSUME NEW S, NEW q \in Seq(S), NEW i \in 1 .. Len(q)
  PROVE  RemoveAt(q, i) \in Seq(S)
  BY DEF RemoveAt

LEMMA AwaitType ==
  ASSUME Types, NEW w \in Writes, NEW op \in Awaiting, Await(w, op),
         issued' \in [Writes -> Nat]
  PROVE  /\ pc' \in [Writes -> {"start", "queued", "body"} \cup Awaiting \cup Finished]
         /\ reply' \in [Writes -> {"none", "ok", "error"}]
         /\ queue' \in Seq(Operations)
<1>1. [op |-> op, w |-> w, n |-> issued'[w]] \in Operations
  BY DEF Operations
<1>2. queue' \in Seq(Operations)
  BY <1>1, AppendFacts DEF Await, Types
<1>3. QED
  BY <1>2 DEF Await, Types, Awaiting

LEMMA AwaitStatementType ==
  ASSUME Types, NEW w \in Writes, AwaitStatement(w), issued[w] < Stmts[w]
  PROVE  /\ pc' \in [Writes -> {"start", "queued", "body"} \cup Awaiting \cup Finished]
         /\ issued' \in [Writes -> Nat] /\ \A v \in Writes : issued'[v] <= Stmts[v]
         /\ reply' \in [Writes -> {"none", "ok", "error"}]
         /\ queue' \in Seq(Operations)
<1>1. issued \in [Writes -> Nat] /\ issued' = [issued EXCEPT ![w] = issued[w] + 1]
  BY DEF Types, AwaitStatement
<1>2. \A v \in Writes : Stmts[v] \in Nat
  BY WritesAssumption
<1>3. \A v \in Writes : issued[v] <= Stmts[v]
  BY DEF Types
<1>4. issued' \in [Writes -> Nat]
  BY <1>1
<1>5. ASSUME NEW v \in Writes PROVE issued'[v] <= Stmts[v]
  <2>1. CASE v = w
    BY <1>1, <1>2, <2>1
  <2>2. CASE v # w
    BY <1>1, <1>3, <2>2
  <2>3. QED
    BY <2>1, <2>2
<1>6. QED
  BY <1>4, <1>5, AwaitType DEF AwaitStatement, Awaiting

LEMMA EnterType ==
  ASSUME Types, NEW w \in Writes, Enter(w), issued[w] < Stmts[w]
  PROVE  /\ pc' \in [Writes -> {"start", "queued", "body"} \cup Awaiting \cup Finished]
         /\ issued' \in [Writes -> Nat] /\ \A v \in Writes : issued'[v] <= Stmts[v]
         /\ reply' \in [Writes -> {"none", "ok", "error"}]
         /\ queue' \in Seq(Operations)
         /\ lock' = w
         /\ writer' \in Blocks \cup {None}
<1>1. CASE w \in Blocks
  BY <1>1 DEF Enter, Types
<1>2. CASE w \notin Blocks
  BY <1>2, AwaitStatementType DEF Enter, Types
<1>3. QED
  BY <1>1, <1>2

LEMMA AwaitRollbackType ==
  ASSUME Types, NEW w \in Writes, NEW why \in {"error", "cancelled"},
         AwaitRollback(w, why)
  PROVE  /\ pc' \in [Writes -> {"start", "queued", "body"} \cup Awaiting \cup Finished]
         /\ cause' \in [Writes -> {"error", "cancelled"}]
         /\ issued' \in [Writes -> Nat] /\ \A v \in Writes : issued'[v] <= Stmts[v]
         /\ reply' \in [Writes -> {"none", "ok", "error"}]
         /\ queue' \in Seq(Operations)
  BY AwaitType DEF AwaitRollback, Types, Awaiting

LEMMA AwaitCommitType ==
  ASSUME Types, NEW w \in Writes, AwaitCommit(w)
  PROVE  /\ pc' \in [Writes -> {"start", "queued", "body"} \cup Awaiting \cup Finished]
         /\ issued' \in [Writes -> Nat] /\ \A v \in Writes : issued'[v] <= Stmts[v]
         /\ reply' \in [Writes -> {"none", "ok", "error"}]
         /\ queue' \in Seq(Operations)
  BY AwaitType DEF AwaitCommit, Types, Awaiting

(* No step leaves the types; a call that has not begun has issued nothing, *)
(* which is why its first statement is within its count.                   *)
LEMMA TypeStep ==
  ASSUME Types, [Next]_vars,
         \A w \in Writes : pc[w] \in {"start", "queued"} => issued[w] = 0
  PROVE  Types'
<1>1. ASSUME NEW w \in Writes, pc[w] \in {"start", "queued"} PROVE issued[w] < Stmts[w]
  BY <1>1, WritesAssumption
<1>2. ASSUME NEW w \in Writes, Call(w) PROVE Types'
  <2>1. CASE lock = None /\ waiters = <<>>
    BY <1>1, <1>2, <2>1, EnterType DEF Call, Types
  <2>2. CASE ~(lock = None /\ waiters = <<>>)
    <3>1. waiters' = Append(waiters, w) /\ waiters \in Seq(Writes)
      BY <1>2, <2>2 DEF Call, Types
    <3>2. waiters' \in Seq(Writes)
      BY <3>1, AppendFacts
    <3>3. QED
      BY <1>2, <2>2, <3>2 DEF Call, Types
  <2>3. QED
    BY <2>1, <2>2
<1>3. ASSUME NEW w \in Writes, Acquire(w) PROVE Types'
  <2>1. waiters' \in Seq(Writes)
    BY <1>3 DEF Acquire, Types
  <2>2. QED
    BY <1>1, <1>3, <2>1, EnterType DEF Acquire, Types
<1>4. ASSUME NEW w \in Writes, BodyStatement(w) PROVE Types'
  BY <1>4, AwaitStatementType DEF BodyStatement, Types
<1>5. ASSUME NEW w \in Writes, BodyEnds(w) PROVE Types'
  BY <1>5, AwaitCommitType DEF BodyEnds, Types
<1>6. ASSUME NEW w \in Writes, BodyRaises(w) PROVE Types'
  BY <1>6, AwaitRollbackType DEF BodyRaises, Types
<1>7. ASSUME NEW w \in Writes, NestedExecute(w) PROVE Types'
  <2>1. CASE writer = w
    BY <1>7, <2>1, AwaitRollbackType DEF NestedExecute, Types
  <2>2. CASE writer # w
    <3>1. waiters' = Append(waiters, w) /\ waiters \in Seq(Writes)
      BY <1>7, <2>2 DEF NestedExecute, Types
    <3>2. waiters' \in Seq(Writes)
      BY <3>1, AppendFacts
    <3>3. QED
      BY <1>7, <2>2, <3>2 DEF NestedExecute, Types
  <2>3. QED
    BY <2>1, <2>2
<1>8. ASSUME NEW w \in Writes, Resume(w) PROVE Types'
  <2>1. CASE pc[w] = "stmt" /\ reply[w] = "ok"
    <3>1. CASE w \in Blocks
      BY <1>8, <2>1, <3>1 DEF Resume, Types
    <3>2. CASE w \notin Blocks
      BY <1>8, <2>1, <3>2, AwaitCommitType DEF Resume, Types
    <3>3. QED
      BY <3>1, <3>2
  <2>2. CASE pc[w] \in {"stmt", "commit"} /\ reply[w] = "error"
    BY <1>8, <2>2, AwaitRollbackType DEF Resume, Types
  <2>3. CASE pc[w] = "commit" /\ reply[w] = "ok"
    BY <1>8, <2>3 DEF Resume, Finish, Finished, Types
  <2>4. CASE pc[w] = "rollback"
    BY <1>8, <2>4 DEF Resume, Finish, Finished, Types
  <2>5. QED
    BY <1>8, <2>1, <2>2, <2>3, <2>4 DEF Resume, Types
<1>9. ASSUME NEW w \in Writes, CancelWaiting(w) PROVE Types'
  <2>1. waiters' \in Seq(Writes)
    BY <1>9, RemoveAtType DEF CancelWaiting, Types
  <2>2. QED
    BY <1>9, <2>1 DEF CancelWaiting, Finished, Types
<1>10. ASSUME NEW w \in Writes, CancelWriting(w) PROVE Types'
  BY <1>10, AwaitRollbackType DEF CancelWriting, Types
<1>11. ASSUME NEW w \in Writes, CancelRollback(w) PROVE Types'
  BY <1>11 DEF CancelRollback, Finish, Finished, Types
<1>12. CASE Worker
  <2>1. /\ Head(queue) \in Operations
        /\ queue' \in Seq(Operations)
    BY <1>12, TailFacts DEF Worker, Types
  <2>2. \A r \in {"ok", "error"} : Answer(Head(queue), r) =>
          reply' \in [Writes -> {"none", "ok", "error"}]
    BY DEF Answer, Types
  <2>3. open' \subseteq Writes \X Nat /\ committed' \subseteq Writes \X Nat
    BY <1>12, <2>1
    DEF Worker, RunStatement, RunCommit, RunRollback, Types, Operations
  <2>4. reply' \in [Writes -> {"none", "ok", "error"}]
    BY <1>12, <2>2 DEF Worker, RunStatement, RunCommit, RunRollback
  <2>5. QED
    BY <1>12, <2>1, <2>3, <2>4 DEF Worker, Types
<1>13. CASE Crash
  BY <1>13 DEF Crash, Finished, Awaiting, Types
<1>14. CASE UNCHANGED vars
  BY <1>14 DEF vars, Types
<1>15. QED
  BY <1>2, <1>3, <1>4, <1>5, <1>6, <1>7, <1>8, <1>9, <1>10, <1>11, <1>12, <1>13, <1>14
  DEF Next, Step, Cancel

-----------------------------------------------------------------------------
(* The write lock.                                                         *)

(* Lock, pc and _writer move together in every step.                       *)
LEMMA LockStep ==
  ASSUME Types, LockIsWriters, [Next]_vars
  PROVE  LockIsWriters'
<1> USE DEF LockIsWriters, Holding, Awaiting
<1>1. ASSUME NEW w \in Writes, lock = None, pc[w] \in {"start", "queued"}, Enter(w)
      PROVE LockIsWriters'
  BY <1>1, WritesAssumption DEF Enter, AwaitStatement, Await, Types
<1>0. ASSUME NEW w \in Writes, pc[w] \in Holding, NEW how \in Finished, Finish(w, how)
      PROVE LockIsWriters'
  <2>1. lock = w /\ lock' = None /\ writer' = None
    BY <1>0 DEF Finish
  <2>2. \A v \in Writes : pc'[v] \notin Holding
    BY <1>0, <2>1 DEF Finish, Finished, Types
  <2>3. QED
    BY <2>1, <2>2, WritesAssumption
<1>2. ASSUME NEW w \in Writes, Call(w) PROVE LockIsWriters'
  <2>1. CASE lock = None /\ waiters = <<>>
    BY <1>1, <1>2, <2>1 DEF Call
  <2>2. CASE ~(lock = None /\ waiters = <<>>)
    BY <1>2, <2>2 DEF Call, Types
  <2>3. QED
    BY <2>1, <2>2
<1>3. ASSUME NEW w \in Writes, Acquire(w) PROVE LockIsWriters'
  BY <1>1, <1>3 DEF Acquire
<1>4. ASSUME NEW w \in Writes, BodyStatement(w) PROVE LockIsWriters'
  BY <1>4 DEF BodyStatement, AwaitStatement, Await, Types
<1>5. ASSUME NEW w \in Writes, BodyEnds(w) PROVE LockIsWriters'
  BY <1>5 DEF BodyEnds, AwaitCommit, Await, Types
<1>6. ASSUME NEW w \in Writes, BodyRaises(w) PROVE LockIsWriters'
  BY <1>6 DEF BodyRaises, AwaitRollback, Await, Types
<1>7. ASSUME NEW w \in Writes, NestedExecute(w) PROVE LockIsWriters'
  <2>1. writer = w
    BY <1>7 DEF NestedExecute
  <2>2. QED
    BY <1>7, <2>1 DEF NestedExecute, AwaitRollback, Await, Types
<1>8. ASSUME NEW w \in Writes, Resume(w) PROVE LockIsWriters'
  <2>1. CASE pc[w] = "stmt" /\ reply[w] = "ok"
    BY <1>8, <2>1 DEF Resume, AwaitCommit, Await, Types
  <2>2. CASE pc[w] \in {"stmt", "commit"} /\ reply[w] = "error"
    BY <1>8, <2>2 DEF Resume, AwaitRollback, Await, Types
  <2>3. CASE pc[w] = "commit" /\ reply[w] = "ok"
    BY <1>0, <1>8, <2>3 DEF Resume, Finished
  <2>4. CASE pc[w] = "rollback"
    BY <1>0, <1>8, <2>4 DEF Resume, Finished, Types
  <2>5. QED
    BY <1>8, <2>1, <2>2, <2>3, <2>4 DEF Resume, Types
<1>9. ASSUME NEW w \in Writes, CancelWaiting(w) PROVE LockIsWriters'
  BY <1>9 DEF CancelWaiting, Types
<1>10. ASSUME NEW w \in Writes, CancelWriting(w) PROVE LockIsWriters'
  BY <1>10 DEF CancelWriting, AwaitRollback, Await, Types
<1>11. ASSUME NEW w \in Writes, CancelRollback(w) PROVE LockIsWriters'
  BY <1>0, <1>11 DEF CancelRollback, Finished
<1>12. CASE Worker
  BY <1>12 DEF Worker
<1>13. CASE Crash
  BY <1>13, WritesAssumption DEF Crash, Finished, Types
<1>14. CASE UNCHANGED vars
  BY <1>14 DEF vars
<1>15. QED
  BY <1>2, <1>3, <1>4, <1>5, <1>6, <1>7, <1>8, <1>9, <1>10, <1>11, <1>12, <1>13, <1>14
  DEF Next, Step, Cancel

-----------------------------------------------------------------------------
(* The queue.  Three lemmas say what queueing each kind of operation does, *)
(* one what releasing the lock does, one what the worker does.             *)

Safe == OneWriteOpen /\ WholeWrites /\ HonestOutcome

QInv == QueueInv /\ (\A w \in Writes : StageInv(w)) /\ CommitInv /\ Safe

(* While one call holds the lock, all the others are out of the way.       *)
OthersIdle(w) == \A v \in Writes \ {w} : pc[v] \notin Holding

LEMMA StatementQueued ==
  ASSUME Types, QInv, NEW w \in Writes,
         pc[w] \in {"start", "queued", "body"}, issued[w] < Stmts[w],
         Absent(w), OthersIdle(w),
         IF issued[w] = 0 THEN Settled
                          ELSE queue = <<>> /\ open = FirstParts(w, issued[w]),
         AwaitStatement(w), lock' = w, UNCHANGED <<cause, open, committed>>
  PROVE  QInv'
<1> DEFINE item == [op |-> "stmt", w |-> w, n |-> issued[w] + 1]
<1>1. /\ pc' = [pc EXCEPT ![w] = "stmt"]
      /\ issued' = [issued EXCEPT ![w] = @ + 1]
      /\ issued'[w] = issued[w] + 1
      /\ reply' = [reply EXCEPT ![w] = "none"]
      /\ queue' = Append(queue, item)
      /\ issued[w] \in Nat /\ Stmts[w] \in Nat
  BY WritesAssumption DEF AwaitStatement, Await, Types
<1>2. item \in Operations /\ queue \in Seq(Operations) /\ Len(queue) \in Nat
  BY <1>1 DEF Operations, Awaiting, Types
<1>3. /\ Len(queue') = Len(queue) + 1
      /\ queue' # <<>>
      /\ queue'[Len(queue) + 1] = item
      /\ \A i \in 1 .. Len(queue) : queue'[i] = queue[i]
  BY <1>1, <1>2, AppendFacts
<1>4. queue = <<>> \/ Len(queue) \in Nat \ {0}
  BY <1>2, EmptySeq
<1>5. queue = <<>> => Len(queue) = 0
  OBVIOUS
<1>6. QueueInv'
  <2>1. ASSUME NEW i \in 1 .. Len(queue')
        PROVE  /\ queue'[i].op = "commit" => i = 1 /\ open' = Parts(queue'[1].w)
               /\ queue'[i].op = "stmt" =>
                    IF i = 1 THEN open' = FirstParts(queue'[1].w, queue'[1].n - 1)
                             ELSE queue'[i].n = 1 /\ queue'[i - 1].op = "rollback"
               /\ queue'[i].op = "stmt" => queue'[i].n \in 1 .. Stmts[queue'[i].w]
    <3>1. CASE i \in 1 .. Len(queue)
      <4>1. /\ queue'[i] = queue[i] /\ queue'[1] = queue[1]
            /\ i # 1 => queue'[i - 1] = queue[i - 1]
        BY <1>2, <1>3, <3>1
      <4>2. QED
        BY <3>1, <4>1 DEF QInv, QueueInv
    <3>2. CASE i = Len(queue) + 1
      <4>1. queue'[i] = item /\ item.op = "stmt" /\ item.w = w /\ item.n = issued[w] + 1
        BY <1>3, <3>2
      <4>2. CASE queue = <<>>
        <5>1. i = 1 /\ item.n - 1 = issued[w]
          BY <1>1, <1>5, <3>2, <4>1, <4>2
        <5>2. issued[w] = 0 => open = FirstParts(w, issued[w])
          BY <4>2 DEF Settled, FirstParts
        <5>3. QED
          BY <1>1, <4>1, <4>2, <5>1, <5>2
      <4>3. CASE queue # <<>>
        <5>1. issued[w] = 0 /\ queue[Len(queue)].op = "rollback"
          BY <4>3 DEF Settled
        <5>2. i # 1 /\ queue'[i - 1] = queue[Len(queue)]
          BY <1>2, <1>3, <1>4, <3>2, <4>3
        <5>3. QED
          BY <1>1, <4>1, <5>1, <5>2
      <4>4. QED
        BY <4>2, <4>3
    <3>3. QED
      BY <1>2, <1>3, <3>1, <3>2
  <2>2. lock' # None
    BY WritesAssumption
  <2>3. QED
    BY <2>1, <2>2 DEF QueueInv
<1>7. ASSUME NEW v \in Writes PROVE StageInv(v)'
  <2>1. CASE v = w
    <3>1. \A i \in 1 .. Len(queue') - 1 : queue'[i].w # w
      BY <1>2, <1>3 DEF Absent
    <3>2. pc'[w] = "stmt" /\ reply'[w] = "none"
      BY <1>1 DEF Types
    <3>3. QED
      BY <1>1, <1>2, <1>3, <2>1, <3>1, <3>2 DEF StageInv
  <2>2. CASE v # w
    <3>1. pc'[v] = pc[v] /\ issued'[v] = issued[v] /\ pc[v] \notin Holding
      BY <1>1, <2>2 DEF Types, OthersIdle
    <3>2. Absent(v) => Absent(v)'
      BY <1>2, <1>3, <2>2 DEF Absent
    <3>3. QED
      BY <3>1, <3>2 DEF StageInv, QInv, Holding, Awaiting
  <2>3. QED
    BY <2>1, <2>2
<1>8. CommitInv'
  <2>1. \A v \in Writes : Uncommitted(v)' => Uncommitted(v)
    BY <1>1 DEF Uncommitted, Types
  <2>2. ASSUME NEW i \in 1 .. Len(queue'), queue'[i].op = "commit"
        PROVE  /\ i \in 1 .. Len(queue)
               /\ queue'[i] = queue[i]
               /\ queue[i].w \in Writes \ {w}
    <3>1. i \in 1 .. Len(queue)
      BY <1>2, <1>3, <2>2
    <3>2. queue[i] \in Operations
      BY <1>2, <3>1
    <3>3. QED
      BY <1>3, <2>2, <3>1, <3>2 DEF Absent, Operations
  <2>3. QED
    BY <1>1, <2>1, <2>2 DEF CommitInv, QInv
<1>9. Safe'
  BY <1>1 DEF QInv, Safe, OneWriteOpen, WholeWrites, HonestOutcome, Types
<1>10. QED
  BY <1>6, <1>7, <1>8, <1>9 DEF QInv

LEMMA CommitQueued ==
  ASSUME Types, QInv, NEW w \in Writes,
         pc[w] \in {"body", "stmt"}, issued[w] = Stmts[w], OthersIdle(w), lock = w,
         queue = <<>>, open = Parts(w),
         AwaitCommit(w), UNCHANGED <<cause, lock, open, committed>>
  PROVE  QInv'
<1> DEFINE item == [op |-> "commit", w |-> w, n |-> issued[w]]
<1>1. /\ pc' = [pc EXCEPT ![w] = "commit"]
      /\ issued' = issued
      /\ reply' = [reply EXCEPT ![w] = "none"]
      /\ queue' = <<item>>
  BY DEF AwaitCommit, Await
<1>2. Len(queue') = 1 /\ queue'[1] = item /\ queue' # <<>>
  BY <1>1
<1>3. QueueInv'
  BY <1>2, WritesAssumption DEF QueueInv
<1>4. ASSUME NEW v \in Writes PROVE StageInv(v)'
  <2>1. CASE v = w
    BY <1>1, <2>1 DEF StageInv, Types
  <2>2. CASE v # w
    <3>1. pc'[v] = pc[v] /\ pc[v] \notin Holding
      BY <1>1, <2>2 DEF Types, OthersIdle
    <3>2. Absent(v)'
      BY <1>2, <2>2 DEF Absent
    <3>3. QED
      BY <1>1, <3>1, <3>2 DEF StageInv, QInv, Holding, Awaiting
  <2>3. QED
    BY <2>1, <2>2
<1>5. CommitInv'
  <2>1. \A v \in Writes : Uncommitted(v)' => Uncommitted(v)
    BY <1>1 DEF Uncommitted, Types
  <2>2. pc'[w] = "commit" /\ reply'[w] = "none"
    BY <1>1 DEF Types
  <2>3. QED
    BY <1>2, <2>1, <2>2 DEF CommitInv, QInv
<1>6. Safe'
  BY <1>1 DEF QInv, Safe, OneWriteOpen, WholeWrites, HonestOutcome, Types
<1>7. QED
  BY <1>3, <1>4, <1>5, <1>6 DEF QInv

LEMMA RollbackQueued ==
  ASSUME Types, QInv, NEW w \in Writes, NEW why \in {"error", "cancelled"},
         pc[w] \in {"body", "stmt", "commit"}, OthersIdle(w), lock = w,
         why = "error" => pc[w] = "body" \/ reply[w] = "error",
         AwaitRollback(w, why), UNCHANGED <<lock, open, committed>>
  PROVE  QInv'
<1> DEFINE item == [op |-> "rollback", w |-> w, n |-> issued[w]]
<1>1. /\ pc' = [pc EXCEPT ![w] = "rollback"]
      /\ cause' = [cause EXCEPT ![w] = why]
      /\ issued' = issued
      /\ reply' = [reply EXCEPT ![w] = "none"]
      /\ queue' = Append(queue, item)
  BY DEF AwaitRollback, Await
<1>2. item \in Operations /\ queue \in Seq(Operations) /\ Len(queue) \in Nat
  BY DEF Operations, Awaiting, Types
<1>3. /\ Len(queue') = Len(queue) + 1
      /\ queue' # <<>>
      /\ queue'[Len(queue) + 1] = item
      /\ \A i \in 1 .. Len(queue) : queue'[i] = queue[i]
  BY <1>1, <1>2, AppendFacts
<1>4. queue = <<>> => Len(queue) = 0
  OBVIOUS
<1>5. \A i \in 1 .. Len(queue') : i \in 1 .. Len(queue) \/ queue'[i] = item
  BY <1>2, <1>3
<1>6. QueueInv'
  <2>1. ASSUME NEW i \in 1 .. Len(queue')
        PROVE  /\ queue'[i].op = "commit" => i = 1 /\ open' = Parts(queue'[1].w)
               /\ queue'[i].op = "stmt" =>
                    IF i = 1 THEN open' = FirstParts(queue'[1].w, queue'[1].n - 1)
                             ELSE queue'[i].n = 1 /\ queue'[i - 1].op = "rollback"
               /\ queue'[i].op = "stmt" => queue'[i].n \in 1 .. Stmts[queue'[i].w]
    <3>1. CASE i \in 1 .. Len(queue)
      <4>1. /\ queue'[i] = queue[i] /\ queue'[1] = queue[1]
            /\ i # 1 => queue'[i - 1] = queue[i - 1]
        BY <1>2, <1>3, <3>1
      <4>2. QED
        BY <3>1, <4>1 DEF QInv, QueueInv
    <3>2. CASE queue'[i] = item
      BY <3>2
    <3>3. QED
      BY <1>5, <3>1, <3>2
  <2>2. QED
    BY <2>1, WritesAssumption DEF QueueInv
<1>7. ASSUME NEW i \in 1 .. Len(queue), queue[i].w = w
      PROVE queue[i].op # "rollback" /\ (queue[i].op = "commit" => why = "cancelled")
  <2>1. StageInv(w) /\ queue # <<>> /\ reply[w] \in {"none", "ok", "error"}
    BY <1>4, <1>7 DEF QInv, Types
  <2>2. pc[w] # "body"
    BY <1>7, <2>1 DEF StageInv, Absent
  <2>3. reply[w] = "none"
    BY <2>1, <2>2 DEF StageInv
  <2>4. why = "cancelled"
    BY <2>2, <2>3
  <2>5. CASE pc[w] = "stmt"
    <3>1. i = Len(queue)
      BY <1>2, <1>7, <2>1, <2>3, <2>5 DEF StageInv
    <3>2. QED
      BY <2>1, <2>3, <2>4, <2>5, <3>1 DEF StageInv
  <2>6. CASE pc[w] = "commit"
    <3>1. queue = <<[op |-> "commit", w |-> w, n |-> issued[w]]>>
      BY <2>1, <2>3, <2>6 DEF StageInv
    <3>2. Len(queue) = 1 /\ queue[1].op = "commit"
      BY <3>1
    <3>3. i = 1
      BY <1>7, <3>2
    <3>4. QED
      BY <2>4, <3>2, <3>3
  <2>7. QED
    BY <2>2, <2>5, <2>6
<1>8. ASSUME NEW v \in Writes PROVE StageInv(v)'
  <2>1. CASE v = w
    <3>1. pc'[w] = "rollback" /\ reply'[w] = "none"
      BY <1>1 DEF Types
    <3>2. \A i \in 1 .. Len(queue') - 1 : queue'[i].w = w => queue'[i].op # "rollback"
      BY <1>2, <1>3, <1>7
    <3>3. QED
      BY <1>2, <1>3, <2>1, <3>1, <3>2 DEF StageInv
  <2>2. CASE v # w
    <3>1. pc'[v] = pc[v] /\ pc[v] \notin Holding
      BY <1>1, <2>2 DEF Types, OthersIdle
    <3>2. Absent(v) => Absent(v)'
      BY <1>2, <1>3, <2>2 DEF Absent
    <3>3. QED
      BY <1>1, <3>1, <3>2 DEF StageInv, QInv, Holding, Awaiting
  <2>3. QED
    BY <2>1, <2>2
<1>9. CommitInv'
  <2>1. \A v \in Writes : Uncommitted(v)' => Uncommitted(v)
    BY <1>1 DEF Uncommitted, Types
  <2>2. ASSUME NEW i \in 1 .. Len(queue'), queue'[i].op = "commit"
        PROVE  i \in 1 .. Len(queue) /\ queue'[i] = queue[i] /\ queue[i].w \in Writes
    <3>1. i \in 1 .. Len(queue)
      BY <1>5, <2>2
    <3>2. queue[i] \in Operations
      BY <1>2, <3>1
    <3>3. QED
      BY <1>3, <3>1, <3>2 DEF Operations
  <2>3. ASSUME NEW i \in 1 .. Len(queue), queue[i].op = "commit", queue[i].w = w
        PROVE  pc'[w] = "rollback" /\ cause'[w] = "cancelled"
    BY <1>1, <1>7, <2>3 DEF Types
  <2>4. ASSUME NEW i \in 1 .. Len(queue'), queue'[i].op = "commit"
        PROVE  LET v == queue'[i].w
               IN  \/ pc'[v] = "commit" /\ reply'[v] = "none"
                   \/ pc'[v] = "rollback" /\ cause'[v] = "cancelled"
                   \/ pc'[v] = "cancelled"
    <3>1. CASE queue[i].w = w
      BY <2>2, <2>3, <2>4, <3>1
    <3>2. CASE queue[i].w # w
      <4>1. LET v == queue[i].w
            IN  \/ pc[v] = "commit" /\ reply[v] = "none"
                \/ pc[v] = "rollback" /\ cause[v] = "cancelled"
                \/ pc[v] = "cancelled"
        BY <2>2, <2>4 DEF CommitInv, QInv
      <4>2. \A v \in Writes \ {w} :
              pc'[v] = pc[v] /\ reply'[v] = reply[v] /\ cause'[v] = cause[v]
        BY <1>1 DEF Types
      <4>3. QED
        BY <2>2, <2>4, <3>2, <4>1, <4>2
    <3>3. QED
      BY <3>1, <3>2
  <2>5. QED
    BY <1>1, <2>1, <2>4 DEF CommitInv, QInv
<1>10. Safe'
  BY <1>1 DEF QInv, Safe, OneWriteOpen, WholeWrites, HonestOutcome, Types
<1>11. QED
  BY <1>6, <1>8, <1>9, <1>10 DEF QInv

(* The lock is released only when a later writer will find the connection  *)
(* clean, and a call reports only what its rows bear out.                  *)
LEMMA FinishStep ==
  ASSUME Types, QInv, NEW w \in Writes, NEW how \in {"ok", "error", "cancelled"},
         pc[w] \in {"commit", "rollback"}, OthersIdle(w), Settled,
         how = "ok" => Parts(w) \subseteq committed,
         how = "error" => pc[w] = "rollback" /\ cause[w] = "error" /\ queue = <<>>,
         queue # <<>> => pc[w] = "rollback" /\ how = "cancelled",
         Finish(w, how), UNCHANGED <<cause, issued, reply, queue, open, committed>>
  PROVE  QInv'
<1>1. pc' = [pc EXCEPT ![w] = how]
  BY DEF Finish
<1>2. QueueInv'
  BY DEF QueueInv, QInv, Settled
<1>3. ASSUME NEW v \in Writes PROVE StageInv(v)'
  <2>1. CASE v = w
    BY <1>1, <2>1 DEF StageInv, Types
  <2>2. CASE v # w
    <3>1. pc'[v] = pc[v] /\ pc[v] \notin Holding
      BY <1>1, <2>2 DEF Types, OthersIdle
    <3>2. QED
      BY <3>1 DEF StageInv, QInv, Holding, Awaiting, Absent
  <2>3. QED
    BY <2>1, <2>2
<1>4. CommitInv'
  <2>1. \A v \in Writes : Uncommitted(v)' => Uncommitted(v)
    BY <1>1 DEF Uncommitted, Types
  <2>2. queue = <<>> => \A i \in 1 .. Len(queue) : FALSE
    OBVIOUS
  <2>3. QED
    BY <1>1, <2>1, <2>2 DEF CommitInv, QInv, Types
<1>5. Safe'
  BY <1>1 DEF QInv, Safe, OneWriteOpen, WholeWrites, HonestOutcome, Types, CommitInv, Uncommitted
<1>6. QED
  BY <1>2, <1>3, <1>4, <1>5 DEF QInv

-----------------------------------------------------------------------------
(* The worker thread.                                                      *)

LEMMA OneOrMore ==
  \A n \in Nat \ {0} : n = 1 \/ n > 1
  OBVIOUS

LEMMA WorkerStep ==
  ASSUME Types, LockIsWriters, QInv, Worker
  PROVE  QInv'
<1> DEFINE item == queue[1]
<1>0. Len(queue) \in Nat \ {0}
  BY TailFacts DEF Worker, Types
<1>1. /\ queue # <<>> /\ queue \in Seq(Operations)
      /\ Len(queue) \in Nat \ {0}
      /\ item \in Operations
      /\ queue' = Tail(queue)
      /\ RunStatement(item) \/ RunCommit(item) \/ RunRollback(item)
      /\ UNCHANGED <<pc, cause, issued, lock, waiters, writer>>
  BY TailFacts DEF Worker, Types
<1>2. /\ Len(queue') = Len(queue) - 1
      /\ (queue' = <<>>) <=> (Len(queue) = 1)
      /\ \A i \in 1 .. Len(queue) - 1 : queue'[i] = queue[i + 1]
      /\ queue' # <<>> => queue'[Len(queue')] = queue[Len(queue)]
  BY <1>1, TailFacts
<1>3. item.w \in Writes /\ item.n \in Nat /\ item.op \in Awaiting
  BY <1>1 DEF Operations
<1>4. /\ item.op = "commit" => open = Parts(item.w)
      /\ item.op = "stmt" => /\ open = FirstParts(item.w, item.n - 1)
                             /\ item.n \in 1 .. Stmts[item.w]
  BY <1>1 DEF QInv, QueueInv
<1>5. \A v \in Writes : Absent(v) => Absent(v)'
  BY <1>1, <1>2 DEF Absent
<1>6. Len(queue) > 1 /\ queue[2].op = "stmt" => item.op = "rollback"
  BY <1>1 DEF QInv, QueueInv
<1>7. item.op = "rollback" => open' = {}
  BY <1>1 DEF RunStatement, RunCommit, RunRollback
<1>8. QueueInv'
  <2>1. ASSUME NEW i \in 1 .. Len(queue')
        PROVE  /\ queue'[i].op = "commit" => i = 1 /\ open' = Parts(queue'[1].w)
               /\ queue'[i].op = "stmt" =>
                    IF i = 1 THEN open' = FirstParts(queue'[1].w, queue'[1].n - 1)
                             ELSE queue'[i].n = 1 /\ queue'[i - 1].op = "rollback"
               /\ queue'[i].op = "stmt" => queue'[i].n \in 1 .. Stmts[queue'[i].w]
    <3>1. i + 1 \in 1 .. Len(queue) /\ i + 1 # 1 /\ queue'[i] = queue[i + 1]
      BY <1>1, <1>2
    <3>2. queue'[i].op # "commit"
      BY <3>1 DEF QInv, QueueInv
    <3>3. ASSUME queue'[i].op = "stmt"
          PROVE  /\ queue[i + 1].n = 1 /\ queue[i].op = "rollback"
                 /\ queue'[i].n \in 1 .. Stmts[queue'[i].w]
      BY <3>1, <3>3 DEF QInv, QueueInv
    <3>4. CASE i = 1
      <4>1. queue'[1].op = "stmt" => open' = {} /\ queue'[1].n = 1
        BY <1>7, <3>1, <3>3, <3>4
      <4>2. QED
        BY <3>2, <3>3, <3>4, <4>1 DEF FirstParts
    <3>5. CASE i # 1
      <4>1. queue'[i - 1] = queue[i]
        BY <1>1, <1>2, <3>5
      <4>2. QED
        BY <3>1, <3>2, <3>3, <3>5, <4>1
    <3>6. QED
      BY <3>4, <3>5
  <2>2. Settled => Settled'
    BY <1>1, <1>2, <1>7 DEF Settled
  <2>3. QED
    BY <1>1, <2>1, <2>2 DEF QInv, QueueInv
<1>9. /\ reply' \in [Writes -> {"none", "ok", "error"}]
      /\ \A v \in Writes : reply'[v] # reply[v] => v = item.w /\ pc[v] = item.op
      /\ pc[item.w] = item.op => reply'[item.w] # "none"
  BY <1>1, <1>3 DEF RunStatement, RunCommit, RunRollback, Answer, Types
<1>10. ASSUME NEW v \in Writes PROVE StageInv(v)'
  <2>1. CASE pc[v] \in {"start", "queued"}
    BY <1>1, <1>5, <2>1 DEF StageInv, QInv
  <2>2. CASE pc[v] = "body"
    <3>1. Absent(v)'
      BY <1>5, <2>2 DEF StageInv, QInv
    <3>2. issued[v] = 0 /\ Settled
      BY <1>1, <2>2 DEF StageInv, QInv
    <3>3. Settled'
      BY <1>1, <1>2, <1>7, <3>2 DEF Settled
    <3>4. QED
      BY <1>1, <2>2, <3>1, <3>2, <3>3 DEF StageInv
  <2>3. CASE pc[v] = "stmt"
    <3>1. /\ reply[v] = "none"
          /\ queue[Len(queue)] = [op |-> "stmt", w |-> v, n |-> issued[v]]
          /\ \A i \in 1 .. Len(queue) - 1 : queue[i].w # v
      BY <1>1, <2>3 DEF StageInv, QInv
    <3>2. CASE Len(queue) = 1
      <4>1. item.w = v /\ item.op = "stmt" /\ item.n = issued[v] /\ reply'[v] # "none"
        BY <1>9, <2>3, <3>1, <3>2
      <4>2. reply'[v] = "ok" => open' = open \cup {<<v, issued[v]>>}
        BY <1>1, <1>9, <2>3, <3>1, <4>1 DEF RunStatement, RunCommit, RunRollback, Answer, Types
      <4>3. FirstParts(v, issued[v] - 1) \cup {<<v, issued[v]>>} = FirstParts(v, issued[v])
        BY <1>4, <4>1, WritesAssumption DEF FirstParts
      <4>4. reply'[v] = "ok" => open' = FirstParts(v, issued'[v])
        BY <1>1, <1>4, <4>1, <4>2, <4>3
      <4>5. issued'[v] \in 1 .. Stmts[v] /\ queue' = <<>>
        BY <1>1, <1>2, <1>4, <3>2, <4>1
      <4>6. QED
        BY <1>1, <2>3, <4>1, <4>4, <4>5 DEF StageInv
    <3>3. CASE Len(queue) > 1
      <4>1. item.w # v
        BY <1>1, <3>1, <3>3
      <4>2. reply'[v] = "none"
        BY <1>9, <3>1, <4>1
      <4>3. \A i \in 1 .. Len(queue') - 1 : queue'[i].w # v
        BY <1>1, <1>2, <3>1
      <4>4. QED
        BY <1>1, <1>2, <2>3, <3>1, <3>3, <4>2, <4>3 DEF StageInv, QInv
    <3>4. Len(queue) = 1 \/ Len(queue) > 1
      BY <1>0, OneOrMore
    <3>5. QED
      BY <3>2, <3>3, <3>4
  <2>4. CASE pc[v] = "commit"
    <3>1. queue = <<[op |-> "commit", w |-> v, n |-> issued[v]]>>
      BY <1>1, <2>4 DEF StageInv, QInv, Types
    <3>2. Len(queue) = 1 /\ item.op = "commit" /\ item.w = v
      BY <3>1
    <3>3. reply'[v] # "none" /\ open = Parts(v)
      BY <1>4, <1>9, <2>4, <3>2
    <3>4. reply'[v] = "ok" => open' = {} /\ Parts(v) \subseteq committed'
      BY <1>1, <2>4, <3>2, <3>3 DEF RunStatement, RunCommit, RunRollback, Answer, Types
    <3>5. QED
      BY <1>1, <1>2, <2>4, <3>2, <3>3, <3>4 DEF StageInv, QInv
  <2>5. CASE pc[v] = "rollback"
    <3>1. /\ reply[v] = "none"
          /\ queue[Len(queue)].op = "rollback" /\ queue[Len(queue)].w = v
          /\ \A i \in 1 .. Len(queue) - 1 : queue[i].w = v => queue[i].op # "rollback"
      BY <1>1, <2>5 DEF StageInv, QInv
    <3>2. CASE Len(queue) = 1
      <4>1. queue' = <<>> /\ open' = {}
        BY <1>2, <1>7, <3>1, <3>2
      <4>2. reply'[v] # "none"
        <5>1. item.op = "rollback" /\ item.w = v
          BY <2>5, <3>1, <3>2
        <5>2. QED
          BY <1>9, <2>5, <5>1
      <4>3. QED
        BY <1>1, <2>5, <4>1, <4>2 DEF StageInv
    <3>3. CASE Len(queue) > 1
      <4>1. item.w = v => item.op # "rollback"
        BY <1>1, <3>1, <3>3
      <4>2. reply'[v] = "none"
        BY <1>9, <2>5, <3>1, <4>1
      <4>3. \A i \in 1 .. Len(queue') - 1 : queue'[i].w = v => queue'[i].op # "rollback"
        BY <1>1, <1>2, <3>1
      <4>4. QED
        BY <1>1, <1>2, <2>5, <3>1, <3>3, <4>2, <4>3 DEF StageInv
    <3>4. Len(queue) = 1 \/ Len(queue) > 1
      BY <1>0, OneOrMore
    <3>5. QED
      BY <3>2, <3>3, <3>4
  <2>6. CASE pc[v] \in Finished
    BY <1>1, <2>6 DEF StageInv, Finished
  <2>7. QED
    BY <2>1, <2>2, <2>3, <2>4, <2>5, <2>6 DEF Types, Awaiting
<1>11. \/ committed' = committed
       \/ /\ item.op = "commit" /\ committed' = committed \cup Parts(item.w)
          /\ pc[item.w] = "commit" => reply'[item.w] = "ok"
  <2>1. CASE item.op # "commit"
    BY <1>1, <2>1 DEF RunStatement, RunCommit, RunRollback
  <2>2. CASE item.op = "commit"
    BY <1>1, <1>3, <1>4, <2>2 DEF RunStatement, RunCommit, RunRollback, Answer, Types
  <2>3. QED
    BY <2>1, <2>2
<1>12. CommitInv'
  <2>1. \A i \in 1 .. Len(queue') : queue'[i].op # "commit"
    BY <1>1, <1>2 DEF QInv, QueueInv
  <2>2. ASSUME NEW v \in Writes, Uncommitted(v)' PROVE Uncommitted(v)
    <3>1. CASE pc[v] = "commit"
      <4>1. reply[v] = "none"
        BY <1>1, <3>1 DEF QInv, StageInv, Types
      <4>2. QED
        BY <3>1, <4>1 DEF Uncommitted
    <3>2. CASE pc[v] # "commit"
      BY <1>1, <2>2, <3>2 DEF Uncommitted
    <3>3. QED
      BY <3>1, <3>2
  <2>3. ASSUME NEW v \in Writes, Uncommitted(v)' PROVE Parts(v) \cap committed' = {}
    <3>1. Parts(v) \cap committed = {}
      BY <2>2, <2>3 DEF QInv, CommitInv
    <3>2. CASE v = item.w /\ committed' # committed
      <4>1. item.op = "commit" /\ (pc[v] = "commit" => reply'[v] = "ok")
        BY <1>11, <3>2
      <4>2. \/ pc[v] = "commit" /\ reply[v] = "none"
            \/ pc[v] = "rollback" /\ cause[v] = "cancelled"
            \/ pc[v] = "cancelled"
        BY <1>1, <3>2, <4>1 DEF QInv, CommitInv
      <4>3. FALSE
        BY <1>1, <2>3, <4>1, <4>2 DEF Uncommitted
      <4>4. QED
        BY <4>3
    <3>3. CASE v # item.w
      <4>1. Parts(v) \cap Parts(item.w) = {}
        BY <3>3 DEF Parts
      <4>2. QED
        BY <1>11, <3>1, <4>1
    <3>4. QED
      BY <3>1, <3>2, <3>3
  <2>4. QED
    BY <2>1, <2>3 DEF CommitInv
<1>13. OneWriteOpen'
  <2>1. \/ open' = {} \/ open' = open
        \/ item.op = "stmt" /\ open' = open \cup {<<item.w, item.n>>}
    BY <1>1 DEF RunStatement, RunCommit, RunRollback
  <2>2. QED
    BY <1>4, <2>1 DEF OneWriteOpen, FirstParts, QInv, Safe
<1>14. WholeWrites'
  <2>1. ASSUME NEW v \in Writes
        PROVE  Parts(v) \subseteq committed' \/ Parts(v) \cap committed' = {}
    <3>1. Parts(v) \subseteq committed \/ Parts(v) \cap committed = {}
      BY DEF QInv, Safe, WholeWrites
    <3>2. v = item.w \/ Parts(v) \cap Parts(item.w) = {}
      BY DEF Parts
    <3>3. QED
      BY <1>11, <3>1, <3>2
  <2>2. QED
    BY <2>1 DEF WholeWrites
<1>15. HonestOutcome'
  <2>1. \A v \in Writes : pc[v] = "error" => Uncommitted(v)'
    BY <1>1 DEF Uncommitted
  <2>2. committed \subseteq committed'
    BY <1>11
  <2>3. QED
    BY <1>1, <1>12, <2>1, <2>2 DEF CommitInv, HonestOutcome, QInv, Safe
<1>16. QED
  BY <1>8, <1>10, <1>12, <1>13, <1>14, <1>15 DEF QInv, Safe

-----------------------------------------------------------------------------
(* The inductive invariant and what follows from it.                       *)

LEMMA IInvStep ==
  ASSUME IInv, [Next]_vars
  PROVE  QInv'
<1>0. Types /\ LockIsWriters /\ QInv
  BY DEF IInv, QInv, Safe
<1>1. ASSUME NEW w \in Writes, lock = w PROVE OthersIdle(w)
  BY <1>0, <1>1 DEF LockIsWriters, OthersIdle
<1>2. ASSUME NEW w \in Writes, lock = None PROVE OthersIdle(w) /\ Settled
  BY <1>0, <1>2, WritesAssumption DEF LockIsWriters, OthersIdle, QInv, QueueInv
<1>3. \A w \in Writes : StageInv(w)
  BY <1>0 DEF QInv
<1>4. \A w \in Writes : pc[w] \in Holding => lock = w
  BY <1>0 DEF LockIsWriters
<1>5. ASSUME NEW w \in Writes, lock = None, pc[w] \in {"start", "queued"},
             Enter(w), UNCHANGED <<cause, open, committed>>
      PROVE  QInv'
  <2>1. issued[w] = 0 /\ Absent(w) /\ issued[w] < Stmts[w] /\ lock' = w
    <3>1. issued[w] = 0 /\ Absent(w)
      BY <1>3, <1>5 DEF StageInv
    <3>2. Stmts[w] \in Nat \ {0}
      BY WritesAssumption
    <3>3. QED
      BY <1>5, <3>1, <3>2 DEF Enter
  <2>2. OthersIdle(w) /\ Settled
    BY <1>2, <1>5
  <2>3. CASE w \notin Blocks
    <3>1. AwaitStatement(w)
      BY <1>5, <2>3 DEF Enter
    <3>2. QED
      BY <1>0, <1>5, <2>1, <2>2, <3>1, StatementQueued
  <2>4. CASE w \in Blocks
    <3>1. pc' = [pc EXCEPT ![w] = "body"] /\ UNCHANGED <<issued, reply, queue>>
      BY <1>5, <2>4 DEF Enter
    <3>2. QueueInv'
      BY <1>0, <1>5, <2>1, <3>1, WritesAssumption DEF QInv, QueueInv
    <3>3. ASSUME NEW v \in Writes PROVE StageInv(v)'
      <4>1. CASE v = w
        BY <1>0, <1>5, <2>1, <2>2, <3>1, <4>1 DEF StageInv, Absent, Settled, Types
      <4>2. CASE v # w
        <5>1. pc'[v] = pc[v]
          BY <1>0, <3>1, <4>2 DEF Types
        <5>2. QED
          BY <1>3, <1>5, <3>1, <5>1 DEF StageInv, Absent, Settled
      <4>3. QED
        BY <4>1, <4>2
    <3>4. CommitInv'
      BY <1>0, <1>5, <3>1 DEF QInv, CommitInv, Uncommitted, Types
    <3>5. Safe'
      BY <1>0, <1>5, <3>1 DEF QInv, Safe, OneWriteOpen, WholeWrites, HonestOutcome, Types
    <3>6. QED
      BY <3>2, <3>3, <3>4, <3>5 DEF QInv
  <2>5. QED
    BY <2>3, <2>4
(* A call outside the write lock moves; nothing else does.                 *)
<1>6. ASSUME NEW w \in Writes, NEW p \in {"queued", "cancelled"},
             pc[w] \in {"start", "queued"}, pc' = [pc EXCEPT ![w] = p],
             UNCHANGED <<cause, issued, reply, lock, queue, open, committed>>
      PROVE  QInv'
  <2>1. QueueInv'
    BY <1>0, <1>6 DEF QInv, QueueInv, Settled
  <2>2. ASSUME NEW v \in Writes PROVE StageInv(v)'
    <3>1. CASE v = w
      BY <1>0, <1>3, <1>6, <3>1 DEF StageInv, Absent, Types
    <3>2. CASE v # w
      <4>1. pc'[v] = pc[v]
        BY <1>0, <1>6, <3>2 DEF Types
      <4>2. QED
        BY <1>3, <1>6, <4>1 DEF StageInv, Absent, Settled
    <3>3. QED
      BY <3>1, <3>2
  <2>3. CommitInv'
    BY <1>0, <1>6 DEF QInv, CommitInv, Uncommitted, Types
  <2>4. Safe'
    BY <1>0, <1>6 DEF QInv, Safe, OneWriteOpen, WholeWrites, HonestOutcome, Types
  <2>5. QED
    BY <2>1, <2>2, <2>3, <2>4 DEF QInv
<1>7. ASSUME NEW w \in Writes, Call(w) PROVE QInv'
  <2>1. CASE lock = None /\ waiters = <<>>
    BY <1>5, <1>7, <2>1 DEF Call
  <2>2. CASE ~(lock = None /\ waiters = <<>>)
    <3>1. pc[w] \in {"start", "queued"} /\ pc' = [pc EXCEPT ![w] = "queued"]
          /\ UNCHANGED <<cause, issued, reply, lock, queue, open, committed>>
      BY <1>7, <2>2 DEF Call
    <3>2. QED
      BY <1>6, <3>1
  <2>3. QED
    BY <2>1, <2>2
<1>8. ASSUME NEW w \in Writes, Acquire(w) PROVE QInv'
  BY <1>5, <1>8 DEF Acquire
<1>9. ASSUME NEW w \in Writes, BodyStatement(w) PROVE QInv'
  <2>1. lock = w /\ pc[w] = "body" /\ issued[w] < Stmts[w] /\ AwaitStatement(w)
        /\ UNCHANGED <<cause, lock, open, committed>>
    BY <1>4, <1>9 DEF BodyStatement, Holding
  <2>2. /\ Absent(w)
        /\ IF issued[w] = 0 THEN Settled
                            ELSE queue = <<>> /\ open = FirstParts(w, issued[w])
    BY <1>3, <2>1 DEF StageInv
  <2>3. OthersIdle(w)
    BY <1>1, <2>1
  <2>4. QED
    BY <1>0, <2>1, <2>2, <2>3, StatementQueued
<1>10. ASSUME NEW w \in Writes, BodyEnds(w) PROVE QInv'
  <2>1. lock = w /\ pc[w] = "body" /\ issued[w] = Stmts[w] /\ AwaitCommit(w)
        /\ UNCHANGED <<cause, lock, open, committed>>
    BY <1>4, <1>10 DEF BodyEnds, Holding
  <2>2. issued[w] # 0
    BY <2>1, WritesAssumption
  <2>3. queue = <<>> /\ open = Parts(w)
    BY <1>3, <2>1, <2>2 DEF StageInv, FirstParts, Parts
  <2>4. QED
    BY <1>0, <1>1, <2>1, <2>3, CommitQueued
<1>11. ASSUME NEW w \in Writes, BodyRaises(w) PROVE QInv'
  <2>1. lock = w /\ pc[w] = "body" /\ AwaitRollback(w, "error")
        /\ UNCHANGED <<lock, open, committed>>
    BY <1>4, <1>11 DEF BodyRaises, Holding
  <2>2. QED
    BY <1>0, <1>1, <2>1, RollbackQueued
<1>12. ASSUME NEW w \in Writes, NestedExecute(w) PROVE QInv'
  <2>1. lock = w /\ pc[w] = "body" /\ writer = w
    BY <1>0, <1>4, <1>12 DEF NestedExecute, Holding, LockIsWriters
  <2>2. AwaitRollback(w, "error") /\ UNCHANGED <<lock, open, committed>>
    BY <1>12, <2>1 DEF NestedExecute
  <2>3. QED
    BY <1>0, <1>1, <2>1, <2>2, RollbackQueued
<1>13. ASSUME NEW w \in Writes, Resume(w) PROVE QInv'
  <2>1. lock = w /\ OthersIdle(w) /\ StageInv(w)
    BY <1>1, <1>3, <1>4, <1>13 DEF Resume, Holding
  <2>2. CASE pc[w] = "stmt" /\ reply[w] = "ok"
    <3>1. issued[w] \in 1 .. Stmts[w] /\ queue = <<>> /\ open = FirstParts(w, issued[w])
      BY <2>1, <2>2 DEF StageInv
    <3>2. CASE w \in Blocks
      <4>1. pc' = [pc EXCEPT ![w] = "body"]
            /\ UNCHANGED <<cause, issued, reply, lock, queue, open, committed>>
        BY <1>13, <2>2, <3>2 DEF Resume
      <4>2. QueueInv'
        BY <1>0, <4>1 DEF QInv, QueueInv, Settled
      <4>3. ASSUME NEW v \in Writes PROVE StageInv(v)'
        <5>1. CASE v = w
          <6>1. Absent(w)'
            BY <3>1, <4>1 DEF Absent
          <6>2. pc'[w] = "body"
            BY <1>0, <4>1 DEF Types
          <6>3. issued[w] # 0
            BY <3>1
          <6>4. QED
            BY <3>1, <4>1, <5>1, <6>1, <6>2, <6>3 DEF StageInv
        <5>2. CASE v # w
          <6>1. pc'[v] = pc[v]
            BY <1>0, <4>1, <5>2 DEF Types
          <6>2. QED
            BY <1>3, <4>1, <6>1 DEF StageInv, Absent, Settled
        <5>3. QED
          BY <5>1, <5>2
      <4>4. CommitInv'
        BY <1>0, <2>2, <4>1, <3>1 DEF QInv, CommitInv, Uncommitted, Types
      <4>5. Safe'
        BY <1>0, <4>1 DEF QInv, Safe, OneWriteOpen, WholeWrites, HonestOutcome, Types
      <4>6. QED
        BY <4>2, <4>3, <4>4, <4>5 DEF QInv
    <3>3. CASE w \notin Blocks
      <4>1. AwaitCommit(w) /\ UNCHANGED <<cause, lock, open, committed>>
        BY <1>13, <2>2, <3>3 DEF Resume
      <4>2. issued[w] = Stmts[w]
        BY <3>1, <3>3, WritesAssumption
      <4>3. open = Parts(w)
        BY <3>1, <4>2 DEF FirstParts, Parts
      <4>4. QED
        BY <1>0, <2>1, <2>2, <3>1, <4>1, <4>2, <4>3, CommitQueued
    <3>4. QED
      BY <3>2, <3>3
  <2>3. CASE pc[w] \in {"stmt", "commit"} /\ reply[w] = "error"
    <3>1. AwaitRollback(w, "error") /\ UNCHANGED <<lock, open, committed>>
      BY <1>13, <2>3 DEF Resume
    <3>2. QED
      BY <1>0, <2>1, <2>3, <3>1, RollbackQueued
  <2>4. CASE pc[w] = "commit" /\ reply[w] = "ok"
    <3>1. queue = <<>> /\ open = {} /\ Parts(w) \subseteq committed
      BY <2>1, <2>4 DEF StageInv
    <3>2. Finish(w, "ok") /\ UNCHANGED <<cause, issued, reply, queue, open, committed>>
      BY <1>13, <2>4 DEF Resume
    <3>3. Settled
      BY <3>1 DEF Settled
    <3>4. QED
      BY <1>0, <2>1, <2>4, <3>1, <3>2, <3>3, FinishStep
  <2>5. CASE pc[w] = "rollback"
    <3>1. queue = <<>> /\ open = {}
      BY <1>13, <2>1, <2>5 DEF StageInv, Resume
    <3>2. Finish(w, cause[w]) /\ UNCHANGED <<cause, issued, reply, queue, open, committed>>
      BY <1>13, <2>5 DEF Resume
    <3>3. Settled /\ cause[w] \in {"error", "cancelled"}
      BY <1>0, <3>1 DEF Settled, Types
    <3>4. QED
      BY <1>0, <2>1, <2>5, <3>1, <3>2, <3>3, FinishStep
  <2>6. QED
    BY <1>13, <2>2, <2>3, <2>4, <2>5 DEF Resume
<1>14. ASSUME NEW w \in Writes, CancelWaiting(w) PROVE QInv'
  <2>1. pc[w] \in {"start", "queued"} /\ pc' = [pc EXCEPT ![w] = "cancelled"]
        /\ UNCHANGED <<cause, issued, reply, lock, queue, open, committed>>
    BY <1>14 DEF CancelWaiting
  <2>2. QED
    BY <1>6, <2>1
<1>15. ASSUME NEW w \in Writes, CancelWriting(w) PROVE QInv'
  <2>1. lock = w /\ pc[w] \in {"body", "stmt", "commit"} /\ AwaitRollback(w, "cancelled")
        /\ UNCHANGED <<lock, open, committed>>
    BY <1>4, <1>15 DEF CancelWriting, Holding, Awaiting
  <2>2. QED
    BY <1>0, <1>1, <2>1, RollbackQueued
<1>16. ASSUME NEW w \in Writes, CancelRollback(w) PROVE QInv'
  <2>1. lock = w /\ pc[w] = "rollback" /\ Finish(w, "cancelled")
        /\ UNCHANGED <<cause, issued, reply, queue, open, committed>>
    BY <1>4, <1>16 DEF CancelRollback, Holding, Awaiting
  <2>2. Settled
    BY <1>0, <1>3, <2>1 DEF StageInv, Settled, Types
  <2>3. QED
    BY <1>0, <1>1, <2>1, <2>2, FinishStep
<1>17. CASE Worker
  BY <1>0, <1>17, WorkerStep
<1>18. CASE Crash
  <2>1. /\ queue' = <<>> /\ open' = {}
        /\ UNCHANGED <<cause, issued, reply, committed>>
        /\ \A v \in Writes : pc'[v] = IF pc[v] \in Finished \cup {"start"}
                                         THEN pc[v] ELSE "crashed"
    BY <1>18 DEF Crash
  <2>2. QueueInv'
    BY <2>1 DEF QueueInv, Settled
  <2>3. ASSUME NEW v \in Writes PROVE StageInv(v)'
    <3>1. pc'[v] \in Finished \cup {"start"} /\ (pc'[v] = "start" => pc[v] = "start")
      BY <2>1 DEF Finished
    <3>2. Absent(v)'
      BY <2>1 DEF Absent
    <3>3. pc'[v] = "start" => issued'[v] = 0
      BY <1>3, <2>1, <3>1 DEF StageInv
    <3>4. QED
      BY <3>1, <3>2, <3>3 DEF StageInv, Finished
  <2>4. CommitInv'
    BY <1>0, <2>1 DEF QInv, CommitInv, Uncommitted, Finished
  <2>5. Safe'
    BY <1>0, <2>1 DEF QInv, Safe, OneWriteOpen, WholeWrites, HonestOutcome, Finished
  <2>6. QED
    BY <2>2, <2>3, <2>4, <2>5 DEF QInv
<1>19. CASE UNCHANGED vars
  BY <1>0, <1>19
  DEF vars, QInv, QueueInv, Settled, StageInv, Absent, CommitInv, Uncommitted,
      Safe, OneWriteOpen, WholeWrites, HonestOutcome
<1>20. QED
  BY <1>7, <1>8, <1>9, <1>10, <1>11, <1>12, <1>13, <1>14, <1>15, <1>16, <1>17, <1>18, <1>19
  DEF Next, Step, Cancel

LEMMA IInvInit == Init => IInv
<1> SUFFICES ASSUME Init PROVE IInv
  OBVIOUS
<1>1. Types
  BY WritesAssumption DEF Init, Types
<1>2. LockIsWriters
  BY WritesAssumption DEF Init, LockIsWriters, Holding, Awaiting
<1>3. QueueInv /\ CommitInv
  BY DEF Init, QueueInv, CommitInv, Settled
<1>4. ASSUME NEW w \in Writes PROVE StageInv(w)
  BY DEF Init, StageInv, Absent
<1>5. OneWriteOpen /\ WholeWrites /\ HonestOutcome
  BY DEF Init, OneWriteOpen, WholeWrites, HonestOutcome
<1>6. QED
  BY <1>1, <1>2, <1>3, <1>4, <1>5 DEF IInv

(* The strengthening: what the queue holds is accounted for by the pc of   *)
(* whoever queued it.  Inductive for every set of writes.                  *)
THEOREM Inductive == Spec => []IInv
<1>1. Init => IInv
  BY IInvInit
<1>2. IInv /\ [Next]_vars => IInv'
  <2> SUFFICES ASSUME IInv, [Next]_vars PROVE IInv'
    OBVIOUS
  <2>1. Types /\ LockIsWriters
    BY DEF IInv
  <2>2. \A w \in Writes : pc[w] \in {"start", "queued"} => issued[w] = 0
    BY DEF IInv, StageInv
  <2>3. Types'
    BY <2>1, <2>2, TypeStep
  <2>4. LockIsWriters'
    BY <2>1, LockStep
  <2>5. QInv'
    BY IInvStep
  <2>6. QED
    BY <2>3, <2>4, <2>5 DEF IInv, QInv, Safe
<1>3. QED
  BY <1>1, <1>2, PTL DEF Spec

(* Every variable of the write paths keeps its type, and the lock is held  *)
(* by whoever writes, and by nobody else, whatever is cancelled, fails or  *)
(* crashes.                                                                *)
THEOREM TypeCorrect == Spec => []TypeOK
<1>1. IInv => TypeOK
  BY DEF IInv, TypeOK
<1>2. QED
  BY <1>1, Inductive, PTL

(* However the steps of any number of writers, the worker thread,          *)
(* cancellations and crashes interleave, a write is in the file whole or   *)
(* not at all.                                                             *)
THEOREM Atomicity == Spec => []WholeWrites
<1>1. IInv => WholeWrites
  BY DEF IInv
<1>2. QED
  BY <1>1, Inductive, PTL

(* No two writes are ever open on the connection together.                 *)
THEOREM Isolation == Spec => []OneWriteOpen
<1>1. IInv => OneWriteOpen
  BY DEF IInv
<1>2. QED
  BY <1>1, Inductive, PTL

(* A call that returned is durable and one that raised an error left no    *)
(* row, then and ever after.                                               *)
THEOREM Honesty == Spec => []HonestOutcome
<1>1. IInv => HonestOutcome
  BY DEF IInv
<1>2. QED
  BY <1>1, Inductive, PTL

-----------------------------------------------------------------------------
(* The refinement.                                                         *)

OutcomeBar == [w \in Writes |-> IF pc[w] \in Finished THEN pc[w] ELSE "pending"]

(* A step that moves one call's pc between unfinished stages, or none.     *)
LEMMA StutterStep ==
  ASSUME Types, NEW w \in Writes, NEW p \in {"queued", "body"} \cup Awaiting,
         pc[w] \notin Finished, pc' = [pc EXCEPT ![w] = p], UNCHANGED committed
  PROVE  UNCHANGED <<committed, OutcomeBar>>
<1>1. \A v \in Writes : (pc'[v] \in Finished <=> pc[v] \in Finished)
                      /\ (pc[v] \in Finished => pc'[v] = pc[v])
  BY DEF Types, Finished, Awaiting
<1>2. QED
  BY <1>1 DEF OutcomeBar

LEMMA ReturnStep ==
  ASSUME Types, NEW w \in Writes, NEW how \in {"ok", "error", "cancelled"},
         pc[w] \notin Finished, pc' = [pc EXCEPT ![w] = how], UNCHANGED committed,
         how = "ok" => Parts(w) \subseteq committed,
         how = "error" => Parts(w) \cap committed = {}
  PROVE  Abstract!Return(w, how)
<1>1. OutcomeBar[w] = "pending"
  BY DEF OutcomeBar
<1>2. OutcomeBar' = [OutcomeBar EXCEPT ![w] = how]
  BY DEF OutcomeBar, Finished, Types
<1>3. QED
  BY <1>1, <1>2 DEF Abstract!Return, Abstract!Parts, Parts, OutcomeBar

LEMMA RefinementStep ==
  ASSUME IInv, [Next]_vars
  PROVE  [Abstract!Next]_<<committed, OutcomeBar>>
<1>0. Types /\ LockIsWriters /\ CommitInv
  BY DEF IInv
<1>1. ASSUME NEW w \in Writes, Enter(w), pc[w] \in {"start", "queued"}, UNCHANGED committed
      PROVE  UNCHANGED <<committed, OutcomeBar>>
  <2>1. \E p \in {"queued", "body"} \cup Awaiting : pc' = [pc EXCEPT ![w] = p]
    BY <1>1 DEF Enter, AwaitStatement, Await, Awaiting
  <2>2. QED
    BY <1>0, <1>1, <2>1, StutterStep DEF Finished
<1>2. ASSUME NEW w \in Writes, NEW op \in Awaiting, Await(w, op), pc[w] \in Holding,
             UNCHANGED committed
      PROVE  UNCHANGED <<committed, OutcomeBar>>
  <2>1. pc' = [pc EXCEPT ![w] = op] /\ pc[w] \notin Finished
    BY <1>2 DEF Await, Holding, Awaiting, Finished
  <2>2. QED
    BY <1>0, <1>2, <2>1, StutterStep
<1>3. ASSUME NEW w \in Writes, Call(w) PROVE UNCHANGED <<committed, OutcomeBar>>
  <2>1. CASE lock = None /\ waiters = <<>>
    BY <1>1, <1>3, <2>1 DEF Call
  <2>2. CASE ~(lock = None /\ waiters = <<>>)
    <3>1. pc' = [pc EXCEPT ![w] = "queued"] /\ pc[w] \notin Finished /\ UNCHANGED committed
      BY <1>3, <2>2 DEF Call, Finished
    <3>2. QED
      BY <1>0, <3>1, StutterStep
  <2>3. QED
    BY <2>1, <2>2
<1>4. ASSUME NEW w \in Writes, Acquire(w) PROVE UNCHANGED <<committed, OutcomeBar>>
  BY <1>1, <1>4 DEF Acquire
<1>5. ASSUME NEW w \in Writes, BodyStatement(w) PROVE UNCHANGED <<committed, OutcomeBar>>
  BY <1>2, <1>5 DEF BodyStatement, AwaitStatement, Holding, Awaiting
<1>6. ASSUME NEW w \in Writes, BodyEnds(w) PROVE UNCHANGED <<committed, OutcomeBar>>
  BY <1>2, <1>6 DEF BodyEnds, AwaitCommit, Holding, Awaiting
<1>7. ASSUME NEW w \in Writes, BodyRaises(w) PROVE UNCHANGED <<committed, OutcomeBar>>
  BY <1>2, <1>7 DEF BodyRaises, AwaitRollback, Holding, Awaiting
<1>8. ASSUME NEW w \in Writes, NestedExecute(w) PROVE UNCHANGED <<committed, OutcomeBar>>
  <2>1. writer = w /\ pc[w] \in Holding
    BY <1>0, <1>8 DEF NestedExecute, LockIsWriters, Holding
  <2>2. QED
    BY <1>2, <1>8, <2>1 DEF NestedExecute, AwaitRollback, Awaiting
<1>9. ASSUME NEW w \in Writes, Resume(w)
      PROVE  UNCHANGED <<committed, OutcomeBar>> \/ \E how \in {"ok", "error", "cancelled"} : Abstract!Return(w, how)
  <2>1. pc[w] \in Holding /\ pc[w] \notin Finished /\ UNCHANGED committed
    BY <1>9 DEF Resume, Holding, Awaiting, Finished
  <2>2. CASE pc[w] = "stmt" /\ reply[w] = "ok" /\ w \in Blocks
    <3>1. pc' = [pc EXCEPT ![w] = "body"]
      BY <1>9, <2>2 DEF Resume
    <3>2. QED
      BY <1>0, <2>1, <3>1, StutterStep
  <2>3. CASE pc[w] = "stmt" /\ reply[w] = "ok" /\ w \notin Blocks
    BY <1>2, <1>9, <2>1, <2>3 DEF Resume, AwaitCommit, Awaiting
  <2>4. CASE pc[w] \in {"stmt", "commit"} /\ reply[w] = "error"
    BY <1>2, <1>9, <2>1, <2>4 DEF Resume, AwaitRollback, Awaiting
  <2>5. CASE pc[w] = "commit" /\ reply[w] = "ok"
    <3>1. Parts(w) \subseteq committed
      BY <2>5 DEF IInv, StageInv
    <3>2. pc' = [pc EXCEPT ![w] = "ok"]
      BY <1>9, <2>5 DEF Resume, Finish
    <3>3. Abstract!Return(w, "ok")
      BY <1>0, <2>1, <3>1, <3>2, ReturnStep
    <3>4. QED
      BY <3>3
  <2>6. CASE pc[w] = "rollback"
    <3>1. PICK how \in {"error", "cancelled"} : how = cause[w]
      BY <1>0 DEF Types
    <3>2. how = "error" => Parts(w) \cap committed = {}
      BY <1>0, <2>6, <3>1 DEF CommitInv, Uncommitted
    <3>3. pc' = [pc EXCEPT ![w] = how]
      BY <1>9, <2>6, <3>1 DEF Resume, Finish
    <3>4. Abstract!Return(w, how)
      BY <1>0, <2>1, <3>2, <3>3, ReturnStep
    <3>5. QED
      BY <3>4
  <2>7. QED
    BY <1>9, <2>2, <2>3, <2>4, <2>5, <2>6 DEF Resume
<1>10. ASSUME NEW w \in Writes, CancelWaiting(w) PROVE Abstract!Return(w, "cancelled")
  <2>1. pc' = [pc EXCEPT ![w] = "cancelled"] /\ pc[w] \notin Finished /\ UNCHANGED committed
    BY <1>10 DEF CancelWaiting, Finished
  <2>2. QED
    BY <1>0, <2>1, ReturnStep
<1>11. ASSUME NEW w \in Writes, CancelWriting(w) PROVE UNCHANGED <<committed, OutcomeBar>>
  BY <1>2, <1>11 DEF CancelWriting, AwaitRollback, Holding, Awaiting
<1>12. ASSUME NEW w \in Writes, CancelRollback(w) PROVE Abstract!Return(w, "cancelled")
  <2>1. pc' = [pc EXCEPT ![w] = "cancelled"] /\ pc[w] \notin Finished /\ UNCHANGED committed
    BY <1>12 DEF CancelRollback, Finish, Finished
  <2>2. QED
    BY <1>0, <2>1, ReturnStep
<1>13. ASSUME Worker
       PROVE  UNCHANGED <<committed, OutcomeBar>> \/ \E w \in Writes : Abstract!Land(w)
  <2> DEFINE item == queue[1]
  <2>1. /\ queue # <<>> /\ Len(queue) \in Nat \ {0} /\ item \in Operations
        /\ UNCHANGED pc
        /\ RunStatement(item) \/ RunCommit(item) \/ RunRollback(item)
    BY <1>0, <1>13, TailFacts DEF Worker, Types
  <2>2. UNCHANGED OutcomeBar
    BY <2>1 DEF OutcomeBar
  <2>3. CASE item.op # "commit"
    BY <2>1, <2>2, <2>3 DEF RunStatement, RunCommit, RunRollback
  <2>4. CASE item.op = "commit"
    <3>0. 1 \in 1 .. Len(queue)
      BY <2>1
    <3>1. item.w \in Writes /\ open = Parts(item.w)
      BY <2>1, <2>4, <3>0 DEF IInv, QueueInv, Operations
    <3>2. OutcomeBar[item.w] \in {"pending", "cancelled"}
      <4>1. pc[item.w] \in {"commit", "rollback", "cancelled"}
        BY <1>0, <2>4, <3>0 DEF CommitInv
      <4>2. QED
        BY <3>1, <4>1 DEF OutcomeBar, Finished
    <3>3. UNCHANGED committed \/ committed' = committed \cup Parts(item.w)
      BY <2>1, <2>4, <3>1 DEF RunStatement, RunCommit, RunRollback
    <3>4. CASE committed' = committed \cup Parts(item.w)
      <4>1. Abstract!Land(item.w)
        BY <2>2, <3>2, <3>4 DEF Abstract!Land, Abstract!Parts, Parts, OutcomeBar
      <4>2. QED
        BY <3>1, <4>1
    <3>5. QED
      BY <2>2, <3>3, <3>4
  <2>5. QED
    BY <2>3, <2>4
<1>14. ASSUME Crash PROVE Abstract!Crash
  <2> DEFINE lost == {w \in Writes : pc[w] \notin Finished \cup {"start"}}
  <2>1. lost \in SUBSET {w \in Writes : OutcomeBar[w] = "pending"}
    BY DEF OutcomeBar
  <2>2. OutcomeBar' = [w \in Writes |-> IF w \in lost THEN "crashed" ELSE OutcomeBar[w]]
    BY <1>14 DEF Crash, OutcomeBar, Finished
  <2>3. UNCHANGED committed
    BY <1>14 DEF Crash
  <2>4. QED
    BY <2>1, <2>2, <2>3 DEF Abstract!Crash, OutcomeBar
<1>15. CASE UNCHANGED vars
  BY <1>15 DEF vars, OutcomeBar
<1>16. QED
  BY <1>3, <1>4, <1>5, <1>6, <1>7, <1>8, <1>9, <1>10, <1>11, <1>12, <1>13, <1>14, <1>15
  DEF Next, Step, Cancel, Abstract!Next

(* The two write paths implement the abstract writes: every write lands    *)
(* whole or not at all, and returns what happened to it.                   *)
THEOREM Refinement == Spec => ImplementsAtomicWrites
<1>1. Init => Abstract!Init
  BY DEF Init, Abstract!Init, Finished
<1>2. IInv /\ [Next]_vars => [Abstract!Next]_(Abstract!vars)
  BY RefinementStep DEF Abstract!vars, OutcomeBar
<1>3. QED
  BY <1>1, <1>2, Inductive, PTL DEF Spec, Abstract!Spec, ImplementsAtomicWrites

=============================================================================
