------------------------------ MODULE Database ------------------------------
(***************************************************************************)
(* infra/db.py: the two write paths of the one SQLite connection that the  *)
(* whole process shares, at the grain of their awaits.                     *)
(*                                                                         *)
(* Coroutines run on the event loop; SQL runs on the one worker thread of  *)
(* aiosqlite, which takes operations from a FIFO queue.  An await can be   *)
(* cancelled, but the operation it was waiting for stays queued and runs.  *)
(* Commit and rollback act on whatever the connection has open, no matter  *)
(* which coroutine queued the statements.                                  *)
(*                                                                         *)
(* A member of Writes is one call: Database.execute() when it is in Blocks *)
(* not, a Database.transaction() block of Stmts[w] statements when it is.  *)
(***************************************************************************)
EXTENDS Naturals, Sequences, SequencesExt

CONSTANTS
  Writes,  \* the calls made, each at most once, each by a task of its own
  Blocks,  \* those that are transaction() blocks
  Stmts,   \* [Writes -> Nat \ {0}], how many statements each has
  None     \* no task

ASSUME WritesAssumption ==
  /\ Blocks \subseteq Writes
  /\ Stmts \in [Writes -> Nat \ {0}]
  /\ \A w \in Writes \ Blocks : Stmts[w] = 1
  /\ None \notin Writes

VARIABLES
  pc,         \* where each call stands
  cause,      \* the exception a call in "rollback" is unwinding with
  issued,     \* how many of its statements each call has queued
  reply,      \* the answer to the operation a call awaits, once there is one
  lock,       \* holder of _write_lock
  waiters,    \* FIFO queue of _write_lock
  writer,     \* _writer
  queue,      \* operations waiting for aiosqlite's worker thread
  open,       \* statements in the connection's uncommitted transaction
  committed   \* statements the database file holds

vars == <<pc, cause, issued, reply, lock, waiters, writer, queue, open, committed>>

Awaiting == {"stmt", "commit", "rollback"}   \* also the kinds of operation
Finished == {"ok", "error", "cancelled", "crashed"}

Parts(w) == {w} \X (1 .. Stmts[w])

Operations == [op : Awaiting, w : Writes, n : Nat]

Init ==
  /\ pc = [w \in Writes |-> "start"]
  /\ cause = [w \in Writes |-> "error"]
  /\ issued = [w \in Writes |-> 0]
  /\ reply = [w \in Writes |-> "none"]
  /\ lock = None
  /\ waiters = <<>>
  /\ writer = None
  /\ queue = <<>>
  /\ open = {}
  /\ committed = {}

-----------------------------------------------------------------------------
(* Queueing an operation and awaiting its answer.                          *)

Await(w, op) ==
  /\ pc' = [pc EXCEPT ![w] = op]
  /\ reply' = [reply EXCEPT ![w] = "none"]
  /\ queue' = Append(queue, [op |-> op, w |-> w, n |-> issued'[w]])

AwaitStatement(w) ==
  /\ issued' = [issued EXCEPT ![w] = @ + 1]
  /\ Await(w, "stmt")

AwaitCommit(w) ==
  /\ UNCHANGED issued
  /\ Await(w, "commit")

(* Mutants: a cancelled write commits what it has; a failed one does.      *)
AwaitRollback_CommitsOnCancel(w, why) ==
  /\ cause' = [cause EXCEPT ![w] = why]
  /\ UNCHANGED issued
  /\ Await(w, IF why = "cancelled" THEN "commit" ELSE "rollback")

AwaitRollback_CommitsOnError(w, why) ==
  /\ cause' = [cause EXCEPT ![w] = why]
  /\ UNCHANGED issued
  /\ Await(w, IF why = "error" THEN "commit" ELSE "rollback")

(* `except BaseException`: the lock is still held while this is awaited.   *)
AwaitRollback(w, why) ==
  /\ cause' = [cause EXCEPT ![w] = why]
  /\ UNCHANGED issued
  /\ Await(w, "rollback")

(* Mutant: no `finally` that forgets the task of the block.                *)
Finish_KeepsWriter(w, how) ==
  /\ pc' = [pc EXCEPT ![w] = how]
  /\ lock' = None
  /\ UNCHANGED writer

Finish(w, how) ==
  /\ pc' = [pc EXCEPT ![w] = how]
  /\ lock' = None
  /\ writer' = None

-----------------------------------------------------------------------------
(* Mutant: the block does not record its task in _writer.                  *)
Enter_NoWriter(w) ==
  /\ lock' = w
  /\ UNCHANGED writer
  /\ IF w \in Blocks
       THEN /\ pc' = [pc EXCEPT ![w] = "body"]
            /\ UNCHANGED <<issued, reply, queue>>
       ELSE AwaitStatement(w)

(* Taking the lock.  execute() queues its statement in the same step as it *)
(* gets the lock; a block records its task and runs its body.              *)

Enter(w) ==
  /\ lock' = w
  /\ IF w \in Blocks
       THEN /\ writer' = w
            /\ pc' = [pc EXCEPT ![w] = "body"]
            /\ UNCHANGED <<issued, reply, queue>>
       ELSE AwaitStatement(w) /\ UNCHANGED writer

(* Mutant: no write lock.                                                  *)
Call_NoLock(w) ==
  /\ pc[w] = "start"
  /\ Enter(w)
  /\ UNCHANGED <<waiters, cause, open, committed>>

Call(w) ==
  /\ pc[w] = "start"
  /\ IF lock = None /\ waiters = <<>>
       THEN Enter(w) /\ UNCHANGED waiters
       ELSE /\ waiters' = Append(waiters, w)
            /\ pc' = [pc EXCEPT ![w] = "queued"]
            /\ UNCHANGED <<lock, writer, issued, reply, queue>>
  /\ UNCHANGED <<cause, open, committed>>

Acquire(w) ==
  /\ pc[w] = "queued"
  /\ lock = None
  /\ waiters # <<>> /\ w = Head(waiters)
  /\ waiters' = Tail(waiters)
  /\ Enter(w)
  /\ UNCHANGED <<cause, open, committed>>

-----------------------------------------------------------------------------
(* The body of a transaction() block.                                      *)

BodyStatement(w) ==
  /\ pc[w] = "body"
  /\ issued[w] < Stmts[w]
  /\ AwaitStatement(w)
  /\ UNCHANGED <<cause, lock, waiters, writer, open, committed>>

BodyEnds(w) ==
  /\ pc[w] = "body"
  /\ issued[w] = Stmts[w]
  /\ AwaitCommit(w)
  /\ UNCHANGED <<cause, lock, waiters, writer, open, committed>>

BodyRaises(w) ==
  /\ pc[w] = "body"
  /\ AwaitRollback(w, "error")
  /\ UNCHANGED <<lock, waiters, writer, open, committed>>

(* The body calls execute(), which knows the block by its task and raises. *)
(* Were it not to, the task would wait for the lock it holds.              *)
NestedExecute(w) ==
  /\ pc[w] = "body"
  /\ IF writer = w
       THEN AwaitRollback(w, "error") /\ UNCHANGED waiters
       ELSE /\ waiters' = Append(waiters, w)
            /\ pc' = [pc EXCEPT ![w] = "queued"]
            /\ UNCHANGED <<cause, issued, reply, queue>>
  /\ UNCHANGED <<lock, writer, open, committed>>

-----------------------------------------------------------------------------
(* The task runs on after its await.                                       *)

Resume(w) ==
  /\ pc[w] \in Awaiting
  /\ reply[w] # "none"
  /\ \/ /\ pc[w] = "stmt" /\ reply[w] = "ok"
        /\ IF w \in Blocks
             THEN pc' = [pc EXCEPT ![w] = "body"] /\ UNCHANGED <<issued, reply, queue>>
             ELSE AwaitCommit(w)
        /\ UNCHANGED <<cause, lock, writer>>
     \/ /\ pc[w] \in {"stmt", "commit"} /\ reply[w] = "error"
        /\ AwaitRollback(w, "error")
        /\ UNCHANGED <<lock, writer>>
     \/ /\ pc[w] = "commit" /\ reply[w] = "ok"
        /\ Finish(w, "ok")
        /\ UNCHANGED <<cause, issued, reply, queue>>
     \/ /\ pc[w] = "rollback"
        /\ Finish(w, cause[w])
        /\ UNCHANGED <<cause, issued, reply, queue>>
  /\ UNCHANGED <<waiters, open, committed>>

-----------------------------------------------------------------------------
(* Cancellation, delivered at an await.  What was queued stays queued.     *)

CancelWaiting(w) ==
  /\ pc[w] = "queued"
  /\ \E i \in 1 .. Len(waiters) :
       waiters[i] = w /\ waiters' = RemoveAt(waiters, i)
  /\ pc' = [pc EXCEPT ![w] = "cancelled"]
  /\ UNCHANGED <<cause, issued, reply, lock, writer, queue, open, committed>>

(* Mutant: `except Exception`, which a CancelledError passes by.           *)
CancelWriting_NoRollback(w) ==
  /\ pc[w] \in {"body", "stmt", "commit"}
  /\ Finish(w, "cancelled")
  /\ UNCHANGED <<cause, issued, reply, waiters, queue, open, committed>>

CancelWriting(w) ==
  /\ pc[w] \in {"body", "stmt", "commit"}
  /\ AwaitRollback(w, "cancelled")
  /\ UNCHANGED <<lock, waiters, writer, open, committed>>

(* suppress(Exception) lets a CancelledError out of the rollback await.    *)
CancelRollback(w) ==
  /\ pc[w] = "rollback"
  /\ Finish(w, "cancelled")
  /\ UNCHANGED <<cause, issued, reply, waiters, queue, open, committed>>

-----------------------------------------------------------------------------
(* aiosqlite's worker thread runs the oldest operation.  The answer is     *)
(* dropped when nobody awaits it any more.                                 *)

Answer(item, r) ==
  reply' = IF pc[item.w] = item.op THEN [reply EXCEPT ![item.w] = r] ELSE reply

RunStatement(item) ==
  /\ item.op = "stmt"
  /\ \/ open' = open \cup {<<item.w, item.n>>} /\ Answer(item, "ok")
     \/ UNCHANGED open /\ Answer(item, "error")
  /\ UNCHANGED committed

RunCommit(item) ==
  /\ item.op = "commit"
  /\ \/ committed' = committed \cup open /\ open' = {} /\ Answer(item, "ok")
     \/ UNCHANGED <<committed, open>> /\ Answer(item, "error")

RunRollback(item) ==
  /\ item.op = "rollback"
  /\ open' = {}
  /\ Answer(item, "ok")
  /\ UNCHANGED committed

Worker ==
  /\ queue # <<>>
  /\ LET item == Head(queue)
     IN  RunStatement(item) \/ RunCommit(item) \/ RunRollback(item)
  /\ queue' = Tail(queue)
  /\ UNCHANGED <<pc, cause, issued, lock, waiters, writer>>

(* The process dies and starts again: SQLite discards what was not         *)
(* committed, and the calls that were running are gone.                    *)
Crash ==
  /\ queue # <<>> \/ \E w \in Writes : pc[w] \notin Finished \cup {"start"}
  /\ pc' = [w \in Writes |->
              IF pc[w] \in Finished \cup {"start"} THEN pc[w] ELSE "crashed"]
  /\ lock' = None /\ writer' = None /\ waiters' = <<>>
  /\ queue' = <<>> /\ open' = {}
  /\ UNCHANGED <<cause, issued, reply, committed>>

-----------------------------------------------------------------------------

Step(w) ==
  \/ Acquire(w)
  \/ BodyStatement(w)
  \/ BodyEnds(w)
  \/ Resume(w)

Cancel(w) == CancelWaiting(w) \/ CancelWriting(w) \/ CancelRollback(w)

Done == queue = <<>> /\ \A w \in Writes : pc[w] \in Finished

Next ==
  \/ \E w \in Writes : Call(w) \/ Step(w) \/ BodyRaises(w) \/ NestedExecute(w) \/ Cancel(w)
  \/ Worker
  \/ Crash
  \/ Done /\ UNCHANGED vars

(* The event loop runs every ready task and the worker drains its queue.   *)
(* Nothing obliges a caller to call, to cancel, or a body to raise.        *)
Fairness ==
  /\ \A w \in Writes : WF_vars(Step(w))
  /\ WF_vars(Worker)

Spec == Init /\ [][Next]_vars /\ Fairness

-----------------------------------------------------------------------------
Types ==
  /\ pc \in [Writes -> {"start", "queued", "body"} \cup Awaiting \cup Finished]
  /\ cause \in [Writes -> {"error", "cancelled"}]
  /\ issued \in [Writes -> Nat] /\ \A w \in Writes : issued[w] <= Stmts[w]
  /\ reply \in [Writes -> {"none", "ok", "error"}]
  /\ lock \in Writes \cup {None}
  /\ waiters \in Seq(Writes)
  /\ writer \in Blocks \cup {None}
  /\ queue \in Seq(Operations)
  /\ open \subseteq Writes \X Nat
  /\ committed \subseteq Writes \X Nat

Holding == {"body"} \cup Awaiting

(* The write lock is held by exactly the call that stands between          *)
(* acquiring and releasing it: no call writes without it, and none that    *)
(* waits, has ended or was cancelled keeps it.  _writer is the task of the *)
(* block in progress, as long as it holds the lock, and of no other.       *)
LockIsWriters ==
  /\ \A w \in Writes : pc[w] \in Holding <=> lock = w
  /\ \A w \in Writes : pc[w] = "body" => w \in Blocks
  /\ \A w \in Blocks : lock = w => writer = w
  /\ writer # None => lock = writer

(* The types, and who holds the lock and is known as the writer, through   *)
(* every error, cancellation and crash in execute() and transaction().     *)
TypeOK == Types /\ LockIsWriters

(* A write is in the file whole or not at all, however cancellations,      *)
(* errors and crashes fall between its statements and its commit, and      *)
(* whatever other writers do on the same connection (docstrings of         *)
(* execute() and transaction()).                                           *)
WholeWrites ==
  \A w \in Writes : Parts(w) \subseteq committed \/ Parts(w) \cap committed = {}

(* The connection never holds statements of two writes open at once, so    *)
(* that no commit adopts and no rollback discards another writer's.        *)
OneWriteOpen ==
  \A s, t \in open : s[1] = t[1]

(* What the caller was told is true: a call that returned has its rows in  *)
(* the file and one that raised an error has none, now and for good.       *)
HonestOutcome ==
  \A w \in Writes :
    /\ pc[w] = "ok" => Parts(w) \subseteq committed
    /\ pc[w] = "error" => Parts(w) \cap committed = {}

(* Every call that is made ends: no cancellation, failure or nested call   *)
(* leaves the write lock held or a waiter behind.                          *)
EveryCallEnds ==
  \A w \in Writes : pc[w] # "start" ~> pc[w] \in Finished

(* The writes implement the abstract ones.                                 *)
Abstract == INSTANCE AtomicWrites WITH
  rows <- committed,
  outcome <- [w \in Writes |-> IF pc[w] \in Finished THEN pc[w] ELSE "pending"]

ImplementsAtomicWrites == Abstract!Spec
=============================================================================
