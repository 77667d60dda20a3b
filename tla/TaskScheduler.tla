--------------------------- MODULE TaskScheduler ---------------------------
(***************************************************************************)
(* infra/tasks.py, TaskScheduler: a bounded pool of background tasks.      *)
(*                                                                         *)
(* A caller first reserves a slot, does the work that leads up to its      *)
(* task, then submits the task, which takes the slot over.  A task waits   *)
(* for one of MaxConcurrent permits, runs its coroutine, and gives the     *)
(* permit back.  task.cancel() only requests a cancellation; it reaches    *)
(* the task at its next step.                                              *)
(*                                                                         *)
(* VideoJobs.tla instantiates this module: every use the bridge makes of   *)
(* its pool is one of the actions below, together with what the coroutine  *)
(* and the request handlers do in the same step.                           *)
(***************************************************************************)
EXTENDS Naturals, Sequences, FiniteSets, SequencesExt

CONSTANTS
  Tasks,          \* the tasks that may be submitted, each at most once
  MaxConcurrent,  \* permits of the semaphore
  Capacity        \* the capacity every reserve() is called with

ASSUME PoolAssumption ==
  /\ IsFiniteSet(Tasks)
  /\ MaxConcurrent \in Nat \ {0}
  /\ Capacity \in Nat

VARIABLES
  state,      \* each task: none, waiting (for a permit), running, finished
  permits,    \* value of the semaphore _sem
  waiting,    \* its FIFO queue of waiters
  reserved,   \* _reserved
  cancelled,  \* tasks whose cancel() was called and has not reached them yet
  shutdown    \* shutdown(): no, draining, cancelling, done

poolVars == <<state, permits, waiting, reserved, cancelled, shutdown>>

Running == {t \in Tasks : state[t] = "running"}
Live == {t \in Tasks : state[t] \in {"waiting", "running"}}   \* _tasks

InFlight == Cardinality(Live) + reserved

Init ==
  /\ state = [t \in Tasks |-> "none"]
  /\ permits = MaxConcurrent
  /\ waiting = <<>>
  /\ reserved = 0
  /\ cancelled = {}
  /\ shutdown = "no"

-----------------------------------------------------------------------------
(* Mutant: the capacity is checked against running and waiting tasks only. *)
Reserve_TasksOnly ==
  /\ Cardinality(Live) < Capacity
  /\ reserved' = reserved + 1
  /\ UNCHANGED <<state, permits, waiting, cancelled, shutdown>>

(* reserve(): check and claim in one step, or SchedulerFull.               *)
Reserve ==
  /\ InFlight < Capacity
  /\ reserved' = reserved + 1
  /\ UNCHANGED <<state, permits, waiting, cancelled, shutdown>>

Full == InFlight >= Capacity

(* The `with` block is left without a task.                                *)
ReleaseReservation ==
  /\ reserved > 0
  /\ reserved' = reserved - 1
  /\ UNCHANGED <<state, permits, waiting, cancelled, shutdown>>

(* submit() as the last step of the `with` block.                          *)
Submit(t) ==
  /\ reserved > 0
  /\ state[t] = "none"
  /\ state' = [state EXCEPT ![t] = "waiting"]
  /\ waiting' = Append(waiting, t)
  /\ reserved' = reserved - 1
  /\ UNCHANGED <<permits, cancelled, shutdown>>

-----------------------------------------------------------------------------
(* The task's _runner().                                                   *)

Start(t) ==
  /\ permits > 0
  /\ waiting # <<>> /\ t = Head(waiting)
  /\ t \notin cancelled
  /\ state' = [state EXCEPT ![t] = "running"]
  /\ waiting' = Tail(waiting)
  /\ permits' = permits - 1
  /\ UNCHANGED <<reserved, cancelled, shutdown>>

(* Mutant: _cleanup never hears of a task that did not start.              *)
CancelWaiting_NoCleanup(t) ==
  /\ t \in cancelled
  /\ \E i \in 1 .. Len(waiting) :
       waiting[i] = t /\ waiting' = RemoveAt(waiting, i)
  /\ cancelled' = cancelled \ {t}
  /\ UNCHANGED <<state, permits, reserved, shutdown>>

(* Cancelled before the coroutine started: no permit to give back.         *)
CancelWaiting(t) ==
  /\ t \in cancelled
  /\ \E i \in 1 .. Len(waiting) :
       waiting[i] = t /\ waiting' = RemoveAt(waiting, i)
  /\ state' = [state EXCEPT ![t] = "finished"]
  /\ cancelled' = cancelled \ {t}
  /\ UNCHANGED <<permits, reserved, shutdown>>

(* Mutants: a cancelled task gives no permit back; it gives back two.      *)
Finish_LeaksPermit(t) ==
  /\ state[t] = "running"
  /\ state' = [state EXCEPT ![t] = "finished"]
  /\ permits' = IF t \in cancelled THEN permits ELSE permits + 1
  /\ cancelled' = cancelled \ {t}
  /\ UNCHANGED <<waiting, reserved, shutdown>>

Finish_ReleasesTwice(t) ==
  /\ state[t] = "running"
  /\ state' = [state EXCEPT ![t] = "finished"]
  /\ permits' = IF t \in cancelled THEN permits + 2 ELSE permits + 1
  /\ cancelled' = cancelled \ {t}
  /\ UNCHANGED <<waiting, reserved, shutdown>>

(* The coroutine returned, raised, or let the cancellation out: the        *)
(* `finally` and _cleanup.                                                 *)
Finish(t) ==
  /\ state[t] = "running"
  /\ state' = [state EXCEPT ![t] = "finished"]
  /\ permits' = permits + 1
  /\ cancelled' = cancelled \ {t}
  /\ UNCHANGED <<waiting, reserved, shutdown>>

(* A cancellation reaches the coroutine, which goes on with its handlers.  *)
Deliver(t) ==
  /\ state[t] = "running"
  /\ t \in cancelled
  /\ cancelled' = cancelled \ {t}
  /\ UNCHANGED <<state, permits, waiting, reserved, shutdown>>

(* cancel(), and a timeout's cancellation of its own task.                 *)
RequestCancel(t) ==
  /\ cancelled' = IF t \in Live THEN cancelled \cup {t} ELSE cancelled
  /\ UNCHANGED <<state, permits, waiting, reserved, shutdown>>

-----------------------------------------------------------------------------
(* shutdown().  No request is left that could submit: uvicorn waits for    *)
(* them before it ends the lifespan.                                       *)

BeginShutdown ==
  /\ shutdown = "no"
  /\ reserved = 0
  /\ shutdown' = "draining"
  /\ UNCHANGED <<state, permits, waiting, reserved, cancelled>>

(* The 30 seconds are over: every task left is cancelled and awaited.      *)
DrainTimeout ==
  /\ shutdown = "draining"
  /\ Live # {}
  /\ shutdown' = "cancelling"
  /\ cancelled' = Live
  /\ UNCHANGED <<state, permits, waiting, reserved>>

EndShutdown ==
  /\ shutdown \in {"draining", "cancelling"}
  /\ Live = {}
  /\ shutdown' = "done"
  /\ UNCHANGED <<state, permits, waiting, reserved, cancelled>>

(* A new process starts with a new pool; the tasks of the old one are gone.*)
NewPool ==
  /\ state' = [t \in Tasks |-> IF t \in Live THEN "finished" ELSE state[t]]
  /\ permits' = MaxConcurrent
  /\ waiting' = <<>>
  /\ reserved' = 0
  /\ cancelled' = {}
  /\ shutdown' = "no"

-----------------------------------------------------------------------------
Done == shutdown = "done" /\ UNCHANGED poolVars

Next ==
  \/ shutdown = "no" /\ (Reserve \/ ReleaseReservation)
  \/ \E t \in Tasks :
       \/ shutdown = "no" /\ Submit(t)
       \/ Start(t)
       \/ CancelWaiting(t)
       \/ Finish(t)
       \/ Deliver(t)
       \/ shutdown = "no" /\ t \in Live /\ RequestCancel(t)
  \/ BeginShutdown
  \/ DrainTimeout
  \/ EndShutdown
  \/ Done

(* The event loop runs every ready task.  A coroutine may swallow a        *)
(* cancellation request, but it ends some time: the timeout every task is  *)
(* submitted with sees to that.                                            *)
Fairness ==
  /\ \A t \in Tasks : WF_poolVars(Start(t)) /\ WF_poolVars(CancelWaiting(t))
                      /\ WF_poolVars(Finish(t))
  /\ WF_poolVars(DrainTimeout)
  /\ WF_poolVars(EndShutdown)

Spec == Init /\ [][Next]_poolVars /\ Fairness

-----------------------------------------------------------------------------
TypeOK ==
  /\ state \in [Tasks -> {"none", "waiting", "running", "finished"}]
  /\ permits \in 0 .. MaxConcurrent
  /\ waiting \in Seq(Tasks)
  /\ reserved \in Nat
  /\ cancelled \subseteq Tasks
  /\ shutdown \in {"no", "draining", "cancelling", "done"}

(* No permit is lost or made up, however tasks end: the permits and the    *)
(* tasks that hold one always add up to MaxConcurrent.                     *)
PermitsConserved ==
  permits + Cardinality(Running) = MaxConcurrent

(* The pool never holds more than Capacity tasks and claims, although      *)
(* callers await between their claim and their submit (docstring of        *)
(* reserve(): "concurrent callers all pass the same check and overshoot    *)
(* the cap").                                                              *)
WithinCapacity ==
  InFlight <= Capacity

(* The semaphore's queue holds exactly the waiting tasks, each once: a     *)
(* task that was cancelled while it waited cannot be handed a permit later.*)
QueueIsWaiting ==
  /\ {waiting[i] : i \in 1 .. Len(waiting)} = {t \in Tasks : state[t] = "waiting"}
  /\ \A i, j \in 1 .. Len(waiting) : waiting[i] = waiting[j] => i = j

(* Every task that was submitted leaves the pool.                          *)
EveryTaskEnds ==
  \A t \in Tasks : t \in Live ~> t \notin Live

(* shutdown() returns.                                                     *)
ShutdownEnds ==
  shutdown # "no" ~> shutdown = "done"
=============================================================================
