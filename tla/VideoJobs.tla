----------------------------- MODULE VideoJobs -----------------------------
(***************************************************************************)
(* The life of video jobs: POST and DELETE /v1/videos (api/videos.py), the *)
(* background runner (api/_videos_runner.py), the table of jobs            *)
(* (infra/jobstore.py), the pool the runners run in (infra/tasks.py, here  *)
(* TaskScheduler.tla) and the process's start, shutdown and death          *)
(* (main.py).                                                              *)
(*                                                                         *)
(* All of it runs on one event loop: an action is what one coroutine does  *)
(* between two awaits.  A write to the database is what Database.tla       *)
(* shows of it: its caller takes the write lock, the statement runs, the   *)
(* commit makes it last, and the caller goes on in the step that releases  *)
(* the lock.  Reads take no lock and see a statement not yet committed.    *)
(***************************************************************************)
EXTENDS Naturals, Sequences, FiniteSets

CONSTANTS
  Jobs,           \* video jobs, one POST for each
  Deletes,        \* DELETE requests
  MaxConcurrent,  \* max_concurrent_video_jobs
  Capacity,       \* the same plus max_queued_video_jobs
  None            \* no holder, no job

VARIABLES
  row,      \* table video_jobs, as committed: each job's status and error
  create,   \* where each POST stands
  phase,    \* where each job's run_video_job() stands
  causes,   \* why its task was cancelled, so far
  delete,   \* where each DELETE stands
  target,   \* the job it is for
  told,     \* the status it was answered
  lock,     \* who holds the database's write lock
  stage,    \* of the holder's write: taken, open (not committed), done
  lost,     \* jobs whose row nobody will settle: see GiveUp
  server,   \* the process: up, stopped, crashed
  state, permits, waiting, reserved, cancelled, shutdown  \* the pool's

Pool == INSTANCE TaskScheduler WITH Tasks <- Jobs

poolVars == <<state, permits, waiting, reserved, cancelled, shutdown>>
dbVars == <<row, lock, stage>>
deleteVars == <<delete, target, told>>
runnerVars == <<phase, causes, lost>>
vars == <<dbVars, create, runnerVars, deleteVars, server, poolVars>>

Active == {"queued", "in_progress"}
Terminal == {"completed", "failed"}
Reasons == {"user", "cancelled", "timeout", "error", "restart"}

Absent == [status |-> "absent", error |-> "none"]

(* The runner's phases in which it awaits a database write, those its      *)
(* deadline covers, and its exception handlers.                            *)
WritePhases == {"mark", "persist", "store", "finish", "failing", "timing_out", "cancelling"}
BoundedPhases == {"mark", "render", "persist", "store", "finish", "unwinding"}
Handlers == {"failing", "timing_out", "cancelling"}

Runner(j) == <<"runner", j>>
Creator(j) == <<"create", j>>
Deleter(d) == <<"delete", d>>

Writers == {Runner(j) : j \in Jobs} \cup {Creator(j) : j \in Jobs}
             \cup {Deleter(d) : d \in Deletes}

ASSUME VideoAssumption ==
  /\ IsFiniteSet(Jobs)
  /\ MaxConcurrent \in Nat \ {0}
  /\ Capacity \in Nat
  /\ None \notin Jobs \cup Writers

Init ==
  /\ row = [j \in Jobs |-> Absent]
  /\ create = [j \in Jobs |-> "none"]
  /\ phase = [j \in Jobs |-> "none"]
  /\ causes = [j \in Jobs |-> {}]
  /\ delete = [d \in Deletes |-> "none"]
  /\ target = [d \in Deletes |-> None]
  /\ told = [d \in Deletes |-> "none"]
  /\ lock = None
  /\ stage = "taken"
  /\ lost = {}
  /\ server = "up"
  /\ Pool!Init

-----------------------------------------------------------------------------
(* infra/jobstore.py: the table after each kind of write.                  *)

Inserted(j) == [row EXCEPT ![j] = [status |-> "queued", error |-> "none"]]

WithStatus(j, status) == [row EXCEPT ![j].status = status]

WithFailure(j, why) == [row EXCEPT ![j] = [status |-> "failed", error |-> why]]

FailedIfActive(j, why) ==
  IF row[j].status \in Active THEN WithFailure(j, why) ELSE row

StaleFailed ==
  [j \in Jobs |-> IF row[j].status \in Active
                    THEN [status |-> "failed", error |-> "restart"]
                    ELSE row[j]]

(* Mutant: the deadline's handler does not look at the row's status.       *)
WrittenByRunner_TimeoutUnconditional(j) ==
  CASE phase[j] = "mark" -> WithStatus(j, "in_progress")
    [] phase[j] \in {"persist", "store"} -> row
    [] phase[j] = "finish" -> WithStatus(j, "completed")
    [] phase[j] = "failing" -> WithFailure(j, "error")
    [] phase[j] = "timing_out" -> WithFailure(j, "timeout")
    [] phase[j] = "cancelling" -> FailedIfActive(j, "cancelled")

(* What the runner writes.  The upstream id and the stored file (an insert *)
(* into another table) leave status and error alone.                       *)
WrittenByRunner(j) ==
  CASE phase[j] = "mark" -> WithStatus(j, "in_progress")
    [] phase[j] \in {"persist", "store"} -> row
    [] phase[j] = "finish" -> WithStatus(j, "completed")
    [] phase[j] = "failing" -> WithFailure(j, "error")
    [] phase[j] = "timing_out" -> FailedIfActive(j, "timeout")
    [] phase[j] = "cancelling" -> FailedIfActive(j, "cancelled")

(* Mutants: DELETE fails only a job in progress; it leaves the row to the  *)
(* runner's handler.                                                       *)
WrittenByDelete_InProgressOnly(d) ==
  IF row[target[d]].status = "in_progress" THEN WithFailure(target[d], "user") ELSE row

WrittenByDelete_Nothing(d) == row

WrittenByDelete(d) == FailedIfActive(target[d], "user")

Written(a) ==
  CASE a[1] = "create" -> Inserted(a[2])
    [] a[1] = "runner" -> WrittenByRunner(a[2])
    [] a[1] = "delete" -> WrittenByDelete(a[2])

(* What a reader sees: also what the one connection has open.              *)
Visible == IF lock # None /\ stage = "open" THEN Written(lock) ELSE row

-----------------------------------------------------------------------------
(* A write on the shared connection.                                       *)

Wants(a) ==
  \/ a[1] = "create" /\ create[a[2]] = "insert"
  \/ a[1] = "runner" /\ phase[a[2]] \in WritePhases /\ a[2] \notin cancelled
  \/ a[1] = "delete" /\ delete[a[2]] = "mark"

TakeLock(a) ==
  /\ lock = None
  /\ Wants(a)
  /\ lock' = a
  /\ stage' = "taken"
  /\ UNCHANGED <<row, create, runnerVars, deleteVars, server, poolVars>>

Execute ==
  /\ lock # None /\ Wants(lock)
  /\ stage = "taken"
  /\ stage' = "open"
  /\ UNCHANGED <<row, lock, create, runnerVars, deleteVars, server, poolVars>>

Commit ==
  /\ lock # None /\ Wants(lock)
  /\ stage = "open"
  /\ stage' = "done"
  /\ row' = Written(lock)
  /\ UNCHANGED <<lock, create, runnerVars, deleteVars, server, poolVars>>

ReleaseLock == lock' = None /\ stage' = "taken"

(* a's write has succeeded, or raised an error and left nothing behind.    *)
Succeeds(a) == lock = a /\ Wants(a) /\ stage = "done" /\ ReleaseLock /\ UNCHANGED row
Fails(a) == lock = a /\ Wants(a) /\ stage # "done" /\ ReleaseLock /\ UNCHANGED row

-----------------------------------------------------------------------------
(* POST /v1/videos.                                                        *)

CreateGoes(j, where) == create' = [create EXCEPT ![j] = where]

(* Nobody is left who would settle j's row, if it needs settling.          *)
GiveUp(j) ==
  lost' = IF /\ row'[j].status \in Active /\ shutdown = "no"
             /\ (phase[j] \in Handlers \/ create[j] # "done")
            THEN lost \cup {j} ELSE lost

CreateReserve(j) ==
  /\ server = "up" /\ shutdown = "no"
  /\ create[j] = "none"
  /\ CreateGoes(j, "read")
  /\ Pool!Reserve
  /\ UNCHANGED <<dbVars, runnerVars, deleteVars, server>>

CreateRejected(j) ==
  /\ server = "up" /\ shutdown = "no"
  /\ create[j] = "none"
  /\ Pool!Full
  /\ CreateGoes(j, "rejected")
  /\ UNCHANGED <<dbVars, runnerVars, deleteVars, server, poolVars>>

CreateRead(j) ==
  /\ create[j] = "read"
  /\ CreateGoes(j, "insert")
  /\ UNCHANGED <<dbVars, runnerVars, deleteVars, server, poolVars>>

CreateInserted(j) ==
  /\ Succeeds(Creator(j))
  /\ CreateGoes(j, "fetch")
  /\ UNCHANGED <<runnerVars, deleteVars, server, poolVars>>

(* The new row was read back: submit, in the step that gives up the slot.  *)
CreateSubmit(j) ==
  /\ create[j] = "fetch"
  /\ CreateGoes(j, "done")
  /\ Pool!Submit(j)
  /\ UNCHANGED <<dbVars, runnerVars, deleteVars, server>>

(* The upload is empty, the insert fails, or the row cannot be read back.  *)
CreateFails(j) ==
  /\ \/ create[j] \in {"read", "fetch"} /\ UNCHANGED dbVars
     \/ Fails(Creator(j))
  /\ CreateGoes(j, "failed")
  /\ Pool!ReleaseReservation
  /\ GiveUp(j)
  /\ UNCHANGED <<phase, causes, deleteVars, server>>

-----------------------------------------------------------------------------
(* run_video_job().                                                        *)

PhaseGoes(j, where) == phase' = [phase EXCEPT ![j] = where]

(* The step in which the coroutine goes on to phase `next`, or ends and    *)
(* leaves its permit and its place in the pool.                            *)
RunnerGoes(j, next) ==
  /\ PhaseGoes(j, next)
  /\ IF next = "ended"
       THEN Pool!Finish(j) /\ GiveUp(j)
       ELSE UNCHANGED <<lost, poolVars>>

Begin(j) ==
  /\ Pool!Start(j)
  /\ PhaseGoes(j, "mark")
  /\ UNCHANGED <<dbVars, create, causes, lost, deleteVars, server>>

(* Cancelled while it waited for a permit: run_video_job() never ran, and  *)
(* the row stays as it is.                                                 *)
CancelQueued(j) ==
  /\ Pool!CancelWaiting(j)
  /\ PhaseGoes(j, "ended")
  /\ UNCHANGED <<dbVars, create, causes, lost, deleteVars, server>>

RunnerWrote(j) ==
  /\ j \notin cancelled
  /\ Succeeds(Runner(j))
  /\ RunnerGoes(j, CASE phase[j] \in {"mark", "persist"} -> "render"
                     [] phase[j] = "store" -> "finish"
                     [] phase[j] \in {"finish"} \cup Handlers -> "ended")
  /\ UNCHANGED <<create, causes, deleteVars, server>>

(* A database error: logged and forgotten when it concerns the upstream    *)
(* id, a failed job when it comes before the end, and nothing more to do   *)
(* in a handler.                                                           *)
RunnerWriteFails(j) ==
  /\ j \notin cancelled
  /\ Fails(Runner(j))
  /\ RunnerGoes(j, CASE phase[j] = "persist" -> "render"
                     [] phase[j] \in {"mark", "store", "finish"} -> "failing"
                     [] phase[j] \in Handlers -> "ended")
  /\ UNCHANGED <<create, causes, deleteVars, server>>

(* generate_video(): the upstream names its job; it delivers; it fails.    *)
Render(j) ==
  /\ phase[j] = "render"
  /\ j \notin cancelled
  /\ \E next \in {"persist", "store", "failing"} : PhaseGoes(j, next)
  /\ UNCHANGED <<dbVars, create, causes, lost, deleteVars, server, poolVars>>

Handler(j) == IF causes[j] = {"timeout"} THEN "timing_out" ELSE "cancelling"

(* The upstream's job is cancelled too, before the cancellation goes on    *)
(* its way out of generate_video().                                        *)
Unwound(j) ==
  /\ phase[j] = "unwinding"
  /\ j \notin cancelled
  /\ PhaseGoes(j, Handler(j))
  /\ UNCHANGED <<dbVars, create, causes, lost, deleteVars, server, poolVars>>

(* Mutant: CancelledError passes by every handler.                         *)
AfterCancel_NoHandler(j) ==
  IF phase[j] = "render" THEN "unwinding" ELSE "ended"

AfterCancel(j) ==
  CASE phase[j] = "render" -> "unwinding"
    [] phase[j] \in BoundedPhases \ {"render"} -> Handler(j)
    [] phase[j] \in Handlers -> "ended"

(* A cancellation reaches the coroutine at its await.  A write it was in   *)
(* is rolled back, unless its commit was already queued: then it may yet   *)
(* succeed.                                                                *)
Interrupted(j) ==
  /\ state[j] = "running"
  /\ j \in cancelled
  /\ IF lock = Runner(j)
       THEN /\ ReleaseLock
            /\ row' \in IF stage = "open" THEN {row, Written(lock)} ELSE {row}
       ELSE UNCHANGED dbVars
  /\ LET next == AfterCancel(j)
     IN  /\ PhaseGoes(j, next)
         /\ IF next = "ended"
              THEN Pool!Finish(j) /\ GiveUp(j)
              ELSE Pool!Deliver(j) /\ UNCHANGED lost
  /\ UNCHANGED <<create, causes, deleteVars, server>>

(* asyncio.timeout: the job's own deadline cancels its task.               *)
Deadline(j) ==
  /\ phase[j] \in BoundedPhases
  /\ "timeout" \notin causes[j]
  /\ causes' = [causes EXCEPT ![j] = @ \cup {"timeout"}]
  /\ Pool!RequestCancel(j)
  /\ UNCHANGED <<dbVars, create, phase, lost, deleteVars, server>>

(* The pool's own cap, a minute later: only what follows the deadline, or  *)
(* a handler, can still be running.                                        *)
Backstop(j) ==
  /\ \/ phase[j] \in Handlers
     \/ phase[j] = "unwinding" /\ "timeout" \in causes[j]
  /\ "backstop" \notin causes[j]
  /\ causes' = [causes EXCEPT ![j] = @ \cup {"backstop"}]
  /\ Pool!RequestCancel(j)
  /\ UNCHANGED <<dbVars, create, phase, lost, deleteVars, server>>

-----------------------------------------------------------------------------
(* DELETE /v1/videos/{id}.                                                 *)

DeleteGoes(d, where) == delete' = [delete EXCEPT ![d] = where]

(* The job is read; a client knows the id of a job whose POST returned.    *)
DeleteRead(d) ==
  /\ server = "up" /\ shutdown = "no"
  /\ delete[d] = "none"
  /\ \E j \in Jobs :
       /\ create[j] = "done"
       /\ target' = [target EXCEPT ![d] = j]
       /\ LET status == Visible[j].status
          IN  IF status \in Terminal
                THEN told' = [told EXCEPT ![d] = status] /\ DeleteGoes(d, "done")
                ELSE UNCHANGED told /\ DeleteGoes(d, "mark")
  /\ UNCHANGED <<dbVars, create, runnerVars, server, poolVars>>

(* Mutant: the task is not cancelled.                                      *)
DeleteMarked_NoCancel(d) ==
  /\ Succeeds(Deleter(d))
  /\ DeleteGoes(d, "refresh")
  /\ UNCHANGED <<create, runnerVars, target, told, server, poolVars>>

(* fail_if_active() returned: cancel the task in the same step.            *)
DeleteMarked(d) ==
  /\ Succeeds(Deleter(d))
  /\ DeleteGoes(d, "refresh")
  /\ causes' = IF target[d] \in Pool!Live
                 THEN [causes EXCEPT ![target[d]] = @ \cup {"cancel"}] ELSE causes
  /\ Pool!RequestCancel(target[d])
  /\ UNCHANGED <<create, phase, lost, target, told, server>>

DeleteRefreshed(d) ==
  /\ delete[d] = "refresh"
  /\ told' = [told EXCEPT ![d] = Visible[target[d]].status]
  /\ DeleteGoes(d, "done")
  /\ UNCHANGED <<dbVars, create, runnerVars, target, server, poolVars>>

DeleteFails(d) ==
  /\ \/ delete[d] = "refresh" /\ UNCHANGED dbVars
     \/ Fails(Deleter(d))
  /\ DeleteGoes(d, "failed")
  /\ UNCHANGED <<create, runnerVars, target, told, server, poolVars>>

-----------------------------------------------------------------------------
(* The process.                                                            *)

RequestsIdle ==
  /\ \A j \in Jobs : create[j] \notin {"read", "insert", "fetch"}
  /\ \A d \in Deletes : delete[d] \notin {"mark", "refresh"}

Shutdown ==
  /\ server = "up"
  /\ RequestsIdle
  /\ Pool!BeginShutdown
  /\ UNCHANGED <<dbVars, create, runnerVars, deleteVars, server>>

CancelStragglers ==
  /\ Pool!DrainTimeout
  /\ causes' = [j \in Jobs |-> IF j \in Pool!Live THEN causes[j] \cup {"cancel"} ELSE causes[j]]
  /\ UNCHANGED <<dbVars, create, phase, lost, deleteVars, server>>

Stop ==
  /\ Pool!EndShutdown
  /\ server' = "stopped"
  /\ UNCHANGED <<dbVars, create, runnerVars, deleteVars>>

(* The process dies: what was not committed and every coroutine are gone.  *)
Crash ==
  /\ server = "up"
  /\ server' = "crashed"
  /\ ReleaseLock
  /\ create' = [j \in Jobs |-> IF create[j] \in {"read", "insert", "fetch"}
                                 THEN "failed" ELSE create[j]]
  /\ phase' = [j \in Jobs |-> IF j \in Pool!Live THEN "ended" ELSE phase[j]]
  /\ delete' = [d \in Deletes |-> IF delete[d] \in {"mark", "refresh"}
                                    THEN "failed" ELSE delete[d]]
  /\ Pool!NewPool
  /\ UNCHANGED <<row, causes, lost, target, told>>

(* Mutant: rows of jobs that never began are taken for still queued.       *)
Start_InProgressOnly ==
  /\ server \in {"stopped", "crashed"}
  /\ server' = "up"
  /\ row' = [j \in Jobs |-> IF row[j].status = "in_progress"
                              THEN [status |-> "failed", error |-> "restart"]
                              ELSE row[j]]
  /\ lost' = {}
  /\ Pool!NewPool
  /\ UNCHANGED <<lock, stage, create, phase, causes, deleteVars>>

(* The lifespan: mark_stale_failed() before anything is served.            *)
Start ==
  /\ server \in {"stopped", "crashed"}
  /\ server' = "up"
  /\ row' = StaleFailed
  /\ lost' = {}
  /\ Pool!NewPool
  /\ UNCHANGED <<lock, stage, create, phase, causes, deleteVars>>

-----------------------------------------------------------------------------

RunnerStep(j) ==
  \/ Begin(j)
  \/ CancelQueued(j)
  \/ RunnerWrote(j)
  \/ Unwound(j)
  \/ Interrupted(j)

CreateStep(j) == CreateRead(j) \/ CreateInserted(j) \/ CreateSubmit(j)

DeleteStep(d) == DeleteMarked(d) \/ DeleteRefreshed(d)

Next ==
  \/ \E a \in Writers : TakeLock(a)
  \/ Execute
  \/ Commit
  \/ \E j \in Jobs :
       \/ CreateReserve(j) \/ CreateRejected(j) \/ CreateStep(j) \/ CreateFails(j)
       \/ RunnerStep(j) \/ RunnerWriteFails(j) \/ Render(j) \/ Deadline(j) \/ Backstop(j)
  \/ \E d \in Deletes : DeleteRead(d) \/ DeleteStep(d) \/ DeleteFails(d)
  \/ Shutdown
  \/ CancelStragglers
  \/ Stop
  \/ Crash
  \/ Start

(* The event loop runs what is ready, the database answers, a timer fires, *)
(* the write lock and the semaphore are FIFO, and systemd restarts a       *)
(* process that died (Restart=on-failure).  Nothing obliges an upstream to *)
(* deliver, a client to ask, or an operator to start what was stopped.     *)
Fairness ==
  /\ \A a \in Writers : WF_vars(TakeLock(a))
  /\ WF_vars(Execute)
  /\ WF_vars(Commit)
  /\ \A j \in Jobs :
       WF_vars(CreateStep(j)) /\ WF_vars(RunnerStep(j)) /\ WF_vars(Deadline(j))
  /\ \A d \in Deletes : WF_vars(DeleteStep(d))
  /\ WF_vars(CancelStragglers)
  /\ WF_vars(Stop)
  /\ WF_vars(server = "crashed" /\ Start)

Spec == Init /\ [][Next]_vars /\ Fairness

-----------------------------------------------------------------------------
TypeOK ==
  /\ row \in [Jobs -> [status : {"absent"} \cup Active \cup Terminal,
                       error : {"none"} \cup Reasons]]
  /\ create \in [Jobs -> {"none", "read", "insert", "fetch", "done", "failed", "rejected"}]
  /\ phase \in [Jobs -> {"none", "ended"} \cup WritePhases \cup BoundedPhases]
  /\ causes \in [Jobs -> SUBSET {"timeout", "backstop", "cancel"}]
  /\ delete \in [Deletes -> {"none", "mark", "refresh", "done", "failed"}]
  /\ target \in [Deletes -> Jobs \cup {None}]
  /\ told \in [Deletes -> {"none"} \cup Active \cup Terminal]
  /\ lock \in Writers \cup {None}
  /\ stage \in {"taken", "open", "done"}
  /\ lost \subseteq Jobs
  /\ server \in {"up", "stopped", "crashed"}
  /\ Pool!TypeOK

(* A row is queued, begins, ends once, and then never changes again, nor   *)
(* does its message: not by a deadline that fires while the completed      *)
(* write is in flight, not by a DELETE that races the end of the render,   *)
(* not by a handler that runs after the DELETE (jobstore.fail_if_active:   *)
(* "makes the first writer win").                                          *)
Lifecycle == INSTANCE JobLifecycle

ImplementsJobLifecycle == Lifecycle!Spec

(* While the process serves, whoever is to settle an active row is alive:  *)
(* the POST that inserted it or the task that runs it.  The exceptions are *)
(* those of GiveUp: the database failed, or stood still for a minute, just *)
(* when the row's last writer needed it.  They last until the next start,  *)
(* which leaves no row active, however it came to have no owner.           *)
ActiveIsOwned ==
  server = "up" /\ shutdown = "no" =>
    \A j \in Jobs : row[j].status \in Active =>
      j \in Pool!Live \/ create[j] = "fetch" \/ lock = Creator(j) \/ j \in lost

(* Once a DELETE has marked its job failed and gone on, the job's task is  *)
(* on its way out: no cancelled job keeps rendering, or starts to, at the  *)
(* provider's price.                                                       *)
DeletedStopsRendering ==
  \A j \in Jobs :
    row[j].error = "user" /\ (\A d \in Deletes : lock # Deleter(d)) =>
      \/ j \notin Pool!Live
      \/ j \in cancelled
      \/ phase[j] \in {"unwinding", "cancelling"} /\ causes[j] # {"timeout"}

(* Once a DELETE has gone past its mark, the row has ended: what it reads  *)
(* back and answers is the job's last status, whoever else was writing.    *)
MarkedIsFinal ==
  \A d \in Deletes :
    delete[d] = "refresh" => row[target[d]].status \in Terminal

(* A job that a DELETE was told has ended did end that way.  It need not   *)
(* have: the row that was read may be one its writer then cannot commit.   *)
ToldIsTrue ==
  \A d \in Deletes :
    told[d] \in Terminal /\ row[target[d]].status \in Terminal =>
      row[target[d]].status = told[d]

(* No more renders at a time than there are permits, and no more uploads   *)
(* in memory than running and queued jobs are allowed to hold.             *)
BoundedLoad ==
  /\ Cardinality({j \in Jobs : phase[j] \notin {"none", "ended"}}) <= MaxConcurrent
  /\ Cardinality({j \in Jobs : create[j] \in {"read", "insert", "fetch"} \/ j \in Pool!Live})
       <= Capacity

(* Every job ends: it is completed or failed with a message, unless        *)
(* nobody was left to settle it, or the bridge was stopped for good.       *)
EveryJobEnds ==
  \A j \in Jobs :
    row[j].status \in Active ~>
      row[j].status \in Terminal \/ j \in lost \/ server = "stopped"

(* A shutdown ends, whatever the jobs are doing.                           *)
ShutdownEnds ==
  shutdown # "no" ~> shutdown \in {"no", "done"}
=============================================================================
