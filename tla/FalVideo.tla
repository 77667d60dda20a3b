------------------------------ MODULE FalVideo ------------------------------
(***************************************************************************)
(* backends/fal/adapter.py, generate_video(), with the calls of client.py  *)
(* it makes: a video job from its request to its clip, against fal's queue. *)
(*                                                                         *)
(* A job looks up its model's schema, submits to fal's queue, has the      *)
(* runner store fal's id, polls, fetches the result and then the clip.  It *)
(* can be cancelled at every await (DELETE, the runner's deadline,         *)
(* shutdown), and the process can die.  fal renders on, and bills, unless  *)
(* it is asked to stop.                                                    *)
(***************************************************************************)
EXTENDS UpstreamHttp, FiniteSets

CONSTANTS
  Jobs,
  Nobody,
  Replies,        \* the replies considered: status codes and NoReply
  Bodies,         \* the asset bodies considered
  AssetCap,       \* max_asset_mb
  MaxPollErrors,  \* _MAX_CONSECUTIVE_POLL_ERRORS
  ResultAttempts, \* _RESULT_FETCH_ATTEMPTS
  AssetAttempts   \* max_attempts of fetch_asset_with_retry()

(* The settings as far as TwoHiccupsLoseNothing depends on them: they are  *)
(* 5, 3 and 3.                                                             *)
ASSUME FalAssumption ==
  /\ Nobody \notin Jobs
  /\ MaxPollErrors \in Nat /\ MaxPollErrors >= 2
  /\ ResultAttempts \in Nat /\ ResultAttempts >= 3
  /\ AssetAttempts \in Nat /\ AssetAttempts >= 3

VARIABLES
  pc,         \* where the job's coroutine stands
  asks,       \* 1 in its second call of _derived_params()
  attempt,    \* poll errors in a row, or failed attempts of the fetch it is in
  late,       \* video_poll_timeout_seconds have passed
  cause,      \* why it gives its job up
  faults,     \* transient failures since submission, counted up to 3, while it matters
  fal,        \* the job in fal's queue
  stop,       \* the request to fal to stop it
  named,      \* fal has answered the submission with the job's id
  schema,     \* _schema_cache and _introspect_failed_at for the jobs' model
  holder,     \* who holds the model's lock
  authFailed  \* _auth_failed

jobVars == <<asks, attempt, late, cause, faults, named>>
falVars == <<fal, stop>>
schemaVars == <<schema, holder>>
vars == <<pc, jobVars, falVars, schemaVars, authFailed>>

Ended == {"clip", "failed", "cancelled", "died"}

(* The stages inside the `try` whose handler asks fal to stop.             *)
Loop == {"polling", "sleeping", "fetching", "refetching", "loading", "reloading"}

Stages == {"idle", "asking", "locking", "lookup", "submitting", "saving", "stopping"}
            \cup Loop \cup Ended

Causes == {"none", "submission", "auth", "timeout", "exhausted", "no video", "no asset",
           "cancelled", "early"}

Init ==
  /\ pc = [j \in Jobs |-> "idle"]
  /\ asks = [j \in Jobs |-> 0]
  /\ attempt = [j \in Jobs |-> 0]
  /\ late = [j \in Jobs |-> FALSE]
  /\ cause = [j \in Jobs |-> "none"]
  /\ faults = [j \in Jobs |-> 0]
  /\ fal = [j \in Jobs |-> "none"]
  /\ stop = [j \in Jobs |-> FALSE]
  /\ named = [j \in Jobs |-> FALSE]
  /\ schema = "unknown"
  /\ holder = Nobody
  /\ authFailed = FALSE

-----------------------------------------------------------------------------
(* generate_video(): the model's settings, once for the duration and, with *)
(* disable_safety, once more for the moderation settings.                  *)

Goes(j, where) == pc' = [pc EXCEPT ![j] = where]

Ask(j) ==
  /\ pc[j] = "idle"
  /\ Goes(j, "asking")
  /\ UNCHANGED <<jobVars, falVars, schemaVars, authFailed>>

(* _derived_params() returns.                                              *)
Asked(j) ==
  /\ \/ /\ asks[j] = 0
        /\ Goes(j, "asking")
        /\ asks' = [asks EXCEPT ![j] = 1]
     \/ /\ Goes(j, "submitting")
        /\ asks' = [asks EXCEPT ![j] = 0]
  /\ UNCHANGED <<attempt, late, cause, faults, named, falVars>>

DerivedAtOnce(j) ==
  /\ pc[j] = "asking"
  /\ authFailed \/ schema = "known"
  /\ Asked(j)
  /\ UNCHANGED <<schemaVars, authFailed>>

DerivedAfterLock(j) ==
  /\ pc[j] = "asking"
  /\ ~authFailed /\ schema # "known"
  /\ Goes(j, "locking")
  /\ UNCHANGED <<jobVars, falVars, schemaVars, authFailed>>

(* With the lock: what the last holder has found, or a lookup of its own.  *)
Locked(j) ==
  /\ pc[j] = "locking"
  /\ holder = Nobody
  /\ \/ /\ schema # "unknown"
        /\ Asked(j)
        /\ UNCHANGED holder
     \/ /\ schema = "unknown"
        /\ Goes(j, "lookup")
        /\ holder' = j
        /\ UNCHANGED <<jobVars, falVars>>
  /\ UNCHANGED <<schema, authFailed>>

(* A reply with or without the model's schema; only a schema is kept.      *)
LookedUp(j) ==
  /\ pc[j] = "lookup"
  /\ \E reply \in Replies, found \in BOOLEAN :
       /\ schema' = IF reply \in {401, 403} THEN schema
                    ELSE IF IsSuccess(reply) /\ found THEN "known" ELSE "cooldown"
       /\ authFailed' = (authFailed \/ reply \in {401, 403})
  /\ holder' = Nobody
  /\ Asked(j)

CooldownEnds ==
  /\ schema = "cooldown"
  /\ schema' = "unknown"
  /\ UNCHANGED <<pc, jobVars, falVars, holder, authFailed>>

-----------------------------------------------------------------------------
(* _run_video_job(): submission, and the id handed to the runner.          *)

FalAccepts(j) ==
  /\ pc[j] = "submitting"
  /\ fal[j] = "none"
  /\ fal' = [fal EXCEPT ![j] = "rendering"]
  /\ UNCHANGED <<pc, jobVars, stop, schemaVars, authFailed>>

Fails(j, why) ==
  /\ Goes(j, "failed")
  /\ cause' = [cause EXCEPT ![j] = why]

(* submit_queued(): a success must carry a request id to be of use.        *)
Submitted(j) ==
  /\ pc[j] = "submitting"
  /\ \E reply \in Replies, hasId \in BOOLEAN :
       LET error == RequestUpstream(reply)
       IN  /\ error = "ok" => fal[j] # "none"
           /\ reply \notin {NoReply} /\ error # "ok" => fal[j] = "none"
           /\ IF error = "ok" /\ hasId
              THEN /\ Goes(j, "saving")
                   /\ named' = [named EXCEPT ![j] = TRUE]
                   /\ UNCHANGED cause
              ELSE /\ Fails(j, IF error = "UpstreamAuthError" THEN "auth" ELSE "submission")
                   /\ UNCHANGED named
           /\ authFailed' = (authFailed \/ error = "UpstreamAuthError")
  /\ UNCHANGED <<asks, attempt, late, faults, falVars, schemaVars>>

(* on_upstream_id() returns, whether or not the runner could store the id. *)
Saved(j) ==
  /\ pc[j] = "saving"
  /\ Goes(j, "polling")
  /\ UNCHANGED <<jobVars, falVars, schemaVars, authFailed>>

-----------------------------------------------------------------------------
OneMoreFault(j) == faults' = [faults EXCEPT ![j] = IF @ = 3 THEN 3 ELSE @ + 1]

ForgetFaults(j) == faults' = [faults EXCEPT ![j] = 0]

(* Giving a job up: the `except BaseException` of _run_video_job().  The   *)
(* locals of the loop end with it.                                         *)

(* Mutant: one counter for all.                                            *)
LoopEnds_KeepsCount(j) ==
  /\ late' = [late EXCEPT ![j] = FALSE]
  /\ UNCHANGED attempt

LoopEnds(j) ==
  /\ attempt' = [attempt EXCEPT ![j] = 0]
  /\ late' = [late EXCEPT ![j] = FALSE]

GiveUp(j, why) ==
  /\ Goes(j, "stopping")
  /\ cause' = [cause EXCEPT ![j] = why]
  /\ stop' = [stop EXCEPT ![j] = TRUE]
  /\ LoopEnds(j)

(* _cancel_upstream() returns: fal has answered, refused, or ten seconds   *)
(* have passed.  The error that was on its way goes on.                    *)
Stopped(j) ==
  /\ pc[j] = "stopping"
  /\ Goes(j, IF cause[j] = "cancelled" THEN "cancelled" ELSE "failed")
  /\ authFailed' = (authFailed \/ cause[j] = "auth")
  /\ IF cause[j] = "exhausted" THEN UNCHANGED faults ELSE ForgetFaults(j)
  /\ UNCHANGED <<asks, attempt, late, cause, named, falVars, schemaVars>>

(* The class _status_error() and the handlers around the queue's calls     *)
(* give a reply; a body that does not parse is an UpstreamError.           *)
QueueError(reply, readable) ==
  CASE reply \in {401, 403} -> "UpstreamAuthError"
    [] reply = 429 -> "RateLimited"
    [] IsSuccess(reply) /\ readable -> "ok"
    [] OTHER -> "UpstreamError"

-----------------------------------------------------------------------------
(* _await_queued_video(): the poll loop.                                   *)

(* Mutant: the deadline is looked at only after a poll that failed.        *)
NotReady_ForgetsDeadline(j, errors) ==
  IF late[j] /\ errors > 0 THEN GiveUp(j, "timeout")
  ELSE /\ Goes(j, "sleeping")
       /\ attempt' = [attempt EXCEPT ![j] = errors]
       /\ UNCHANGED <<cause, stop, late>>

NotReady(j, errors) ==
  IF late[j] THEN GiveUp(j, "timeout")
  ELSE /\ Goes(j, "sleeping")
       /\ attempt' = [attempt EXCEPT ![j] = errors]
       /\ UNCHANGED <<cause, stop, late>>

PollAnswered(j) ==
  /\ UNCHANGED faults
  /\ \/ /\ fal[j] = "done"
        /\ Goes(j, "fetching")
        /\ LoopEnds(j)
        /\ UNCHANGED <<cause, stop>>
     \/ /\ fal[j] # "done"
        /\ NotReady(j, 0)

(* Mutant: one error too early.                                            *)
PollFailed_OneTooEarly(j) ==
  /\ OneMoreFault(j)
  /\ IF attempt[j] + 1 = MaxPollErrors THEN GiveUp(j, "exhausted")
                                       ELSE NotReady(j, attempt[j] + 1)

PollFailed(j) ==
  /\ OneMoreFault(j)
  /\ IF attempt[j] = MaxPollErrors THEN GiveUp(j, "exhausted")
                                   ELSE NotReady(j, attempt[j] + 1)

Poll(j) ==
  /\ pc[j] = "polling"
  /\ \E reply \in Replies, readable \in BOOLEAN :
       LET error == QueueError(reply, readable)
       IN  \/ error = "ok" /\ PollAnswered(j)
           \/ error = "UpstreamAuthError" /\ GiveUp(j, "auth") /\ UNCHANGED faults
           \/ error \in {"UpstreamError", "RateLimited"} /\ PollFailed(j)
  /\ UNCHANGED <<asks, fal, named, schemaVars, authFailed>>

(* A sleep ends: between two polls, or between two attempts of a fetch.    *)
Awake(j) ==
  /\ \/ pc[j] = "sleeping" /\ Goes(j, "polling")
     \/ pc[j] = "refetching" /\ Goes(j, "fetching")
     \/ pc[j] = "reloading" /\ Goes(j, "loading")
  /\ UNCHANGED <<jobVars, falVars, schemaVars, authFailed>>

DeadlinePasses(j) ==
  /\ pc[j] \in {"polling", "sleeping"}
  /\ ~late[j]
  /\ late' = [late EXCEPT ![j] = TRUE]
  /\ UNCHANGED <<pc, asks, attempt, cause, faults, named, falVars, schemaVars, authFailed>>

-----------------------------------------------------------------------------
(* _fetch_video_result() and _fetch_asset(): the same shape of retries.    *)

Retry(j, attempts, pause) ==
  /\ OneMoreFault(j)
  /\ \/ attempt[j] + 1 = attempts /\ GiveUp(j, "exhausted")
     \/ /\ attempt[j] + 1 < attempts
        /\ Goes(j, pause)
        /\ attempt' = [attempt EXCEPT ![j] = @ + 1]
        /\ UNCHANGED <<late, cause, stop>>

Got(j, where) ==
  /\ Goes(j, where)
  /\ LoopEnds(j)
  /\ IF where = "clip" THEN ForgetFaults(j) ELSE UNCHANGED faults
  /\ UNCHANGED <<cause, stop>>

Hopeless(j, why) == GiveUp(j, why) /\ UNCHANGED faults

Fetch(j) ==
  /\ pc[j] = "fetching"
  /\ \E reply \in Replies, readable, hasVideo \in BOOLEAN :
       LET error == QueueError(reply, readable)
       IN  \/ error = "ok" /\ hasVideo /\ Got(j, "loading")
           \/ error = "ok" /\ ~hasVideo /\ Hopeless(j, "no video")
           \/ error = "UpstreamAuthError" /\ Hopeless(j, "auth")
           \/ error \in {"UpstreamError", "RateLimited"} /\ Retry(j, ResultAttempts, "refetching")
  /\ UNCHANGED <<asks, fal, named, schemaVars, authFailed>>

(* _fetch_asset(): the last attempt's error is raised, like a hopeless one. *)
Load(j) ==
  /\ pc[j] = "loading"
  /\ \E reply \in Replies, body \in Bodies :
       LET outcome == FetchAttempt(reply, body, AssetCap, FALSE)
       IN  \/ outcome = "ok" /\ Got(j, "clip")
           \/ outcome = "retry" /\ Retry(j, AssetAttempts, "reloading")
           \/ outcome \in UpstreamErrors /\ Hopeless(j, "no asset")
  /\ UNCHANGED <<asks, fal, named, schemaVars, authFailed>>

-----------------------------------------------------------------------------
(* What happens to a job from outside.                                     *)

(* Mutant: `except Exception`, which a cancellation passes.                *)
Cancel_Unseen(j) ==
  /\ pc[j] \notin Ended \cup {"idle"}
  /\ Goes(j, "cancelled")
  /\ cause' = [cause EXCEPT ![j] = IF pc[j] \in Loop \cup {"stopping"} THEN "cancelled" ELSE "early"]
  /\ LoopEnds(j)
  /\ holder' = IF holder = j THEN Nobody ELSE holder
  /\ asks' = [asks EXCEPT ![j] = 0]
  /\ ForgetFaults(j)
  /\ UNCHANGED <<fal, stop, named, schema, authFailed>>

(* A cancellation reaches the job at an await.  Only from the poll loop on *)
(* does it pass the handler that asks fal to stop; one that comes while    *)
(* that handler waits ends it, and replaces the error on its way.          *)
Cancel(j) ==
  /\ \/ pc[j] \in Loop /\ GiveUp(j, "cancelled")
     \/ /\ pc[j] \in {"asking", "locking", "lookup", "submitting", "saving"}
        /\ Goes(j, "cancelled")
        /\ cause' = [cause EXCEPT ![j] = "early"]
        /\ UNCHANGED <<stop, attempt, late>>
     \/ /\ pc[j] = "stopping"
        /\ Goes(j, "cancelled")
        /\ cause' = [cause EXCEPT ![j] = "cancelled"]
        /\ UNCHANGED <<stop, attempt, late>>
  /\ holder' = IF holder = j THEN Nobody ELSE holder
  /\ asks' = [asks EXCEPT ![j] = 0]
  /\ ForgetFaults(j)
  /\ UNCHANGED <<fal, named, schema, authFailed>>

(* The process dies, and what its coroutines knew with it; the next one    *)
(* serves the jobs that have not begun.                                    *)
Die ==
  LET dying == {j \in Jobs : pc[j] \notin Ended \cup {"idle"}}
      Lost(f, zero) == [j \in Jobs |-> IF j \in dying THEN zero ELSE f[j]]
  IN  /\ dying # {}
      /\ pc' = Lost(pc, "died")
      /\ asks' = Lost(asks, 0) /\ attempt' = Lost(attempt, 0) /\ late' = Lost(late, FALSE)
      /\ cause' = Lost(cause, "none") /\ faults' = Lost(faults, 0)
  /\ schema' = "unknown"
  /\ holder' = Nobody
  /\ authFailed' = FALSE
  /\ UNCHANGED <<named, falVars>>

(* fal finishes a render, or stops one when the request reaches it.        *)
FalWorks(j) ==
  /\ fal[j] = "rendering"
  /\ \/ fal' = [fal EXCEPT ![j] = "done"]
     \/ stop[j] /\ fal' = [fal EXCEPT ![j] = "stopped"]
  /\ UNCHANGED <<pc, jobVars, stop, schemaVars, authFailed>>

-----------------------------------------------------------------------------
JobStep(j) ==
  \/ DerivedAtOnce(j) \/ DerivedAfterLock(j) \/ Locked(j) \/ LookedUp(j)
  \/ Submitted(j) \/ Saved(j)
  \/ Poll(j) \/ Fetch(j) \/ Load(j) \/ Awake(j) \/ Stopped(j)

Next ==
  \/ \E j \in Jobs :
       \/ Ask(j) \/ JobStep(j) \/ DeadlinePasses(j) \/ Cancel(j)
       \/ FalAccepts(j) \/ FalWorks(j)
  \/ CooldownEnds
  \/ Die

Fairness ==
  \A j \in Jobs : WF_vars(JobStep(j)) /\ WF_vars(DeadlinePasses(j))

Spec == Init /\ [][Next]_vars /\ Fairness

-----------------------------------------------------------------------------
TypeOK ==
  /\ pc \in [Jobs -> Stages]
  /\ asks \in [Jobs -> 0 .. 1]
  /\ attempt \in [Jobs -> Nat]
  /\ \A j \in Jobs :
       /\ pc[j] \in {"polling", "sleeping"} => attempt[j] <= MaxPollErrors
       /\ pc[j] \in {"fetching", "refetching"} => attempt[j] < ResultAttempts
       /\ pc[j] \in {"loading", "reloading"} => attempt[j] < AssetAttempts
       /\ pc[j] \notin Loop => attempt[j] = 0
  /\ late \in [Jobs -> BOOLEAN]
  /\ cause \in [Jobs -> Causes]
  /\ faults \in [Jobs -> 0 .. 3]
  /\ fal \in [Jobs -> {"none", "rendering", "done", "stopped"}]
  /\ stop \in [Jobs -> BOOLEAN]
  /\ named \in [Jobs -> BOOLEAN]
  /\ schema \in {"unknown", "cooldown", "known"}
  /\ holder \in Jobs \cup {Nobody}
  /\ authFailed \in BOOLEAN

(* "Abandoned jobs are cancelled upstream so fal stops billing, except for *)
(* jobs already in flight when the bridge restarts" (README.md:191): a job *)
(* whose id fal has given us, and that has ended without its clip, has had *)
(* fal asked to stop it.                                                   *)
AbandonedIsCancelled ==
  \A j \in Jobs : named[j] /\ pc[j] \in {"failed", "cancelled"} => stop[j]

(* As far as the handler in _run_video_job() reaches, that holds: what     *)
(* renders on unasked was left before the poll loop (cancelled early, or   *)
(* its submission's answer was lost or useless), or the process died.      *)
NoStrayRender ==
  \A j \in Jobs :
    fal[j] = "rendering" /\ pc[j] \in {"failed", "cancelled"} =>
      stop[j] \/ cause[j] \in {"early", "submission"}

(* A render is paid for, so no two transient failures lose it, wherever    *)
(* they fall: a job given up because retries are used up has seen three,   *)
(* or as many polls in a row fail as _MAX_CONSECUTIVE_POLL_ERRORS allows.  *)
TwoHiccupsLoseNothing ==
  \A j \in Jobs : cause[j] = "exhausted" => faults[j] = 3

(* Every job that has begun ends: whatever fal answers, the polls stop at  *)
(* the deadline, the fetches after their attempts, the request to stop     *)
(* after ten seconds.                                                      *)
EveryVideoEnds == \A j \in Jobs : pc[j] # "idle" ~> pc[j] \in Ended
=============================================================================
