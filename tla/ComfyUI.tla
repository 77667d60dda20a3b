------------------------------ MODULE ComfyUI ------------------------------
(***************************************************************************)
(* One request to the ComfyUI backend (backends/comfyui/adapter.py and     *)
(* client.py): a batch of n images, or one video of a background job.      *)
(* Its runs are submitted one after the other; a collector polls for each; *)
(* the first failure, or the cancellation of the request, ends them all    *)
(* and hands the prompts that nobody will collect back to ComfyUI.         *)
(*                                                                         *)
(* Time is two facts: the collectors' budget is over (late), and a queue   *)
(* check is due, which may be the case at any poll.                        *)
(***************************************************************************)
EXTENDS Workflows, UpstreamHttp

CONSTANTS
  MaxImages,      \* bound of n
  MissThreshold,  \* QUEUE_MISS_THRESHOLD
  MaxCancels,     \* bound of the cancellations of the request
  Files,          \* the workflow directory, a sequence of files
  Edited          \* graphs a file may hold when it is read again

VARIABLES
  at,       \* where the request awaits
  req,      \* the request
  error,    \* the class of the error on its way
  cancels,  \* how often the request was cancelled
  prompt,   \* ComfyUI's side of each run
  ids,      \* the runs whose prompt id is known
  unit,     \* the collector of each run
  misses,   \* queue_miss_streak
  late,     \* the budget is over
  made,     \* what the runs were told to render
  recall,   \* what became of the recall
  missed    \* history: the misses since ComfyUI last said it has the prompt

comfyVars == <<prompt, ids, unit, misses, late, made, recall, missed>>

Runs == 1 .. MaxImages
Units == 1 .. req.n
Live == {"polling", "rechecking", "generating", "fetching"}
Lost == {"failed", "dropped", "late"}

Fails(e) == at' = "raised" /\ error' = e
GoesOn(place) == at' = place /\ UNCHANGED error

NothingMade == [used |-> 0, ratio |-> NoRatio, edited |-> FALSE]

ComfyInit ==
  /\ prompt = [u \in Runs |-> "none"]
  /\ ids = {}
  /\ unit = [u \in Runs |-> "idle"]
  /\ misses = [u \in Runs |-> 0] /\ missed = [u \in Runs |-> 0]
  /\ late = FALSE
  /\ made = NothingMade
  /\ recall = "none"

Workflow == ScanWorkflows(Files)[req.model]
IsVideo == req.route = "video"

-----------------------------------------------------------------------------
(* generate_image(), edit_image(), generate_video(): their guards.         *)
Look ==
  /\ at = "looking"
  /\ LET images == Len(req.uploads)
         meta == Workflow.meta
     IN  CASE req.model \notin DOMAIN ScanWorkflows(Files) -> Fails("ModelNotFound")
           [] req.model \in DOMAIN ScanWorkflows(Files) ->
                CASE Workflow.type # (IF IsVideo THEN "video" ELSE "image") ->
                       Fails("UnsupportedOperation")
                  [] meta.imageRequired /\ images = 0
                       /\ (req.route = "generations" \/ meta.slots # <<>>) -> Fails("ImageRequired")
                  [] req.route = "edits" /\ meta.slots = <<>> -> Fails("UnsupportedOperation")
                  [] OTHER -> GoesOn(IF images > 0 /\ meta.slots # <<>> THEN "uploading"
                                     ELSE "preparing")
  /\ UNCHANGED <<req, cancels, comfyVars>>

(* upload_image(), of all of them.  A reply that is no object is an error  *)
(* that nobody handles.                                                    *)
Uploaded ==
  /\ at = "uploading"
  /\ \/ GoesOn("preparing")
     \/ \E e \in {"UpstreamError", "UpstreamAuthError", "Unhandled"} : Fails(e)
  /\ UNCHANGED <<req, cancels, comfyVars>>

(* The record's file is read, for all the runs, and prepared for each.     *)
ReadGraph ==
  /\ at = "preparing"
  /\ LET images == IF Workflow.meta.slots = <<>> THEN 0 ELSE Len(req.uploads)
     IN  \E graph \in {Workflow.graph} \cup Edited :
           LET run == PrepareWorkflow(Workflow, graph, images, req.ratio)
           IN  /\ IF run.error = "none" THEN GoesOn("submitting") ELSE Fails(run.error)
               /\ made' = [used |-> run.used, ratio |-> run.ratio, edited |-> graph # Workflow.graph]
  /\ UNCHANGED <<req, cancels, prompt, ids, unit, misses, late, recall, missed>>

Start == [u \in Runs |-> IF u \in Units THEN "polling" ELSE "idle"]

(* submit_prompt() of the next run.  Without a reply, or with one that has *)
(* no id or is no object (nobody handles that), the prompt may be queued   *)
(* all the same.                                                           *)
Submit ==
  /\ at = "submitting"
  /\ LET u == Cardinality(ids) + 1
     IN  \/ /\ ids' = ids \cup {u}
            /\ prompt' = [prompt EXCEPT ![u] = "pending"]
            /\ GoesOn(IF IsVideo THEN "saving" ELSE IF u = req.n THEN "collecting" ELSE at)
            /\ unit' = IF u = req.n /\ ~IsVideo THEN Start ELSE unit
         \/ /\ \E e \in {"UpstreamError", "UpstreamAuthError", "WorkflowInvalid", "Unhandled"} :
                 /\ error' = e
                 /\ \/ UNCHANGED prompt
                    \/ /\ e \in {"UpstreamError", "Unhandled"}
                       /\ prompt' = [prompt EXCEPT ![u] = "pending"]
            /\ at' = IF ids = {} THEN "raised" ELSE "discarding"
            /\ UNCHANGED <<ids, unit>>
  /\ UNCHANGED <<req, cancels, misses, late, made, recall, missed>>

(* A video's id is saved before anybody is there to recall the prompt.     *)
Saved ==
  /\ at = "saving"
  /\ \/ GoesOn("collecting") /\ unit' = Start
     \/ Fails("Unhandled") /\ UNCHANGED unit
  /\ UNCHANGED <<req, cancels, prompt, ids, misses, late, made, recall, missed>>

-----------------------------------------------------------------------------
(* _collect_one(): poll_completion() and retrieve_media().                 *)

UnitFails(u, how, e) ==
  /\ unit' = [unit EXCEPT ![u] = how]
  /\ error' = IF error = "none" THEN e ELSE error

(* Mutant: the deadline is not looked at before another poll.              *)
Poll_NoDeadline(u) ==
  /\ unit[u] = "polling"
  /\ \/ prompt[u] = "finished" /\ unit' = [unit EXCEPT ![u] = "fetching"] /\ UNCHANGED error
     \/ prompt[u] = "failed" /\ UnitFails(u, "failed", "UpstreamError")
     \/ unit' = [unit EXCEPT ![u] = "rechecking"] /\ UNCHANGED error
  /\ UNCHANGED <<at, req, cancels, prompt, ids, misses, late, made, recall, missed>>

(* The history is asked.  A run that is not in it, and a transient error,  *)
(* leave the collector where it is until a queue check is due; any other   *)
(* error of the transport, a ReadError say, is nobody's to handle.         *)
Poll(u) ==
  /\ unit[u] = "polling"
  /\ \/ late /\ UnitFails(u, "late", "GenerationTimeout")
     \/ /\ ~late
        /\ \/ /\ prompt[u] = "finished"
              /\ unit' = [unit EXCEPT ![u] = "fetching"]
              /\ UNCHANGED error
           \/ prompt[u] = "failed" /\ UnitFails(u, "failed", "UpstreamError")
           \/ unit' = [unit EXCEPT ![u] = "rechecking"] /\ UNCHANGED error
           \/ UnitFails(u, "failed", "Unhandled")
  /\ UNCHANGED <<at, req, cancels, prompt, ids, misses, late, made, recall, missed>>

(* The queue is asked.  Busy or restarting, ComfyUI may misreport.         *)
Tracked(u) ==
  /\ unit[u] = "rechecking"
  /\ unit' = [unit EXCEPT ![u] = "polling"]
  /\ misses' = [misses EXCEPT ![u] = 0]
  /\ missed' = [missed EXCEPT ![u] = 0]
  /\ UNCHANGED <<at, req, cancels, error, prompt, ids, late, made, recall>>

(* A flaky check counts neither way.                                       *)
Flaky(u) ==
  /\ unit[u] = "rechecking"
  /\ \/ unit' = [unit EXCEPT ![u] = "polling"] /\ UNCHANGED error
     \/ UnitFails(u, "failed", "Unhandled")
  /\ UNCHANGED <<at, req, cancels, prompt, ids, misses, late, made, recall, missed>>

Missing(u) ==
  /\ unit[u] = "rechecking"
  /\ misses' = [misses EXCEPT ![u] = @ + 1]
  /\ missed' = [missed EXCEPT ![u] = @ + 1]
  /\ IF misses'[u] >= MissThreshold
     THEN UnitFails(u, "dropped", "UpstreamError")
     ELSE unit' = [unit EXCEPT ![u] = "polling"] /\ UNCHANGED error
  /\ UNCHANGED <<at, req, cancels, prompt, ids, late, made, recall>>

(* A run that has finished may have left nothing, or only a preview; an    *)
(* entry of another shape is an error that nobody handles.                 *)
Download(u) ==
  /\ unit[u] = "fetching" /\ req.provider = "comfyui"
  /\ \/ unit' = [unit EXCEPT ![u] = "done"] /\ UNCHANGED error
     \/ \E e \in {"UpstreamError", "Unhandled"} : UnitFails(u, "failed", e)
  /\ UNCHANGED <<at, req, cancels, prompt, ids, misses, late, made, recall, missed>>

BudgetEnds ==
  /\ at = "collecting" /\ ~late
  /\ late' = TRUE
  /\ UNCHANGED <<at, req, cancels, error, prompt, ids, unit, misses, made, recall, missed>>

-----------------------------------------------------------------------------
(* _run_batch(), and _run_one() whose collector is the request itself.     *)

CancelledUnits == [u \in Runs |-> IF unit[u] \in Live THEN "cancelling" ELSE unit[u]]

Collected ==
  /\ at = "collecting" /\ error = "none"
  /\ \A u \in Units : unit[u] = "done"
  /\ GoesOn("rendered")
  /\ UNCHANGED <<req, cancels, comfyVars>>

(* The first failure, or the cancellation, cancels the other collectors,   *)
(* and waits for them.                                                     *)
Unwind ==
  /\ at = "collecting" /\ error # "none"
  /\ \/ \A u \in Units : unit[u] # "cancelling"
     \/ \E u \in Units : unit[u] \in Lost
  /\ at' = IF IsVideo THEN "discarding" ELSE "unwinding"
  /\ unit' = CancelledUnits
  /\ UNCHANGED <<req, error, cancels, prompt, ids, misses, late, made, recall, missed>>

Ends(u) ==
  /\ unit[u] = "cancelling"
  /\ unit' = [unit EXCEPT ![u] = "cancelled"]
  /\ UNCHANGED <<at, req, error, cancels, prompt, ids, misses, late, made, recall, missed>>

(* Mutant: only the prompts of the runs that failed are given back.        *)
Abandoned_FailedOnly == {u \in ids : unit[u] \in Lost \cup {"idle"}}

(* What never produced a result: of a batch that was submitted in part,    *)
(* all; otherwise the runs that were cancelled or have failed.             *)
Abandoned == {u \in ids : unit[u] # "done"}

Unwound ==
  /\ at = "unwinding"
  /\ \A u \in Units : unit[u] # "cancelling"
  /\ GoesOn(IF Abandoned = {} THEN "raised" ELSE "discarding")
  /\ UNCHANGED <<req, cancels, comfyVars>>

(* delete_queued() drops the prompts that have not been started.           *)
Recalled ==
  [u \in Runs |-> IF u \in Abandoned /\ prompt[u] = "pending" THEN "recalled" ELSE prompt[u]]

(* _discard_queued(): the call succeeds, or fails or times out.            *)
Discarded ==
  /\ at = "discarding"
  /\ at' = "raised"
  /\ \/ prompt' = Recalled /\ recall' = "done"
     \/ prompt' \in {prompt, Recalled} /\ recall' = "failed"
  /\ UNCHANGED <<req, error, cancels, ids, unit, misses, late, made, missed>>

(* The request is cancelled: by its client, by DELETE, by the shutdown.    *)
CancelComfy ==
  /\ error' = "Cancelled"
  /\ CASE at \in {"looking", "uploading", "preparing", "saving"} ->
            at' = "raised" /\ UNCHANGED <<prompt, unit, recall>>
       [] at = "submitting" ->
            /\ prompt' \in {prompt, [prompt EXCEPT ![Cardinality(ids) + 1] = "pending"]}
            /\ at' = IF ids = {} THEN "raised" ELSE "discarding"
            /\ UNCHANGED <<unit, recall>>
       [] at = "collecting" ->
            /\ unit' = CancelledUnits
            /\ at' = IF IsVideo THEN "discarding" ELSE at
            /\ UNCHANGED <<prompt, recall>>
       [] at \in {"unwinding", "discarding"} ->
            /\ at' = "raised" /\ recall' = "cut"
            /\ prompt' \in {prompt} \cup (IF at = "discarding" THEN {Recalled} ELSE {})
            /\ UNCHANGED unit
  /\ UNCHANGED <<req, ids, misses, late, made, missed>>

-----------------------------------------------------------------------------
(* ComfyUI runs one prompt at a time, and may lose any.                    *)
ComfyWorks(u) ==
  /\ \/ /\ prompt[u] = "pending" /\ \A v \in Runs : prompt[v] # "running"
        /\ prompt' = [prompt EXCEPT ![u] = "running"]
     \/ /\ prompt[u] = "running"
        /\ \E how \in {"finished", "failed"} : prompt' = [prompt EXCEPT ![u] = how]
     \/ /\ prompt[u] \in {"pending", "running"}
        /\ prompt' = [prompt EXCEPT ![u] = "lost"]
  /\ UNCHANGED <<at, req, error, cancels, ids, unit, misses, late, made, recall, missed>>

CollectorStep(u) ==
  Poll(u) \/ Tracked(u) \/ Flaky(u) \/ Missing(u) \/ Download(u) \/ Ends(u)

ComfyStep ==
  Look \/ Uploaded \/ ReadGraph \/ Submit \/ Saved \/ Collected \/ Unwind \/ Unwound \/ Discarded
=============================================================================
