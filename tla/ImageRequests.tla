--------------------------- MODULE ImageRequests ---------------------------
(***************************************************************************)
(* A request from its first byte to its answer: the key (auth.py), the     *)
(* limit on its body (api/_limits.py), the checks of the endpoint          *)
(* (api/images.py, api/_passthrough.py), the backend, the files an image   *)
(* answer refers to, and the status (errors.py, main.py).                  *)
(*                                                                         *)
(* The backend is ComfyUI (module ComfyUI), or one that is asked once per  *)
(* image (Venice, ImageRouter, OpenRouter), or fal, which is asked once,   *)
(* or one that only forwards chat completions.  A video is rendered for a  *)
(* background job: it passes no gateway and gets no answer.                *)
(***************************************************************************)
EXTENDS ComfyUI

CONSTANTS
  MaxBytes,    \* the limit of a body; bodies are up to two bytes larger
  Requests,    \* what a request may turn out to be, once its body is read
  Providers,   \* the ids of the configured providers
  MaxUploads,  \* _MAX_EDIT_IMAGES
  MaxSide,     \* MAX_SIZE_SIDE
  Replies      \* of an upstream

(* A generation carries no image (its body is JSON); a video is one run of *)
(* ComfyUI (fal's are those of FalVideo).                                  *)
ASSUME ImageAssumption ==
  /\ MaxImages \in Nat \ {0} /\ MissThreshold \in Nat \ {0}
  /\ MaxCancels \in Nat /\ MaxBytes \in Nat
  /\ \A r \in Requests :
       /\ r.route \in {"generations", "edits", "chat", "video"}
       /\ r.route = "generations" => r.uploads = <<>>
       /\ r.route = "video" => r.n = 1 /\ r.provider = "comfyui"

VARIABLES
  head,      \* route, key and declared length
  received,  \* the bytes received
  exceeded,  \* the flag of the size limit
  file,      \* the put of each image
  answer     \* the statuses sent

gateVars == <<head, received, exceeded>>
vars == <<at, req, error, cancels, comfyVars, gateVars, file, answer>>

Routes == {"generations", "edits", "chat", "video"}
NoRequest == [route |-> "none", provider |-> "", n |-> 0]
NoHead == [route |-> "none", key |-> FALSE, declared |-> 0]

Init ==
  /\ at = "idle" /\ req = NoRequest /\ error = "none" /\ cancels = 0
  /\ ComfyInit
  /\ head = NoHead /\ received = 0 /\ exceeded = FALSE
  /\ file = [u \in Runs |-> "none"]
  /\ answer = <<>>

-----------------------------------------------------------------------------
(* The status of each error: errors.py, the validation handler and the     *)
(* handler of everything else.                                             *)
StatusOf(e) ==
  CASE e \in {"InvalidRequest", "ImageRequired", "UnsupportedOperation", "WorkflowInvalid"} -> 400
    [] e = "Unauthorized" -> 401
    [] e \in {"ModelNotFound", "ProviderNotFound"} -> 404
    [] e = "RequestTooLarge" -> 413
    [] e = "RateLimited" -> 429
    [] e \in {"UpstreamError", "UpstreamAuthError"} -> 502
    [] e = "GenerationTimeout" -> 504
    [] e = "none" -> 200
    [] OTHER -> 500

(* Mutant: what the application says of a body cut short is passed on.     *)
Send_Unguarded(status) == at' = "answered" /\ answer' = Append(answer, status)

(* guarded_send(): once the limit is crossed, there is one thing to say.   *)
Send(status) ==
  /\ at' = "answered"
  /\ answer' = Append(answer, IF exceeded' THEN StatusOf("RequestTooLarge") ELSE status)

DeclaredTooLarge(h) == h.declared > MaxBytes

(* The headers are there: the key is checked first, then the length that   *)
(* is declared (0: none, or none that is a number).                        *)
Arrive(h) ==
  /\ at = "idle"
  /\ head' = h
  /\ UNCHANGED exceeded
  /\ CASE ~h.key -> Send(StatusOf("Unauthorized"))
       [] h.key /\ DeclaredTooLarge(h) -> Send(StatusOf("RequestTooLarge"))
       [] OTHER -> at' = "reading" /\ UNCHANGED answer
  /\ UNCHANGED <<req, error, cancels, comfyVars, received, file>>

(* limited_receive().  A handler that reads the body itself lets the       *)
(* exception pass; where FastAPI reads it, it makes a 400 of it.           *)
Receive(bytes) ==
  /\ at = "reading"
  /\ received' = received + bytes
  /\ exceeded' = (received' > MaxBytes)
  /\ IF exceeded'
     THEN Send(IF head.route = "chat" THEN StatusOf("RequestTooLarge") ELSE 400)
     ELSE UNCHANGED <<at, answer>>
  /\ UNCHANGED <<req, error, cancels, comfyVars, head, file>>

-----------------------------------------------------------------------------
(* parse_size(): a size that is not one is none.                           *)
ParseSize(size) == IF size[1] <= 0 \/ size[2] <= 0 THEN <<0, 0>> ELSE size

CheckSizeBounds(size) ==
  LET sides == ParseSize(size)
  IN  IF sides[1] > MaxSide \/ sides[2] > MaxSide THEN "InvalidRequest" ELSE "none"

(* parse_model_id() and for_provider().                                    *)
RouteError(r) ==
  CASE r.provider = "" -> "InvalidRequest"
    [] r.provider # "" /\ r.provider \notin Providers -> "ProviderNotFound"
    [] OTHER -> "none"

(* What a backend does not override of the base class, it does not support; *)
(* Venice's edit takes exactly one image.                                  *)
Supports(r) ==
  CASE r.route = "chat" -> r.provider \in {"openai", "openrouter"}
    [] r.provider = "openai" -> FALSE
    [] OTHER -> TRUE

FormError(r) ==
  IF \/ r.n \notin 1 .. MaxImages
     \/ CheckSizeBounds(r.size) # "none"
     \/ r.format \notin {"url", "b64_json"}
     \/ r.route = "edits" /\ (r.uploads = <<>> \/ Len(r.uploads) > MaxUploads
                                \/ \E i \in DOMAIN r.uploads : r.uploads[i] = 0)
  THEN "InvalidRequest" ELSE "none"

(* The first that applies.                                                 *)
ValidationError(r) ==
  CASE r.route # "chat" /\ FormError(r) # "none" -> FormError(r)
    [] RouteError(r) # "none" -> RouteError(r)
    [] ~Supports(r) -> "UnsupportedOperation"
    [] r.provider = "venice" /\ r.route = "edits" /\ Len(r.uploads) > 1 -> "InvalidRequest"
    [] OTHER -> "none"

EntryOf(r) ==
  CASE r.provider = "comfyui" -> "looking"
    [] r.provider = "fal" -> "calling"
    [] r.route = "chat" -> "forwarding"
    [] OTHER -> "fanning"

(* The body is whole; its length does not matter any more.                 *)
Dispatch(r) ==
  /\ at = "reading" /\ r.route = head.route
  /\ head' = [head EXCEPT !.declared = 0] /\ received' = 0
  /\ IF ValidationError(r) # "none"
     THEN /\ Fails(ValidationError(r))
          /\ UNCHANGED <<req, unit>>
     ELSE /\ req' = r
          /\ at' = EntryOf(r)
          /\ unit' = [u \in Runs |-> IF EntryOf(r) = "fanning" /\ u <= r.n THEN "generating"
                                     ELSE "idle"]
          /\ UNCHANGED error
  /\ UNCHANGED <<cancels, prompt, ids, misses, late, made, recall, missed, exceeded, file, answer>>

(* A background job starts.                                                *)
StartVideo(r) ==
  /\ at = "idle" /\ r.route = "video"
  /\ req' = r /\ at' = EntryOf(r)
  /\ UNCHANGED <<error, cancels, comfyVars, gateVars, file, answer>>

-----------------------------------------------------------------------------
(* The other backends.                                                     *)

otherVars == <<req, cancels, prompt, ids, misses, late, made, recall, missed, gateVars, file>>

(* fal's one call yields the addresses of all the images.                  *)
Called ==
  /\ at = "calling"
  /\ \E reply \in Replies :
       IF RequestUpstream(reply) = "ok" THEN GoesOn("fanning") /\ unit' = [u \in Runs |->
                                               IF u \in Units THEN "fetching" ELSE "idle"]
       ELSE Fails(RequestUpstream(reply)) /\ UNCHANGED unit
  /\ UNCHANGED <<otherVars, answer>>

Generated(u) ==
  /\ unit[u] = "generating"
  /\ \E reply \in Replies :
       IF RequestUpstream(reply) = "ok"
       THEN unit' = [unit EXCEPT ![u] = "fetching"] /\ UNCHANGED error
       ELSE UnitFails(u, "failed", RequestUpstream(reply))
  /\ UNCHANGED <<at, otherVars, answer>>

(* fetch_asset_with_retry(), or what is decoded from the answer itself.    *)
FetchedImage(u) ==
  /\ unit[u] = "fetching" /\ req.provider # "comfyui"
  /\ \/ unit' = [unit EXCEPT ![u] = "done"] /\ UNCHANGED error
     \/ \E e \in {"UpstreamError", "RateLimited"} : UnitFails(u, "failed", e)
  /\ UNCHANGED <<at, otherVars, answer>>

FannedIn ==
  /\ at = "fanning" /\ error = "none"
  /\ \A u \in Units : unit[u] = "done"
  /\ GoesOn("rendered")
  /\ UNCHANGED <<unit, otherVars, answer>>

(* run_all() cancels the others and waits for them; fal's gather does      *)
(* neither.                                                                *)
FanFails ==
  /\ at = "fanning" /\ error # "none"
  /\ IF req.provider = "fal"
     THEN at' = "raised" /\ UNCHANGED unit
     ELSE at' = "failing" /\ unit' = CancelledUnits
  /\ UNCHANGED <<error, otherVars, answer>>

AllEnded ==
  /\ at = "failing"
  /\ \A u \in Runs : unit[u] # "cancelling" /\ file[u] # "cancelling"
  /\ GoesOn("raised")
  /\ UNCHANGED <<unit, otherVars, answer>>

(* A chat completion is forwarded: whole, if it is an object, or as it     *)
(* comes, the status being sent before the stream.                         *)
RawBody(reply, object) ==
  CASE reply = 200 /\ object -> "ok"
    [] reply = NoReply \/ (reply = 200 /\ ~object) -> "UpstreamError"
    [] OTHER -> RaiseForUpstreamStatus(reply)

OpenStream(reply) ==
  CASE reply = 200 -> "ok"
    [] reply = NoReply -> "UpstreamError"
    [] OTHER -> RaiseForUpstreamStatus(reply)

Forwarded ==
  /\ at = "forwarding"
  /\ \E reply \in Replies, object \in BOOLEAN :
       LET verdict == IF req.stream THEN OpenStream(reply) ELSE RawBody(reply, object)
       IN  CASE verdict # "ok" -> Fails(verdict) /\ UNCHANGED answer
             [] verdict = "ok" /\ req.stream -> GoesOn("streaming") /\ answer' = Append(answer, 200)
             [] OTHER -> GoesOn("rendered") /\ UNCHANGED answer
  /\ UNCHANGED <<unit, otherVars>>

(* The stream ends, or breaks under the client.                            *)
StreamEnds ==
  /\ at = "streaming"
  /\ GoesOn("answered")
  /\ UNCHANGED <<unit, otherVars, answer>>

-----------------------------------------------------------------------------
(* _render_assets(): the images are stored, all or none answered for.      *)

fileOnly == <<req, error, cancels, comfyVars, gateVars>>

Store ==
  /\ at = "rendered" /\ req.route \in {"generations", "edits"} /\ req.format = "url"
  /\ at' = "storing"
  /\ file' = [u \in Runs |-> IF u \in Units THEN "writing" ELSE "none"]
  /\ UNCHANGED <<fileOnly, answer>>

Put(u) ==
  /\ file[u] = "writing"
  /\ \/ file' = [file EXCEPT ![u] = "stored"] /\ UNCHANGED error
     \/ file' = [file EXCEPT ![u] = "failed"] /\ error' = IF error = "none" THEN "Unhandled" ELSE error
  /\ UNCHANGED <<at, req, cancels, comfyVars, gateVars, answer>>

CancelledPuts == [u \in Runs |-> IF file[u] = "writing" THEN "cancelling" ELSE file[u]]

PutsFail ==
  /\ at = "storing" /\ error # "none"
  /\ at' = "failing"
  /\ file' = CancelledPuts
  /\ UNCHANGED <<fileOnly, answer>>

(* A cancelled put may already have committed its row.                     *)
PutEnds(u) ==
  /\ file[u] = "cancelling"
  /\ \E how \in {"stored", "failed"} : file' = [file EXCEPT ![u] = how]
  /\ UNCHANGED <<at, fileOnly, answer>>

AnswerImages ==
  /\ \/ at = "storing" /\ error = "none" /\ \A u \in Units : file[u] = "stored"
     \/ at = "rendered" /\ req.route # "video" /\ (req.route = "chat" \/ req.format = "b64_json")
  /\ UNCHANGED <<fileOnly, file>>
  /\ Send(200)

AnswerError ==
  /\ at = "raised" /\ req.route # "video" /\ error # "Cancelled"
  /\ UNCHANGED <<fileOnly, file>>
  /\ Send(StatusOf(error))

(* Nobody is there to answer.                                              *)
Leave ==
  /\ at = "raised" /\ req.route # "video" /\ error = "Cancelled"
  /\ at' = "gone"
  /\ UNCHANGED <<fileOnly, file, answer>>

-----------------------------------------------------------------------------
Backstage ==
  {"looking", "uploading", "preparing", "submitting", "saving", "collecting", "unwinding",
   "discarding"}

Waiting == Backstage \cup {"reading", "calling", "fanning", "failing", "forwarding", "streaming",
                           "storing"}

(* fal's gather cancels its own, unless it has ended by a failure.         *)
FanEnds == at = "fanning" /\ ~(req.provider = "fal" /\ error # "none")

CancelOther ==
  /\ error' = "Cancelled"
  /\ at' = IF FanEnds \/ at = "storing" THEN "failing" ELSE "raised"
  /\ unit' = IF FanEnds THEN CancelledUnits ELSE unit
  /\ file' = IF at = "storing" THEN CancelledPuts ELSE file
  /\ UNCHANGED <<req, prompt, ids, misses, late, made, recall, missed>>

Cancel ==
  /\ at \in Waiting /\ cancels < MaxCancels
  /\ cancels' = cancels + 1
  /\ \/ at \in Backstage /\ CancelComfy /\ UNCHANGED file
     \/ at \notin Backstage /\ CancelOther
  /\ UNCHANGED <<gateVars, answer>>

Step ==
  \/ ComfyStep /\ UNCHANGED <<gateVars, file, answer>>
  \/ Called \/ FannedIn \/ FanFails \/ AllEnded \/ Forwarded
  \/ Store \/ PutsFail \/ AnswerImages \/ AnswerError \/ Leave

UnitStep(u) ==
  \/ CollectorStep(u) /\ UNCHANGED <<gateVars, file, answer>>
  \/ Generated(u) \/ FetchedImage(u) \/ Put(u) \/ PutEnds(u)

Heads == [route : Routes \ {"video"}, key : BOOLEAN, declared : {0, MaxBytes, MaxBytes + 1}]

Next ==
  \/ \E h \in Heads : Arrive(h)
  \/ \E bytes \in 1 .. MaxBytes + 2 : Receive(bytes)
  \/ \E r \in Requests : Dispatch(r) \/ StartVideo(r)
  \/ Step
  \/ \E u \in Runs : UnitStep(u)
  \/ BudgetEnds /\ UNCHANGED <<gateVars, file, answer>>
  \/ StreamEnds \/ Cancel
  \/ \E u \in Runs : ComfyWorks(u) /\ UNCHANGED <<gateVars, file, answer>>

(* The event loop runs what can run, every call has a timeout of its own,  *)
(* and the collectors' budget ends.  ComfyUI owes nothing, nor do a client *)
(* that sends its body and an upstream that streams its answer.            *)
Fairness ==
  /\ WF_vars(Step)
  /\ \A u \in Runs : WF_vars(UnitStep(u))
  /\ WF_vars(BudgetEnds /\ UNCHANGED <<gateVars, file, answer>>)

Spec == Init /\ [][Next]_vars /\ Fairness

-----------------------------------------------------------------------------
Over == at \in {"answered", "gone"} \/ (req.route = "video" /\ at \in {"rendered", "raised"})

Outcome(status) == answer = <<status>>

(* The client is told once, and what happened (auth.py:11, _limits.py:15,  *)
(* 17 and 135; client.py:48; workflows.py:455; base.py:362): a request     *)
(* without the key is refused unread; a body past the limit reaches no     *)
(* backend and is a 413 however the framework takes the exception; images  *)
(* are answered when each is rendered, stored, made from all the reference *)
(* images and of the ratio the answer names (unless the graph was edited   *)
(* after the scan); a timeout is one; and a prompt is given up as dropped  *)
(* after misses that no other answer interrupts.                           *)
AnswerIsTrue ==
  /\ Len(answer) <= 1
  /\ answer # <<>> /\ ~head.key /\ req.route # "video" => Outcome(401) /\ received = 0
  /\ exceeded => Outcome(413) /\ req = NoRequest
  /\ Outcome(413) => exceeded \/ head.declared > MaxBytes
  /\ Outcome(200) /\ req.route # "chat" =>
       /\ \A u \in Units : unit[u] = "done" /\ (req.format = "url" => file[u] = "stored")
       /\ req.provider = "comfyui" =>
            LET echo == EffectiveAspectRatio(Workflow, req.ratio)
            IN  /\ made.used = Len(req.uploads)
                /\ echo = NoRatio \/ made.edited \/ made.ratio = echo
  /\ Outcome(504) => late
  /\ \A u \in Runs : unit[u] = "dropped" => missed[u] >= MissThreshold

(* When a request is over, nobody works for it any more who has not been   *)
(* cancelled (and waited for, unless a cancellation cut that short), and   *)
(* the prompts that ComfyUI has not started and whose ids are known are    *)
(* recalled (adapter.py:379, concurrency.py:19).  Not promised: a recall   *)
(* that fails or is cut short; the prompt of a video that is cancelled     *)
(* while its id is saved (adapter.py:192); the rest of fal's downloads     *)
(* after one has failed.  And the uploads of an edit's images are one step *)
(* here, which says nothing of them: a plain gather (adapter.py:432) leaves *)
(* the others running when one has failed.                                 *)
NothingLeftBehind ==
  Over =>
    /\ \A u \in Runs :
         unit[u] \in Live => req.provider = "fal" /\ \E v \in Units : unit[v] = "failed"
    /\ \A u \in Runs : file[u] # "writing"
    /\ cancels = 0 => \A u \in Runs : unit[u] # "cancelling" /\ file[u] # "cancelling"
    /\ \A u \in ids :
         prompt[u] = "pending" => recall \in {"failed", "cut"} \/ (IsVideo /\ unit[u] = "idle")

(* Whatever the upstreams do, a request whose body is there ends, in no    *)
(* more than its budget and its calls' timeouts, unless it streams.        *)
EveryRequestEnds ==
  at \in Waiting \ {"reading", "streaming"} ~> Over \/ at = "streaming"
=============================================================================
