------------------------ MODULE ImageRequestsProofs ------------------------
(***************************************************************************)
(* Proofs about ImageRequests.tla and the ComfyUI.tla it extends, for any  *)
(* requests, any workflows, any limits and any number of cancellations.    *)
(***************************************************************************)
EXTENDS ImageRequests, FiniteSetTheorems, TLAPS

(* The types, in groups.                                                   *)
Errors ==
  {"none", "InvalidRequest", "ImageRequired", "UnsupportedOperation", "WorkflowInvalid",
   "ModelNotFound", "ProviderNotFound", "RateLimited", "UpstreamError", "UpstreamAuthError",
   "GenerationTimeout", "Unhandled", "Cancelled"}

Places == {"idle", "rendered", "raised", "answered", "gone"} \cup Waiting

HeadType == [route : Routes \cup {"none"}, key : BOOLEAN, declared : Nat]

RequestTypes ==
  /\ at \in Places /\ error \in Errors /\ cancels \in Nat
  /\ req \in Requests \cup {NoRequest}
  /\ head \in HeadType
  /\ received \in Nat /\ exceeded \in BOOLEAN
  /\ req # NoRequest /\ req.route # "chat" => req.n \in Runs

PromptStates == {"none", "pending", "running", "finished", "failed", "lost", "recalled"}

UnitTypes ==
  /\ unit \in [Runs -> {"idle", "done", "cancelling", "cancelled"} \cup Live \cup Lost]
  /\ prompt \in [Runs -> PromptStates]
  /\ missed \in [Runs -> Nat] /\ misses = missed
  /\ file \in [Runs -> {"none", "writing", "stored", "failed", "cancelling"}]
  /\ recall \in {"none", "done", "failed", "cut"} /\ late \in BOOLEAN

(* What the gateways have let in, and what has been said.                  *)
Pictures == req.route \in {"generations", "edits"}

Once == answer = <<>> \/ answer = <<answer[1]>>

GateInv ==
  /\ Once
  /\ answer # <<>> =>
       at \in {"answered", "streaming"} \/ (at \in {"raised", "gone"} /\ error = "Cancelled")
  /\ at \in {"idle", "reading"} => req = NoRequest /\ error = "none"
  /\ at = "idle" => head = NoHead /\ received = 0
  /\ at = "reading" => head.key /\ head.route \in {"generations", "edits", "chat"}
  /\ ~head.key /\ req.route # "video" =>
       at = "idle" \/ (at = "answered" /\ Outcome(401) /\ received = 0)
  /\ exceeded => at = "answered" /\ Outcome(413) /\ req = NoRequest
  /\ Outcome(413) => exceeded \/ head.declared > MaxBytes
  /\ Outcome(504) => late
  /\ Outcome(200) => req # NoRequest
  /\ IsVideo => answer = <<>>

BeforeTheRuns ==
  {"looking", "uploading", "preparing", "submitting", "saving", "calling", "forwarding"}

(* Where a request can be, given what it is, and with which error.         *)
PhaseInv ==
  /\ at \notin {"idle", "reading", "raised", "answered", "gone"} => req # NoRequest
  /\ at \in {"raised", "failing", "unwinding", "discarding"} => error # "none"
  /\ at \in Backstage => req.provider = "comfyui" /\ req.route # "chat"
  /\ at \in {"calling", "fanning", "failing", "storing"} => req.route # "chat"
  /\ at \in {"forwarding", "streaming"} => req.route = "chat"
  /\ at = "calling" => req.provider = "fal"
  /\ at = "fanning" => req.provider # "comfyui"
  /\ at = "saving" => IsVideo
  /\ at = "storing" => Pictures /\ req.format = "url"
  /\ at \in BeforeTheRuns => error = "none"
  /\ error = "GenerationTimeout" => late

(* The collectors.                                                         *)
UnitInv ==
  /\ \A u \in Runs : unit[u] # "idle" => u \in Units /\ req.route # "chat" /\ req # NoRequest
  /\ \A u \in Runs : unit[u] \in Live =>
       \/ at \in {"fanning", "collecting"}
       \/ req.provider = "fal" /\ \E v \in Units : unit[v] = "failed"
  /\ \A u \in Runs :
       /\ unit[u] \in {"polling", "rechecking"} => req.provider = "comfyui"
       /\ unit[u] = "generating" => req.provider # "comfyui"
       /\ unit[u] \in {"fetching", "done"} /\ req.provider = "comfyui" => prompt[u] = "finished"
       /\ unit[u] = "dropped" => missed[u] >= MissThreshold
       /\ unit[u] = "cancelling" => at \in {"collecting", "unwinding", "failing"} \/ cancels > 0
  /\ at \in BeforeTheRuns =>
       \A u \in Runs : unit[u] = "idle"
  /\ at = "fanning" /\ error # "none" => \E v \in Units : unit[v] = "failed"
  /\ at = "collecting" /\ error # "none" /\ cancels = 0 => \E v \in Units : unit[v] \in Lost
  /\ at = "collecting" /\ error # "none" /\ IsVideo => \E v \in Units : unit[v] \in Lost
  /\ (at \in {"rendered", "storing"} \/ Outcome(200)) =>
       req.route = "chat" \/ (\A u \in Units : unit[u] = "done")

(* The files.                                                              *)
FileInv ==
  /\ \A u \in Runs :
       /\ file[u] = "writing" => at = "storing" /\ u \in Units
       /\ file[u] = "cancelling" => at = "failing" \/ cancels > 0
  /\ Outcome(200) /\ Pictures /\ req.format = "url" => \A u \in Units : file[u] = "stored"

(* The prompts.                                                            *)
Given ==
  \A u \in ids : prompt[u] = "pending" =>
    recall \in {"failed", "cut"} \/ (IsVideo /\ unit[u] = "idle")

PromptInv ==
  /\ ids \subseteq Runs /\ ids \subseteq Units
  /\ ids # {} => req.provider = "comfyui"
  /\ at \in {"idle", "reading", "looking", "uploading", "preparing"} => ids = {}
  /\ at = "submitting" => \E k \in 0 .. req.n - 1 : ids = 1 .. k
  /\ at \in {"submitting", "saving", "collecting", "unwinding", "discarding"} \/ Given

(* What the runs were told to render.                                      *)
Truthful ==
  LET echo == EffectiveAspectRatio(Workflow, req.ratio)
  IN  /\ made.used = Len(req.uploads)
      /\ echo = NoRatio \/ made.edited \/ made.ratio = echo

MadeInv ==
  /\ at \in {"uploading", "preparing"} => req.model \in DOMAIN ScanWorkflows(Files)
  /\ at \in {"uploading", "preparing"} /\ req.route = "edits" => Workflow.meta.slots # <<>>
  /\ (at \in {"submitting", "collecting", "rendered", "storing"} \/ Outcome(200))
       /\ Pictures /\ req.provider = "comfyui" => Truthful

ImageInv ==
  /\ RequestTypes /\ UnitTypes
  /\ GateInv /\ PhaseInv /\ UnitInv /\ FileInv /\ PromptInv /\ MadeInv
-----------------------------------------------------------------------------
(* What does not change with the variables it is about.                    *)
LEMMA Frame ==
  /\ UNCHANGED req => /\ Units' = Units /\ Workflow' = Workflow
                      /\ IsVideo' <=> IsVideo
                      /\ Pictures' <=> Pictures
  /\ UNCHANGED <<req, made>> => (Truthful' <=> Truthful)
BY DEF Units, IsVideo, Pictures, Workflow, Truthful

LEMMA UnitsFacts ==
  ASSUME RequestTypes
  PROVE  req # NoRequest /\ req.route # "chat" => Units \subseteq Runs
BY ImageAssumption DEF RequestTypes, Units, Runs

LEMMA StatusFacts ==
  /\ \A e \in Errors : /\ StatusOf(e) \notin {401, 413}
                       /\ StatusOf(e) = 200 <=> e = "none"
                       /\ StatusOf(e) = 504 <=> e = "GenerationTimeout"
  /\ StatusOf("Unauthorized") = 401 /\ StatusOf("RequestTooLarge") = 413
BY DEF StatusOf, Errors

LEMMA SendFacts ==
  ASSUME NEW status, Send(status), answer = <<>>
  PROVE  /\ at' = "answered"
         /\ answer' = <<IF exceeded' THEN 413 ELSE status>>
BY StatusFacts DEF Send

(* The errors an upstream's answer can be turned into.                     *)
FromUpstream ==
  {"UpstreamAuthError", "UnsupportedOperation", "RateLimited", "InvalidRequest", "UpstreamError"}

LEMMA VerdictFacts ==
  ASSUME NEW reply
  PROVE  /\ RequestUpstream(reply) \in FromUpstream \cup {"ok"}
         /\ OpenStream(reply) \in FromUpstream \cup {"ok"}
         /\ \A object \in BOOLEAN : RawBody(reply, object) \in FromUpstream \cup {"ok"}
<1>1. RaiseForUpstreamStatus(reply) \in FromUpstream
  BY DEF RaiseForUpstreamStatus, FromUpstream
<1>2. QED
  BY <1>1 DEF RequestUpstream, OpenStream, RawBody, FromUpstream

-----------------------------------------------------------------------------
(* The gateways.                                                           *)
(* A gateway touches nothing but what it has itself.                       *)
LEMMA GatewayKeeps ==
  ASSUME ImageInv, req = NoRequest, answer = <<>>, error = "none", at \in {"idle", "reading"},
         UNCHANGED <<req, error, cancels, comfyVars, file>>,
         head' \in HeadType, received' \in Nat, exceeded' \in BOOLEAN,
         at' \in {"reading", "answered"}, ~ Outcome(200)'
  PROVE  (RequestTypes /\ UnitTypes /\ PhaseInv /\ UnitInv /\ FileInv /\ PromptInv /\ MadeInv)'
<1>1. /\ Units' = Units /\ Workflow' = Workflow
      /\ (IsVideo' <=> IsVideo) /\ (Pictures' <=> Pictures) /\ (Truthful' <=> Truthful)
  BY Frame DEF comfyVars
<1>2. ~ Pictures /\ ~ IsVideo
  BY DEF Pictures, NoRequest, IsVideo
<1>3. (RequestTypes /\ UnitTypes /\ PhaseInv)'
  BY ImageAssumption
  DEF RequestTypes, UnitTypes, PhaseInv, BeforeTheRuns, ImageInv, comfyVars, Places, Waiting,
     Backstage
<1>4. \A u \in Runs : unit[u] = "idle" /\ file[u] # "writing"
  BY DEF UnitInv, BeforeTheRuns, FileInv, ImageInv
<1>5. UnitInv'
  BY <1>1, <1>2, <1>4 DEF UnitInv, BeforeTheRuns, ImageInv, comfyVars, Live, Lost
<1>6. FileInv'
  BY <1>1, <1>2, <1>4 DEF FileInv, ImageInv, comfyVars
<1>7. PromptInv' /\ MadeInv'
  BY <1>1, <1>2 DEF PromptInv, Given, MadeInv, ImageInv, comfyVars
<1>8. QED
  BY <1>3, <1>5, <1>6, <1>7

LEMMA ArriveKeeps ==
  ASSUME ImageInv, NEW h \in Heads, Arrive(h)
  PROVE  ImageInv'
<1>1. /\ at = "idle" /\ head' = h /\ answer = <<>> /\ req = NoRequest /\ ~ exceeded
      /\ error = "none" /\ received = 0
      /\ UNCHANGED <<req, error, cancels, comfyVars, received, file, exceeded>>
      /\ h.key \in BOOLEAN /\ h.route \in {"generations", "edits", "chat"}
  BY DEF Arrive, ImageInv, GateInv, Heads, Routes, NoRequest, Once, Outcome
<1>2. \/ h.key /\ at' = "reading" /\ answer' = <<>>
      \/ ~ h.key /\ at' = "answered" /\ answer' = <<401>>
      \/ h.key /\ h.declared > MaxBytes /\ at' = "answered" /\ answer' = <<413>>
  BY <1>1, SendFacts, StatusFacts DEF Arrive, DeclaredTooLarge
<1>3. /\ Once' /\ ~ Outcome(200)' /\ ~ Outcome(504)'
      /\ Outcome(401)' <=> answer' = <<401>>
      /\ Outcome(413)' <=> answer' = <<413>>
  BY <1>2 DEF Outcome, Once
<1>4. GateInv'
  <2>1. (at \in {"idle", "reading"} => req = NoRequest /\ error = "none")'
    BY <1>1, <1>2
  <2>2. (/\ at = "idle" => head = NoHead /\ received = 0
         /\ at = "reading" => head.key /\ head.route \in {"generations", "edits", "chat"})'
    BY <1>1, <1>2
  <2>3. (~head.key /\ req.route # "video" =>
       at = "idle" \/ (at = "answered" /\ Outcome(401) /\ received = 0))'
    BY <1>1, <1>2, <1>3
  <2>4. (exceeded => at = "answered" /\ Outcome(413) /\ req = NoRequest)'
    BY <1>1, <1>2, <1>3
  <2>5. (Outcome(413) => exceeded \/ head.declared > MaxBytes)'
    BY <1>1, <1>2, <1>3
  <2>6. (IsVideo => answer = <<>>)'
    BY <1>1, <1>2, <1>3 DEF IsVideo, NoRequest
  <2>7. (answer # <<>> =>
       at \in {"answered", "streaming"} \/ (at \in {"raised", "gone"} /\ error = "Cancelled"))'
    BY <1>1, <1>2
  <2>8. QED
    BY <1>3, <2>1, <2>2, <2>3, <2>4, <2>5, <2>6, <2>7 DEF GateInv
<1>5. head' \in HeadType /\ received' \in Nat /\ exceeded' \in BOOLEAN
  BY <1>1, ImageAssumption DEF ImageInv, RequestTypes, Heads, HeadType, Routes
<1>6. QED
  BY <1>1, <1>2, <1>3, <1>4, <1>5, GatewayKeeps DEF ImageInv

LEMMA ReceiveKeeps ==
  ASSUME ImageInv, NEW bytes \in 1 .. MaxBytes + 2, Receive(bytes)
  PROVE  ImageInv'
<1>1. /\ at = "reading" /\ answer = <<>> /\ req = NoRequest /\ error = "none"
      /\ head.key /\ head.route \in {"generations", "edits", "chat"}
      /\ UNCHANGED <<req, error, cancels, comfyVars, head, file>>
  BY DEF Receive, ImageInv, GateInv, Once, Outcome
<1>2. \/ ~ exceeded' /\ at' = "reading" /\ answer' = <<>>
      \/ exceeded' /\ at' = "answered" /\ answer' = <<413>>
  BY <1>1, SendFacts, StatusFacts DEF Receive
<1>3. answer' # <<413>> => answer' = <<>>
  BY <1>2
<1>4. /\ Once' /\ ~ Outcome(200)' /\ ~ Outcome(504)'
      /\ Outcome(401)' <=> answer' = <<401>>
      /\ Outcome(413)' <=> answer' = <<413>>
  BY <1>3 DEF Outcome, Once
<1>5. GateInv'
  <2>1. (at \in {"idle", "reading"} => req = NoRequest /\ error = "none")'
    BY <1>1, <1>2
  <2>2. (/\ at = "idle" => head = NoHead /\ received = 0
         /\ at = "reading" => head.key /\ head.route \in {"generations", "edits", "chat"})'
    BY <1>1, <1>2
  <2>3. (~head.key /\ req.route # "video" =>
       at = "idle" \/ (at = "answered" /\ Outcome(401) /\ received = 0))'
    BY <1>1, <1>2, <1>4
  <2>4. (exceeded => at = "answered" /\ Outcome(413) /\ req = NoRequest)'
    BY <1>1, <1>2, <1>4
  <2>5. (Outcome(413) => exceeded \/ head.declared > MaxBytes)'
    BY <1>1, <1>2, <1>4
  <2>6. (IsVideo => answer = <<>>)'
    BY <1>1, <1>2, <1>4 DEF IsVideo, NoRequest
  <2>7. (answer # <<>> =>
       at \in {"answered", "streaming"} \/ (at \in {"raised", "gone"} /\ error = "Cancelled"))'
    BY <1>1, <1>2
  <2>8. QED
    BY <1>4, <2>1, <2>2, <2>3, <2>4, <2>5, <2>6, <2>7 DEF GateInv
<1>6. head' \in HeadType /\ received' \in Nat /\ exceeded' \in BOOLEAN
  <2>1. received' = received + bytes /\ exceeded' = (received' > MaxBytes)
    BY DEF Receive
  <2>2. received' \in Nat /\ head' \in HeadType
    BY <1>1, <2>1, ImageAssumption DEF ImageInv, RequestTypes
  <2>3. (received' > MaxBytes) \in BOOLEAN
    OBVIOUS
  <2>4. QED
    BY <2>1, <2>2, <2>3
<1>7. QED
  BY <1>1, <1>2, <1>4, <1>5, <1>6, GatewayKeeps DEF ImageInv

LEMMA NoRequestRoute == NoRequest.route = "none"
BY DEF NoRequest

(* What an endpoint lets through.                                          *)
LEMMA Validated ==
  ASSUME NEW r, ValidationError(r) = "none"
  PROVE  r.route # "chat" => r.n \in 1 .. MaxImages /\ r.format \in {"url", "b64_json"}
<1>1. r.route # "chat" => FormError(r) = "none"
  BY DEF ValidationError
<1>2. QED
  BY <1>1 DEF FormError

LEMMA ValidationErrors ==
  ASSUME NEW r
  PROVE  ValidationError(r) \in
           {"none", "InvalidRequest", "ProviderNotFound", "UnsupportedOperation"}
<1>1. FormError(r) \in {"none", "InvalidRequest"}
  BY DEF FormError
<1>2. RouteError(r) \in {"none", "InvalidRequest", "ProviderNotFound"}
  BY DEF RouteError
<1>3. QED
  BY <1>1, <1>2 DEF ValidationError

LEMMA Entries ==
  ASSUME NEW r, ValidationError(r) = "none"
  PROVE  /\ EntryOf(r) \in {"looking", "calling", "forwarding", "fanning"}
         /\ EntryOf(r) = "looking" => r.provider = "comfyui" /\ r.route # "chat"
         /\ EntryOf(r) = "calling" => r.provider = "fal" /\ r.route # "chat"
         /\ EntryOf(r) = "forwarding" => r.route = "chat"
         /\ EntryOf(r) = "fanning" => r.provider # "comfyui" /\ r.route # "chat"
<1>1. Supports(r)
  BY DEF ValidationError
<1>2. QED
  BY <1>1 DEF Supports, EntryOf

LEMMA DispatchKeeps ==
  ASSUME ImageInv, NEW r \in Requests, Dispatch(r)
  PROVE  ImageInv'
<1>1. /\ at = "reading" /\ answer = <<>> /\ req = NoRequest /\ error = "none" /\ head.key
      /\ ~ exceeded /\ head.route \in {"generations", "edits", "chat"} /\ r.route = head.route
      /\ \A u \in Runs : unit[u] = "idle" /\ file[u] # "writing"
      /\ ids = {}
      /\ UNCHANGED <<cancels, prompt, ids, misses, late, made, recall, missed, exceeded>>
      /\ UNCHANGED <<file, answer>>
      /\ head' = [head EXCEPT !.declared = 0] /\ received' = 0
  BY DEF Dispatch, ImageInv, GateInv, UnitInv, BeforeTheRuns, FileInv, PromptInv, Once, Outcome
<1>2. /\ head'.key /\ head'.route = head.route
      /\ head' \in HeadType
  BY <1>1 DEF ImageInv, RequestTypes, HeadType
<1>3. \A s : ~ Outcome(s) /\ ~ Outcome(s)'
  BY <1>1 DEF Outcome
<1>4. CASE ValidationError(r) # "none"
  <2>1. /\ at' = "raised" /\ error' = ValidationError(r) /\ UNCHANGED <<req, unit>>
        /\ error' \in {"InvalidRequest", "ProviderNotFound", "UnsupportedOperation"}
    BY <1>4, ValidationErrors DEF Dispatch, Fails
  <2>2. /\ Units' = Units /\ Workflow' = Workflow
        /\ (IsVideo' <=> IsVideo) /\ (Pictures' <=> Pictures) /\ (Truthful' <=> Truthful)
    BY <1>1, <2>1, Frame
  <2>3. ~ Pictures /\ ~ IsVideo
    BY <1>1 DEF Pictures, NoRequest, IsVideo
  <2>4. (RequestTypes /\ UnitTypes)'
    BY <1>1, <1>2, <2>1 DEF RequestTypes, UnitTypes, ImageInv, Places, Waiting, Errors
  <2>5. GateInv'
    BY <1>1, <1>2, <1>3, <2>1, <2>2, <2>3 DEF GateInv, ImageInv, Once
  <2>6. PhaseInv'
    BY <1>1, <2>1, <2>2, <2>3 DEF PhaseInv, BeforeTheRuns, ImageInv, Backstage
  <2>7. UnitInv' /\ FileInv'
    BY <1>1, <1>3, <2>1, <2>2, <2>3 DEF UnitInv, BeforeTheRuns, FileInv, ImageInv, Live, Lost
  <2>8. PromptInv' /\ MadeInv'
    BY <1>1, <1>3, <2>1, <2>2, <2>3 DEF PromptInv, MadeInv, Given, ImageInv
  <2>9. QED
    BY <2>4, <2>5, <2>6, <2>7, <2>8 DEF ImageInv
<1>5. CASE ValidationError(r) = "none"
  <2>1. /\ req' = r /\ at' = EntryOf(r) /\ UNCHANGED error
        /\ unit' = [u \in Runs |-> IF EntryOf(r) = "fanning" /\ u <= r.n THEN "generating"
                                    ELSE "idle"]
    BY <1>5 DEF Dispatch
  <2>2. /\ at' \in {"looking", "calling", "forwarding", "fanning"}
        /\ at' = "looking" => r.provider = "comfyui" /\ r.route # "chat"
        /\ at' = "calling" => r.provider = "fal" /\ r.route # "chat"
        /\ at' = "forwarding" => r.route = "chat"
        /\ at' = "fanning" => r.provider # "comfyui" /\ r.route # "chat"
        /\ r.route \in {"generations", "edits", "chat"} /\ r # NoRequest
        /\ r.route # "chat" => r.n \in 1 .. MaxImages
    BY <1>1, <1>5, <2>1, Entries, Validated, NoRequestRoute
  <2>3. ~ IsVideo'
    BY <2>1, <2>2 DEF IsVideo
  <2>4. (RequestTypes /\ UnitTypes)'
    BY <1>1, <1>2, <2>1, <2>2
    DEF RequestTypes, UnitTypes, ImageInv, Places, Waiting, Backstage, Errors, Live, Runs
  <2>5. GateInv'
    BY <1>1, <1>2, <1>3, <2>1, <2>2, <2>3 DEF GateInv, ImageInv, Once
  <2>6. PhaseInv'
    BY <1>1, <2>1, <2>2, <2>3 DEF PhaseInv, BeforeTheRuns, ImageInv, Backstage
  <2>7. \A u \in Runs :
          /\ at' = "fanning" => /\ unit'[u] \in {"idle", "generating"}
                                /\ unit'[u] = "generating" => u \in Units'
          /\ at' # "fanning" => unit'[u] = "idle"
    BY <2>1, <2>2 DEF Units, Runs
  <2>8. UnitInv'
    BY <1>1, <1>3, <2>1, <2>2, <2>3, <2>7 DEF UnitInv, BeforeTheRuns, ImageInv, Live, Lost
  <2>9. FileInv'
    BY <1>1, <1>3, <2>1, <2>2, <2>3 DEF FileInv, ImageInv
  <2>10. PromptInv' /\ MadeInv'
    BY <1>1, <1>3, <2>1, <2>2, <2>3 DEF PromptInv, MadeInv, Given, ImageInv
  <2>11. QED
    BY <2>4, <2>5, <2>6, <2>8, <2>9, <2>10 DEF ImageInv
<1>6. QED
  BY <1>4, <1>5

LEMMA StartVideoKeeps ==
  ASSUME ImageInv, NEW r \in Requests, StartVideo(r)
  PROVE  ImageInv'
<1>1. /\ at = "idle" /\ answer = <<>> /\ req = NoRequest /\ error = "none" /\ ~ exceeded
      /\ \A u \in Runs : unit[u] = "idle" /\ file[u] # "writing"
      /\ ids = {}
      /\ r.route = "video" /\ req' = r /\ at' = EntryOf(r)
      /\ UNCHANGED <<error, cancels, comfyVars, gateVars, file, answer>>
  BY DEF StartVideo, ImageInv, GateInv, UnitInv, BeforeTheRuns, FileInv, PromptInv, Once, Outcome
<1>2. r.n = 1 /\ r.provider \in {"comfyui", "fal"} /\ r # NoRequest
  BY <1>1, ImageAssumption, NoRequestRoute
<1>3. /\ at' \in {"looking", "calling"}
      /\ at' = "looking" => r.provider = "comfyui"
      /\ at' = "calling" => r.provider = "fal"
  BY <1>1, <1>2 DEF EntryOf
<1>4. /\ \A s : ~ Outcome(s) /\ ~ Outcome(s)'
      /\ ~ Pictures'
  BY <1>1 DEF Outcome, Pictures
<1>5. (RequestTypes /\ UnitTypes)'
  BY <1>1, <1>2, <1>3, ImageAssumption
  DEF RequestTypes, UnitTypes, ImageInv, Places, Waiting, Backstage, Runs, gateVars, comfyVars
<1>6. GateInv'
  BY <1>1, <1>3, <1>4 DEF GateInv, ImageInv, Once, gateVars
<1>7. PhaseInv'
  BY <1>1, <1>2, <1>3 DEF PhaseInv, BeforeTheRuns, ImageInv, Backstage, IsVideo, comfyVars
<1>8. UnitInv' /\ FileInv'
  BY <1>1, <1>2, <1>3, <1>4 DEF UnitInv, BeforeTheRuns, FileInv, ImageInv, Live, Lost, comfyVars
<1>9. PromptInv' /\ MadeInv'
  BY <1>1, <1>3, <1>4 DEF PromptInv, MadeInv, Given, ImageInv, comfyVars
<1>10. QED
  BY <1>5, <1>6, <1>7, <1>8, <1>9 DEF ImageInv
-----------------------------------------------------------------------------
(* The batch.                                                              *)
LEMMA BackstageFacts ==
  ASSUME ImageInv, at \in Backstage
  PROVE  /\ answer = <<>> /\ \A s : ~ Outcome(s)
         /\ ~ exceeded /\ req \in Requests /\ req # NoRequest
         /\ req.provider = "comfyui" /\ req.route # "chat" /\ req.n \in Runs /\ Units \subseteq Runs
         /\ \A u \in Runs : file[u] # "writing" /\ (file[u] = "cancelling" => cancels > 0)
<1>1. req # NoRequest /\ req.provider = "comfyui" /\ req.route # "chat" /\ ~ exceeded
  BY DEF ImageInv, PhaseInv, BeforeTheRuns, GateInv, Backstage
<1>2. answer = <<>>
  BY DEF ImageInv, GateInv, Backstage
<1>3. req \in Requests /\ req.n \in Runs
  BY <1>1 DEF ImageInv, RequestTypes
<1>4. Units \subseteq Runs
  BY <1>1, UnitsFacts DEF ImageInv
<1>5. \A u \in Runs : file[u] # "writing" /\ (file[u] = "cancelling" => cancels > 0)
  BY DEF ImageInv, FileInv, Backstage
<1>6. \A s : ~ Outcome(s)
  BY <1>2 DEF Outcome
<1>7. QED
  BY <1>1, <1>2, <1>3, <1>4, <1>5, <1>6

(* Behind the backend's door the gateways and the files rest.              *)
LEMMA BatchKeeps ==
  ASSUME ImageInv, at \in Backstage, UNCHANGED <<req, gateVars, file, answer>>,
         at' \in Backstage \cup {"raised", "rendered"}, error' \in Errors,
         cancels' \in Nat, cancels' >= cancels
  PROVE  /\ (RequestTypes /\ GateInv /\ FileInv)'
         /\ Units' = Units /\ Workflow' = Workflow
         /\ IsVideo' <=> IsVideo
         /\ Pictures' <=> Pictures
         /\ \A s : ~ Outcome(s)'
<1>1. /\ Units' = Units /\ Workflow' = Workflow
      /\ IsVideo' <=> IsVideo
      /\ Pictures' <=> Pictures
  BY Frame
<1>2. \A s : ~ Outcome(s)'
  BY BackstageFacts DEF Outcome
<1>3. RequestTypes'
  BY DEF ImageInv, RequestTypes, gateVars, Places, Waiting, Backstage
<1>4. GateInv'
  BY <1>1, <1>2, BackstageFacts DEF ImageInv, GateInv, Once, gateVars, Backstage
<1>5. FileInv'
  BY <1>1, <1>2, BackstageFacts DEF ImageInv, FileInv, RequestTypes
<1>6. QED
  BY <1>1, <1>2, <1>3, <1>4, <1>5

LEMMA LookKeeps ==
  ASSUME ImageInv, Look, UNCHANGED <<gateVars, file, answer>>
  PROVE  ImageInv'
<1>1. at = "looking" /\ error = "none" /\ UNCHANGED <<req, cancels, comfyVars>>
  BY DEF Look, ImageInv, PhaseInv, BeforeTheRuns
<1>2. \/ at' = "raised" /\ error' \in {"ModelNotFound", "UnsupportedOperation", "ImageRequired"}
      \/ /\ at' \in {"uploading", "preparing"} /\ error' = error
         /\ req.model \in DOMAIN ScanWorkflows(Files)
         /\ req.route = "edits" => Workflow.meta.slots # <<>>
  BY DEF Look, Fails, GoesOn
<1>3. at \in Backstage /\ at' \in Backstage \cup {"raised", "rendered"} /\ error' \in Errors
  BY <1>1, <1>2 DEF Backstage, Errors
<1>4. cancels \in Nat
  BY DEF ImageInv, RequestTypes
<1>5. /\ (RequestTypes /\ GateInv /\ FileInv)'
      /\ Units' = Units /\ Workflow' = Workflow
      /\ IsVideo' <=> IsVideo
      /\ Pictures' <=> Pictures
      /\ \A s : ~ Outcome(s)'
  BY <1>1, <1>3, <1>4, BatchKeeps
<1>6. (UnitTypes /\ PhaseInv)'
  BY <1>1, <1>2, <1>5, BackstageFacts, <1>3
  DEF ImageInv, UnitTypes, PhaseInv, BeforeTheRuns, comfyVars, Backstage
<1>7. UnitInv'
  BY <1>1, <1>2, <1>5, BackstageFacts, <1>3 DEF ImageInv, UnitInv, BeforeTheRuns, comfyVars, Live
<1>8. PromptInv' /\ MadeInv'
  BY <1>1, <1>2, <1>5 DEF ImageInv, PromptInv, Given, MadeInv, comfyVars
<1>9. QED
  BY <1>5, <1>6, <1>7, <1>8 DEF ImageInv

(* One run of a workflow whose file is as it was scanned.                  *)
LEMMA PreparedFacts ==
  ASSUME NEW file0, NEW graph, NEW images, NEW asked,
         PrepareWorkflow(WorkflowRecord(file0), graph, images, asked).error = "none"
  PROVE  LET run == PrepareWorkflow(WorkflowRecord(file0), graph, images, asked)
             echo == EffectiveAspectRatio(WorkflowRecord(file0), asked)
         IN  /\ run.used = images
             /\ echo = NoRatio \/ graph # WorkflowRecord(file0).graph \/ run.ratio = echo
<1> DEFINE record == WorkflowRecord(file0)
           run == PrepareWorkflow(record, graph, images, asked)
           chosen == SnapAspectRatio(asked, record.ratios)
<1>1. /\ run.used = images
      /\ run.ratio = IF chosen # NoRatio /\ record.meta.ratioNode \in graph.nodes
                     THEN chosen ELSE graph.saved
  BY DEF PrepareWorkflow
<1>2. CASE chosen # NoRatio
  <2>1. record.ratios # <<>>
    <3>1. SUFFICES ASSUME record.ratios = <<>> PROVE FALSE
      OBVIOUS
    <3>2. ~ Contains(<<>>, asked)
      BY DEF Contains
    <3>3. SnapAspectRatio(asked, <<>>) = NoRatio
      BY <3>2 DEF SnapAspectRatio
    <3>4. QED
      BY <1>2, <3>1, <3>3
  <2>2. record.meta.ratioNode \in record.graph.nodes
    BY <2>1 DEF WorkflowRecord, ResolveAspectRatios
  <2>3. QED
    BY <1>1, <1>2, <2>2 DEF EffectiveAspectRatio
<1>3. CASE chosen = NoRatio
  <2>1. record.default \in {NoRatio, record.graph.saved}
    BY DEF WorkflowRecord, ParseAspectRatio
  <2>2. QED
    BY <1>1, <1>3, <2>1 DEF EffectiveAspectRatio
<1>4. QED
  BY <1>2, <1>3

LEMMA ReadGraphKeeps ==
  ASSUME ImageInv, ReadGraph, UNCHANGED <<gateVars, file, answer>>
  PROVE  ImageInv'
<1> DEFINE images == IF Workflow.meta.slots = <<>> THEN 0 ELSE Len(req.uploads)
           run(graph) == PrepareWorkflow(Workflow, graph, images, req.ratio)
<1>1. /\ at = "preparing" /\ error = "none"
      /\ UNCHANGED <<req, cancels, prompt, ids, unit, misses, late, recall, missed>>
  BY DEF ReadGraph, ImageInv, PhaseInv, BeforeTheRuns
<1>2. PICK graph :
        /\ IF run(graph).error = "none" THEN GoesOn("submitting") ELSE Fails(run(graph).error)
        /\ made' = [used |-> run(graph).used, ratio |-> run(graph).ratio,
                    edited |-> graph # Workflow.graph]
  BY DEF ReadGraph
<1>3. run(graph).error \in {"none", "Unhandled", "WorkflowInvalid", "UnsupportedOperation"}
  BY DEF PrepareWorkflow
<1>4. \/ at' = "raised" /\ error' \in {"Unhandled", "WorkflowInvalid", "UnsupportedOperation"}
      \/ at' = "submitting" /\ error' = error /\ run(graph).error = "none"
  BY <1>2, <1>3 DEF GoesOn, Fails
<1>5. at \in Backstage /\ at' \in Backstage \cup {"raised", "rendered"} /\ error' \in Errors
  BY <1>1, <1>4 DEF Backstage, Errors
<1>6. cancels \in Nat
  BY DEF ImageInv, RequestTypes
<1>7. /\ (RequestTypes /\ GateInv /\ FileInv)'
      /\ Units' = Units /\ Workflow' = Workflow
      /\ IsVideo' <=> IsVideo
      /\ Pictures' <=> Pictures
      /\ \A s : ~ Outcome(s)'
  BY <1>1, <1>5, <1>6, BatchKeeps
<1>8. (UnitTypes /\ PhaseInv)'
  BY <1>1, <1>4, <1>7, BackstageFacts, <1>5
  DEF ImageInv, UnitTypes, PhaseInv, BeforeTheRuns, Backstage
<1>9. UnitInv'
  BY <1>1, <1>4, <1>7, BackstageFacts, <1>5 DEF ImageInv, UnitInv, BeforeTheRuns, Live
<1>10. PromptInv'
  <2>1. req.n \in Runs /\ ids = {}
    BY <1>1, <1>5, BackstageFacts DEF ImageInv, PromptInv
  <2>2. 0 \in 0 .. req.n - 1 /\ ids = 1 .. 0
    BY <2>1, ImageAssumption DEF Runs
  <2>3. QED
    BY <1>1, <1>4, <1>7, <2>1, <2>2 DEF ImageInv, PromptInv, Given
<1>11. at' = "submitting" /\ Pictures => Truthful'
  <2>1. SUFFICES ASSUME at' = "submitting", Pictures PROVE Truthful'
    OBVIOUS
  <2>2. /\ req.model \in DOMAIN ScanWorkflows(Files)
        /\ req.route = "edits" => Workflow.meta.slots # <<>>
    BY <1>1 DEF ImageInv, MadeInv
  <2>3. PICK file0 : Workflow = WorkflowRecord(file0)
    BY <2>2 DEF Workflow, ScanWorkflows
  <2>4. images = Len(req.uploads)
    <3>1. req \in Requests
      BY <1>5, BackstageFacts
    <3>2. CASE req.route = "generations"
      BY <3>1, <3>2, ImageAssumption
    <3>3. CASE req.route = "edits"
      BY <2>2, <3>3
    <3>4. QED
      BY <2>1, <3>2, <3>3 DEF Pictures
  <2>5. /\ made'.used = run(graph).used /\ made'.ratio = run(graph).ratio
        /\ made'.edited = (graph # Workflow.graph)
    BY <1>2
  <2>6. run(graph).error = "none"
    BY <1>4, <2>1
  <2>7. LET echo == EffectiveAspectRatio(Workflow, req.ratio)
        IN  /\ run(graph).used = images
            /\ echo = NoRatio \/ graph # Workflow.graph \/ run(graph).ratio = echo
    BY <2>3, <2>6, PreparedFacts
  <2>8. req' = req
    BY <1>1
  <2>9. QED
    BY <1>7, <2>4, <2>5, <2>7, <2>8 DEF Truthful
<1>12. MadeInv'
  BY <1>1, <1>4, <1>7, <1>11 DEF ImageInv, MadeInv
<1>13. QED
  BY <1>7, <1>8, <1>9, <1>10, <1>12 DEF ImageInv
LEMMA SubmitKeeps ==
  ASSUME ImageInv, Submit, UNCHANGED <<gateVars, file, answer>>
  PROVE  ImageInv'
<1> DEFINE u == Cardinality(ids) + 1
<1>1. /\ at = "submitting" /\ error = "none" /\ at \in Backstage
      /\ UNCHANGED <<req, cancels, misses, late, made, recall, missed>>
      /\ \A v \in Runs : unit[v] = "idle"
  BY DEF Submit, ImageInv, PhaseInv, UnitInv, BeforeTheRuns, Backstage
<1>2. /\ req.n \in Runs /\ Units \subseteq Runs /\ cancels \in Nat
      /\ req.provider = "comfyui" /\ req.route # "chat" /\ req # NoRequest
  BY <1>1, BackstageFacts DEF ImageInv, RequestTypes
<1>3. PICK k \in 0 .. req.n - 1 : ids = 1 .. k
  BY <1>1 DEF ImageInv, PromptInv
<1>4. u = k + 1 /\ u \in Units /\ u \in Runs /\ ids \cup {u} = 1 .. u
  <2>1. req.n \in Nat /\ k \in Nat /\ k <= req.n - 1
    BY <1>2, <1>3, ImageAssumption DEF Runs
  <2>2. Cardinality(1 .. k) = k
    <3>1. Cardinality(1 .. k) = IF 1 > k THEN 0 ELSE k - 1 + 1
      BY <2>1, FS_Interval
    <3>2. QED
      BY <2>1, <3>1
  <2>3. u = k + 1
    BY <1>3, <2>2
  <2>4. u \in Units
    BY <2>1, <2>3 DEF Units
  <2>5. ids \cup {u} = 1 .. u
    BY <1>3, <2>1, <2>3
  <2>6. QED
    BY <1>2, <2>3, <2>4, <2>5
<1> HIDE DEF u
<1>5. \/ /\ ids' = ids \cup {u} /\ prompt' = [prompt EXCEPT ![u] = "pending"] /\ error' = error
         /\ at' = IF IsVideo THEN "saving" ELSE IF u = req.n THEN "collecting" ELSE at
         /\ unit' = IF u = req.n /\ ~IsVideo THEN Start ELSE unit
      \/ /\ error' \in {"UpstreamError", "UpstreamAuthError", "WorkflowInvalid", "Unhandled"}
         /\ prompt' \in {prompt, [prompt EXCEPT ![u] = "pending"]}
         /\ at' = IF ids = {} THEN "raised" ELSE "discarding"
         /\ UNCHANGED <<ids, unit>>
  BY DEF Submit, GoesOn, u
<1>6. at' \in Backstage \cup {"raised", "rendered"} /\ error' \in Errors
  BY <1>1, <1>5 DEF Backstage, Errors
<1>7. /\ (RequestTypes /\ GateInv /\ FileInv)'
      /\ Units' = Units /\ Workflow' = Workflow
      /\ IsVideo' <=> IsVideo
      /\ Pictures' <=> Pictures
      /\ \A s : ~ Outcome(s)'
  BY <1>1, <1>2, <1>6, BatchKeeps
<1>8. UnitTypes'
  BY <1>1, <1>5, <1>4 DEF ImageInv, UnitTypes, PromptStates, Start, Live
<1>9. PhaseInv'
  BY <1>1, <1>2, <1>5, <1>7 DEF ImageInv, PhaseInv, BeforeTheRuns, Backstage
<1>10. UnitInv'
  BY <1>1, <1>2, <1>5, <1>7 DEF ImageInv, UnitInv, BeforeTheRuns, Live, Lost, Start
<1>11. PromptInv'
  <2>1. /\ ids' \subseteq Runs /\ ids' \subseteq Units /\ ids' \in {ids, ids \cup {u}}
        /\ at' \in {"submitting", "saving", "collecting", "raised", "discarding"}
        /\ at' = "raised" => ids' = {}
    BY <1>1, <1>4, <1>5 DEF ImageInv, PromptInv
  <2>2. at' = "submitting" => \E j \in 0 .. req.n - 1 : ids' = 1 .. j
    <3>1. SUFFICES ASSUME at' = "submitting" PROVE u \in 0 .. req.n - 1 /\ ids' = 1 .. u
      OBVIOUS
    <3>2. u # req.n /\ ids' = 1 .. u
      BY <1>4, <1>5, <3>1
    <3>3. QED
      BY <1>2, <1>4, <3>2, ImageAssumption DEF Units, Runs
  <2>3. QED
    BY <1>1, <1>2, <1>7, <2>1, <2>2 DEF PromptInv, Given
<1>12. MadeInv'
  BY <1>1, <1>5, <1>7, Frame DEF ImageInv, MadeInv
<1>13. QED
  BY <1>7, <1>8, <1>9, <1>10, <1>11, <1>12 DEF ImageInv

LEMMA SavedKeeps ==
  ASSUME ImageInv, Saved, UNCHANGED <<gateVars, file, answer>>
  PROVE  ImageInv'
<1>1. /\ at = "saving" /\ error = "none" /\ at \in Backstage /\ IsVideo
      /\ UNCHANGED <<req, cancels, prompt, ids, misses, late, made, recall, missed>>
      /\ \A v \in Runs : unit[v] = "idle"
  BY DEF Saved, ImageInv, PhaseInv, UnitInv, BeforeTheRuns, Backstage
<1>2. /\ Units \subseteq Runs /\ cancels \in Nat
      /\ req.provider = "comfyui" /\ req.route # "chat" /\ req # NoRequest
  BY <1>1, BackstageFacts DEF ImageInv, RequestTypes
<1>3. \/ at' = "collecting" /\ error' = error /\ unit' = Start
      \/ at' = "raised" /\ error' = "Unhandled" /\ UNCHANGED unit
  BY DEF Saved, GoesOn, Fails
<1>4. at' \in Backstage \cup {"raised", "rendered"} /\ error' \in Errors
  BY <1>1, <1>3 DEF Backstage, Errors
<1>5. /\ (RequestTypes /\ GateInv /\ FileInv)'
      /\ Units' = Units /\ Workflow' = Workflow
      /\ IsVideo' <=> IsVideo
      /\ Pictures' <=> Pictures
      /\ \A s : ~ Outcome(s)'
  BY <1>1, <1>2, <1>4, BatchKeeps
<1>6. (UnitTypes /\ PhaseInv)'
  BY <1>1, <1>2, <1>3, <1>5
  DEF ImageInv, UnitTypes, PhaseInv, BeforeTheRuns, Start, Live, Backstage
<1>7. UnitInv'
  BY <1>1, <1>2, <1>3, <1>5 DEF ImageInv, UnitInv, BeforeTheRuns, Live, Lost, Start
<1>8. PromptInv'
  BY <1>1, <1>3, <1>5 DEF ImageInv, PromptInv, Given
<1>9. MadeInv'
  BY <1>1, <1>3, <1>5 DEF ImageInv, MadeInv, IsVideo, Pictures
<1>10. QED
  BY <1>5, <1>6, <1>7, <1>8, <1>9 DEF ImageInv

LEMMA UnwindKeeps ==
  ASSUME ImageInv, Unwind, UNCHANGED <<gateVars, file, answer>>
  PROVE  ImageInv'
<1>1. /\ at = "collecting" /\ error # "none" /\ at \in Backstage
      /\ UNCHANGED <<req, error, cancels, prompt, ids, misses, late, made, recall, missed>>
      /\ at' = IF IsVideo THEN "discarding" ELSE "unwinding"
      /\ unit' = CancelledUnits
  BY DEF Unwind, Backstage
<1>2. /\ Units \subseteq Runs /\ cancels \in Nat
      /\ req.provider = "comfyui" /\ req.route # "chat" /\ req # NoRequest /\ req \in Requests
  BY <1>1, BackstageFacts DEF ImageInv, RequestTypes
<1>3. at' \in Backstage \cup {"raised", "rendered"} /\ error' \in Errors
  BY <1>1 DEF Backstage, ImageInv, RequestTypes
<1>4. /\ (RequestTypes /\ GateInv /\ FileInv)'
      /\ Units' = Units /\ Workflow' = Workflow
      /\ IsVideo' <=> IsVideo
      /\ Pictures' <=> Pictures
      /\ \A s : ~ Outcome(s)'
  BY <1>1, <1>2, <1>3, BatchKeeps
<1>5. (UnitTypes /\ PhaseInv)'
  BY <1>1, <1>2, <1>4
  DEF ImageInv, UnitTypes, PhaseInv, BeforeTheRuns, CancelledUnits, Live, Backstage
<1>6. \A v \in Runs : unit'[v] = IF unit[v] \in Live THEN "cancelling" ELSE unit[v]
  BY <1>1 DEF CancelledUnits
<1>7. IsVideo => \A v \in Runs : unit[v] \notin Live \cup {"cancelling"}
  <2>1. SUFFICES ASSUME IsVideo, NEW v \in Runs, unit[v] # "idle" PROVE unit[v] \in Lost
    BY DEF Live, Lost
  <2>2. Units = {1}
    BY <1>2, <2>1, ImageAssumption DEF IsVideo, Units
  <2>3. v \in Units /\ \E w \in Units : unit[w] \in Lost
    BY <1>1, <2>1 DEF ImageInv, UnitInv, BeforeTheRuns
  <2>4. QED
    BY <2>2, <2>3
<1>8. UnitInv'
  BY <1>1, <1>2, <1>4, <1>6, <1>7 DEF ImageInv, UnitInv, BeforeTheRuns, Live, Lost
<1>9. PromptInv'
  BY <1>1, <1>4 DEF ImageInv, PromptInv, Given
<1>10. MadeInv'
  BY <1>1, <1>4 DEF ImageInv, MadeInv
<1>11. QED
  BY <1>4, <1>5, <1>8, <1>9, <1>10 DEF ImageInv
(* A collector, or the task of an image, goes on or fails.                 *)
LEMMA UnitMoves ==
  ASSUME ImageInv, NEW u \in Runs, unit[u] \in Live,
         NEW how \in Live \cup Lost \cup {"done"}, unit' = [unit EXCEPT ![u] = how],
         UNCHANGED <<at, req, cancels, prompt, ids, late, made, recall, gateVars, file, answer>>,
         \/ error' = error
         \/ /\ error = "none" /\ error' \in Errors /\ (error' = "GenerationTimeout" => late)
            /\ how = "failed" \/ (how \in Lost /\ req.provider = "comfyui"),
         how \in {"polling", "rechecking"} => req.provider = "comfyui",
         how = "generating" => req.provider # "comfyui",
         how \in {"fetching", "done"} /\ req.provider = "comfyui" => prompt[u] = "finished",
         how = "dropped" => missed'[u] >= MissThreshold,
         missed' \in [Runs -> Nat], misses' = missed', \A v \in Runs \ {u} : missed'[v] = missed[v]
  PROVE  ImageInv'
<1> USE DEF gateVars
<1>1. /\ Units' = Units /\ Workflow' = Workflow
      /\ IsVideo' <=> IsVideo
      /\ Pictures' <=> Pictures
      /\ Truthful' <=> Truthful
  BY Frame
<1>2. \A s : Outcome(s)' <=> Outcome(s)
  BY DEF Outcome
<1>3. /\ unit'[u] = how /\ \A v \in Runs \ {u} : unit'[v] = unit[v]
      /\ u \in Units /\ req.route # "chat" /\ req # NoRequest /\ Units \subseteq Runs
  BY UnitsFacts DEF ImageInv, UnitTypes, UnitInv, BeforeTheRuns, Live
<1>4. unit[u] \notin Lost \cup {"done", "idle"} /\ how \notin {"idle", "cancelling"}
  BY DEF Live, Lost
<1>5. at \notin BeforeTheRuns \cup {"idle", "reading", "rendered", "storing"} /\ ~ Outcome(200)
  BY <1>3, <1>4 DEF ImageInv, UnitInv, BeforeTheRuns, GateInv
<1>6. RequestTypes'
  BY DEF ImageInv, RequestTypes
<1>7. UnitTypes'
  BY <1>3 DEF ImageInv, UnitTypes
<1>8. GateInv'
  BY <1>1, <1>2, <1>5 DEF ImageInv, GateInv, Once
<1>9. PhaseInv'
  BY <1>1, <1>5 DEF ImageInv, PhaseInv, BeforeTheRuns
<1>10. UnitInv'
  <2>1. /\ \A v \in Units : unit[v] \in Lost => unit'[v] = unit[v]
        /\ error' # error => error = "none" /\ unit'[u] \in Lost
                             /\ (at = "fanning" => unit'[u] = "failed")
    BY <1>3, <1>4 DEF ImageInv, PhaseInv, BeforeTheRuns, Lost
  <2>2. /\ at = "fanning" /\ error' # "none" => \E v \in Units : unit'[v] = "failed"
        /\ at = "collecting" /\ error' # "none" /\ (cancels = 0 \/ IsVideo)
             => \E v \in Units : unit'[v] \in Lost
    BY <1>3, <2>1 DEF ImageInv, UnitInv, BeforeTheRuns, Lost
  <2>3. \A v \in Runs : unit'[v] \in Live =>
          \/ at \in {"fanning", "collecting"}
          \/ req.provider = "fal" /\ \E w \in Units : unit'[w] = "failed"
    BY <1>3, <2>1 DEF ImageInv, UnitInv, BeforeTheRuns, Lost
  <2>4. QED
    BY <1>1, <1>2, <1>3, <1>4, <1>5, <2>2, <2>3 DEF ImageInv, UnitInv, BeforeTheRuns
<1>11. FileInv' /\ PromptInv' /\ MadeInv'
  BY <1>1, <1>2, <1>3, <1>4 DEF ImageInv, FileInv, PromptInv, Given, MadeInv
<1>12. QED
  BY <1>6, <1>7, <1>8, <1>9, <1>10, <1>11 DEF ImageInv

LEMMA CollectorsKeep ==
  ASSUME ImageInv, NEW u \in Runs, CollectorStep(u), UNCHANGED <<gateVars, file, answer>>
  PROVE  ImageInv'
<1> USE DEF Live, Lost, Errors
<1>1. /\ unit \in [Runs -> {"idle", "done", "cancelling", "cancelled"} \cup Live \cup Lost]
      /\ missed \in [Runs -> Nat] /\ misses = missed /\ error \in Errors
      /\ unit[u] \in {"polling", "rechecking"} => req.provider = "comfyui"
      /\ unit[u] = "fetching" /\ req.provider = "comfyui" => prompt[u] = "finished"
  BY DEF ImageInv, RequestTypes, UnitTypes, UnitInv, BeforeTheRuns
<1>2. CASE Poll(u)
  <2>1. CASE UnitFails(u, "late", "GenerationTimeout") /\ late
    BY <1>1, <1>2, <2>1, UnitMoves DEF Poll, UnitFails
  <2>2. CASE prompt[u] = "finished" /\ unit' = [unit EXCEPT ![u] = "fetching"] /\ UNCHANGED error
    BY <1>1, <1>2, <2>2, UnitMoves DEF Poll
  <2>3. CASE UnitFails(u, "failed", "UpstreamError") \/ UnitFails(u, "failed", "Unhandled")
    BY <1>1, <1>2, <2>3, UnitMoves DEF Poll, UnitFails
  <2>4. CASE unit' = [unit EXCEPT ![u] = "rechecking"] /\ UNCHANGED error
    BY <1>1, <1>2, <2>4, UnitMoves DEF Poll
  <2>5. QED
    BY <1>2, <2>1, <2>2, <2>3, <2>4 DEF Poll
<1>3. CASE Tracked(u)
  BY <1>1, <1>3, UnitMoves DEF Tracked
<1>4. CASE Flaky(u)
  BY <1>1, <1>4, UnitMoves DEF Flaky, UnitFails
<1>5. CASE Missing(u)
  BY <1>1, <1>5, UnitMoves DEF Missing, UnitFails
<1>6. CASE Download(u)
  BY <1>1, <1>6, UnitMoves DEF Download, UnitFails
<1>7. CASE Ends(u)
  BY <1>7, Frame
  DEF Ends, ImageInv, RequestTypes, UnitTypes, GateInv, PhaseInv, UnitInv, BeforeTheRuns, FileInv,
      PromptInv, Given, MadeInv, Once, Outcome, gateVars
<1>8. QED
  BY <1>2, <1>3, <1>4, <1>5, <1>6, <1>7 DEF CollectorStep

LEMMA ComfyWorksKeeps ==
  ASSUME ImageInv, NEW u \in Runs, ComfyWorks(u), UNCHANGED <<gateVars, file, answer>>
  PROVE  ImageInv'
<1> USE DEF gateVars
<1>1. /\ UNCHANGED <<at, req, error, cancels, ids, unit, misses, late, made, recall, missed>>
      /\ prompt[u] \in {"pending", "running"}
      /\ \E how \in {"running", "finished", "failed", "lost"} : prompt' = [prompt EXCEPT ![u] = how]
  BY DEF ComfyWorks
<1>2. /\ prompt' \in [Runs -> PromptStates]
      /\ \A v \in Runs : /\ prompt'[v] = "pending" => prompt[v] = "pending"
                         /\ prompt[v] = "finished" => prompt'[v] = "finished"
  BY <1>1 DEF ImageInv, UnitTypes, PromptStates
<1>3. /\ Units' = Units /\ Workflow' = Workflow
      /\ IsVideo' <=> IsVideo
      /\ Pictures' <=> Pictures
      /\ Truthful' <=> Truthful
      /\ \A s : Outcome(s)' <=> Outcome(s)
  BY <1>1, Frame DEF Outcome
<1>4. (RequestTypes /\ UnitTypes /\ GateInv /\ PhaseInv)'
  BY <1>1, <1>2, <1>3
  DEF ImageInv, RequestTypes, UnitTypes, GateInv, PhaseInv, BeforeTheRuns, Once
<1>5. (UnitInv /\ FileInv /\ PromptInv /\ MadeInv)'
  BY <1>1, <1>2, <1>3 DEF ImageInv, UnitInv, BeforeTheRuns, FileInv, PromptInv, Given, MadeInv
<1>6. QED
  BY <1>4, <1>5 DEF ImageInv

(* The steps that each part of the invariant survives at sight.            *)
LEMMA BatchEndsKeep ==
  ASSUME ImageInv, UNCHANGED <<gateVars, file, answer>>,
         Uploaded \/ Collected \/ Unwound \/ Discarded \/ BudgetEnds
  PROVE  ImageInv'
<1> USE DEF ImageInv, RequestTypes, UnitTypes, GateInv, PhaseInv, UnitInv, FileInv, PromptInv,
            Given, MadeInv, BeforeTheRuns, Once, Outcome, Live, Lost, Waiting, Backstage,
            Places, Errors, GoesOn, Fails, comfyVars, gateVars
<1>1. CASE Uploaded
  BY <1>1, Frame DEF Uploaded
<1>2. CASE Collected
  BY <1>2, Frame DEF Collected
<1>3. CASE Unwound
  BY <1>3, Frame DEF Unwound, Abandoned
<1>4. CASE Discarded
  BY <1>4, Frame DEF Discarded, Recalled, Abandoned, PromptStates
<1>5. CASE BudgetEnds
  BY <1>5, Frame DEF BudgetEnds
<1>6. QED
  BY <1>1, <1>2, <1>3, <1>4, <1>5
-----------------------------------------------------------------------------
(* The other backends.                                                     *)
LEMMA CalledKeeps ==
  ASSUME ImageInv, Called
  PROVE  ImageInv'
<1> USE DEF gateVars
<1>1. /\ at = "calling" /\ error = "none" /\ req.provider = "fal" /\ req.route # "chat"
      /\ req # NoRequest /\ answer = <<>>
      /\ \A v \in Runs : unit[v] = "idle"
      /\ UNCHANGED <<req, cancels, prompt, ids, misses, late, made, recall, missed>>
      /\ UNCHANGED <<gateVars, file, answer>>
  BY DEF Called, otherVars, ImageInv, PhaseInv, UnitInv, BeforeTheRuns, GateInv
<1>2. PICK reply \in Replies :
        IF RequestUpstream(reply) = "ok"
        THEN /\ GoesOn("fanning")
             /\ unit' = [u \in Runs |-> IF u \in Units THEN "fetching" ELSE "idle"]
        ELSE Fails(RequestUpstream(reply)) /\ UNCHANGED unit
  BY DEF Called
<1>3. \/ /\ at' = "fanning" /\ error' = "none"
         /\ unit' = [u \in Runs |-> IF u \in Units THEN "fetching" ELSE "idle"]
      \/ at' = "raised" /\ error' \in FromUpstream /\ UNCHANGED unit
  BY <1>1, <1>2, VerdictFacts DEF GoesOn, Fails
<1>4. /\ Units' = Units /\ Workflow' = Workflow
      /\ IsVideo' <=> IsVideo
      /\ Pictures' <=> Pictures
      /\ Truthful' <=> Truthful
      /\ \A s : ~ Outcome(s) /\ ~ Outcome(s)'
  BY <1>1, Frame DEF Outcome
<1>5. (RequestTypes /\ UnitTypes)'
  BY <1>1, <1>3 DEF ImageInv, RequestTypes, UnitTypes, Places, Waiting, Errors, FromUpstream, Live
<1>6. (GateInv /\ PhaseInv)'
  BY <1>1, <1>3, <1>4
  DEF ImageInv, GateInv, PhaseInv, BeforeTheRuns, Once, Backstage, FromUpstream
<1>7. UnitInv'
  BY <1>1, <1>3, <1>4 DEF ImageInv, UnitInv, BeforeTheRuns, Live, Lost
<1>8. (FileInv /\ PromptInv /\ MadeInv)'
  BY <1>1, <1>3, <1>4 DEF ImageInv, FileInv, PromptInv, Given, MadeInv
<1>9. QED
  BY <1>5, <1>6, <1>7, <1>8 DEF ImageInv

LEMMA FanMovesKeep ==
  ASSUME ImageInv, NEW u \in Runs, Generated(u) \/ FetchedImage(u)
  PROVE  ImageInv'
<1> USE DEF Live, Lost, Errors
<1>1. /\ missed \in [Runs -> Nat] /\ misses = missed /\ error \in Errors
      /\ unit[u] = "generating" => req.provider # "comfyui"
  BY DEF ImageInv, RequestTypes, UnitTypes, UnitInv, BeforeTheRuns
<1>2. CASE Generated(u)
  <2>1. /\ unit[u] = "generating"
        /\ UNCHANGED <<at, req, cancels, prompt, ids, misses, late, made, recall, missed>>
        /\ UNCHANGED <<gateVars, file, answer>>
    BY <1>2 DEF Generated, otherVars
  <2>2. PICK reply \in Replies :
          IF RequestUpstream(reply) = "ok"
          THEN unit' = [unit EXCEPT ![u] = "fetching"] /\ UNCHANGED error
          ELSE UnitFails(u, "failed", RequestUpstream(reply))
    BY <1>2 DEF Generated
  <2>3. CASE unit' = [unit EXCEPT ![u] = "fetching"] /\ UNCHANGED error
    BY <1>1, <2>1, <2>3, UnitMoves
  <2>4. CASE /\ UnitFails(u, "failed", RequestUpstream(reply))
             /\ RequestUpstream(reply) \in FromUpstream
    BY <1>1, <2>1, <2>4, UnitMoves DEF UnitFails, FromUpstream
  <2>5. QED
    BY <2>2, <2>3, <2>4, VerdictFacts
<1>3. CASE FetchedImage(u)
  BY <1>1, <1>3, UnitMoves DEF FetchedImage, otherVars, UnitFails
<1>4. QED
  BY <1>2, <1>3

LEMMA FanEndsKeep ==
  ASSUME ImageInv, FannedIn \/ FanFails \/ AllEnded \/ StreamEnds
  PROVE  ImageInv'
<1> USE DEF ImageInv, RequestTypes, UnitTypes, GateInv, PhaseInv, UnitInv, FileInv, PromptInv,
            Given, MadeInv, BeforeTheRuns, Once, Outcome, Live, Lost, Waiting, Backstage,
            Places, GoesOn, comfyVars, gateVars, otherVars
<1>1. CASE FannedIn
  BY <1>1, Frame DEF FannedIn
<1>2. CASE FanFails
  <2>1. CASE req.provider = "fal"
    BY <1>2, <2>1, Frame DEF FanFails
  <2>2. CASE req.provider # "fal"
    <3>1. /\ at' = "failing"
          /\ \A u \in Runs : unit'[u] = IF unit[u] \in Live THEN "cancelling" ELSE unit[u]
      BY <1>2, <2>2 DEF FanFails, CancelledUnits
    <3>2. (RequestTypes /\ UnitTypes /\ GateInv /\ PhaseInv)'
      BY <1>2, <2>2, <3>1, Frame DEF FanFails, CancelledUnits
    <3>3. UnitInv'
      BY <1>2, <2>2, <3>1, Frame DEF FanFails
    <3>4. (FileInv /\ PromptInv /\ MadeInv)'
      BY <1>2, <2>2, <3>1, Frame DEF FanFails
    <3>5. QED
      BY <3>2, <3>3, <3>4
  <2>3. QED
    BY <2>1, <2>2
<1>3. CASE AllEnded
  BY <1>3, Frame DEF AllEnded
<1>4. CASE StreamEnds
  BY <1>4, Frame DEF StreamEnds
<1>5. QED
  BY <1>1, <1>2, <1>3, <1>4

LEMMA ForwardedKeeps ==
  ASSUME ImageInv, Forwarded
  PROVE  ImageInv'
<1> USE DEF gateVars
<1>1. /\ at = "forwarding" /\ error = "none" /\ req.route = "chat"
      /\ req # NoRequest /\ answer = <<>> /\ ~ exceeded
      /\ \A v \in Runs : unit[v] = "idle" /\ file[v] # "writing"
      /\ UNCHANGED <<unit, req, cancels, prompt, ids, misses, late, made, recall, missed>>
      /\ UNCHANGED <<gateVars, file>>
  BY DEF Forwarded, otherVars, ImageInv, PhaseInv, UnitInv, BeforeTheRuns, GateInv, FileInv
<1>2. PICK reply \in Replies, object \in BOOLEAN :
       LET verdict == IF req.stream THEN OpenStream(reply) ELSE RawBody(reply, object)
       IN  CASE verdict # "ok" -> Fails(verdict) /\ UNCHANGED answer
             [] verdict = "ok" /\ req.stream -> GoesOn("streaming") /\ answer' = Append(answer, 200)
             [] OTHER -> GoesOn("rendered") /\ UNCHANGED answer
  BY DEF Forwarded
<1>3. /\ OpenStream(reply) \in FromUpstream \cup {"ok"}
      /\ RawBody(reply, object) \in FromUpstream \cup {"ok"}
  BY VerdictFacts
<1>4. \/ at' = "raised" /\ error' \in FromUpstream /\ answer' = <<>>
      \/ at' = "streaming" /\ error' = error /\ answer' = <<200>>
      \/ at' = "rendered" /\ error' = error /\ answer' = <<>>
  BY <1>1, <1>2, <1>3 DEF GoesOn, Fails
<1>5. /\ Units' = Units /\ Workflow' = Workflow
      /\ IsVideo' <=> IsVideo
      /\ Pictures' <=> Pictures
      /\ Truthful' <=> Truthful
      /\ ~ Pictures /\ ~ IsVideo
      /\ Once' /\ \A s : Outcome(s)' => s = 200
  BY <1>1, <1>4, Frame DEF Outcome, Pictures, IsVideo, Once
<1>6. (RequestTypes /\ UnitTypes)'
  BY <1>1, <1>4 DEF ImageInv, RequestTypes, UnitTypes, Places, Waiting, Errors, FromUpstream
<1>7. (GateInv /\ PhaseInv)'
  BY <1>1, <1>4, <1>5 DEF ImageInv, GateInv, PhaseInv, BeforeTheRuns, Backstage, FromUpstream
<1>8. (UnitInv /\ FileInv)'
  BY <1>1, <1>4, <1>5 DEF ImageInv, UnitInv, BeforeTheRuns, FileInv, Live
<1>9. (PromptInv /\ MadeInv)'
  BY <1>1, <1>4, <1>5 DEF ImageInv, PromptInv, Given, MadeInv
<1>10. QED
  BY <1>6, <1>7, <1>8, <1>9 DEF ImageInv
-----------------------------------------------------------------------------
(* The files and the answer.                                               *)
LEMMA StoreKeeps ==
  ASSUME ImageInv, Store
  PROVE  ImageInv'
<1> USE DEF gateVars
<1>1. /\ at = "rendered" /\ Pictures /\ req.format = "url" /\ at' = "storing" /\ answer = <<>>
      /\ file' = [u \in Runs |-> IF u \in Units THEN "writing" ELSE "none"]
      /\ UNCHANGED <<req, error, cancels, comfyVars, gateVars, answer>>
  BY DEF Store, fileOnly, Pictures, ImageInv, GateInv
<1>2. /\ Units' = Units /\ Workflow' = Workflow
      /\ IsVideo' <=> IsVideo
      /\ Pictures' <=> Pictures
      /\ Truthful' <=> Truthful
      /\ \A s : ~ Outcome(s) /\ ~ Outcome(s)'
  BY <1>1, Frame DEF Outcome, comfyVars
<1>3. ~ IsVideo /\ req.route # "chat" /\ req # NoRequest
  BY <1>1, NoRequestRoute DEF Pictures, IsVideo
<1>4. (RequestTypes /\ UnitTypes)'
  BY <1>1 DEF ImageInv, RequestTypes, UnitTypes, Places, Waiting, comfyVars
<1>5. (GateInv /\ PhaseInv)'
  BY <1>1, <1>2, <1>3 DEF ImageInv, GateInv, PhaseInv, BeforeTheRuns, Once, Backstage, comfyVars
<1>6. (UnitInv /\ FileInv)'
  BY <1>1, <1>2, <1>3 DEF ImageInv, UnitInv, BeforeTheRuns, FileInv, comfyVars
<1>7. (PromptInv /\ MadeInv)'
  BY <1>1, <1>2, <1>3 DEF ImageInv, PromptInv, Given, MadeInv, comfyVars
<1>8. QED
  BY <1>4, <1>5, <1>6, <1>7 DEF ImageInv

LEMMA FilesKeep ==
  ASSUME ImageInv, at = "storing", at' \in {"storing", "failing"}, error' \in Errors,
         at' = "failing" => error' # "none",
         error' # error => error' = "Unhandled",
         file' \in [Runs -> {"none", "writing", "stored", "failed", "cancelling"}],
         \A u \in Runs :
           /\ file'[u] = "writing" => at' = "storing" /\ file[u] = "writing"
           /\ file'[u] = "cancelling" => at' = "failing" \/ file[u] = "cancelling",
         UNCHANGED <<req, cancels, comfyVars, gateVars, answer>>
  PROVE  ImageInv'
<1> USE DEF gateVars, comfyVars
<1>1. /\ Units' = Units /\ Workflow' = Workflow
      /\ IsVideo' <=> IsVideo
      /\ Pictures' <=> Pictures
      /\ Truthful' <=> Truthful
  BY Frame
<1>2. answer = <<>> /\ \A s : ~ Outcome(s) /\ ~ Outcome(s)'
  BY DEF ImageInv, GateInv, Outcome
<1>3. (RequestTypes /\ UnitTypes)'
  BY DEF ImageInv, RequestTypes, UnitTypes, Places, Waiting
<1>4. (GateInv /\ PhaseInv)'
  BY <1>1, <1>2 DEF ImageInv, GateInv, PhaseInv, BeforeTheRuns, Once, Backstage
<1>5. UnitInv'
  BY <1>1, <1>2 DEF ImageInv, UnitInv, BeforeTheRuns, Live
<1>6. FileInv'
  BY <1>1, <1>2 DEF ImageInv, FileInv
<1>7. (PromptInv /\ MadeInv)'
  BY <1>1, <1>2 DEF ImageInv, PromptInv, Given, MadeInv
<1>8. QED
  BY <1>3, <1>4, <1>5, <1>6, <1>7 DEF ImageInv

LEMMA PutsKeep ==
  ASSUME ImageInv, PutsFail \/ \E u \in Runs : Put(u)
  PROVE  ImageInv'
<1>1. /\ error \in Errors
      /\ file \in [Runs -> {"none", "writing", "stored", "failed", "cancelling"}]
      /\ \A u \in Runs : file[u] = "writing" => at = "storing"
  BY DEF ImageInv, RequestTypes, UnitTypes, FileInv
<1>2. CASE PutsFail
  BY <1>1, <1>2, FilesKeep DEF PutsFail, CancelledPuts, fileOnly
<1>3. ASSUME NEW u \in Runs, Put(u) PROVE ImageInv'
  BY <1>1, <1>3, FilesKeep DEF Put, Errors
<1>4. QED
  BY <1>2, <1>3

LEMMA PutEndsKeeps ==
  ASSUME ImageInv, Leave \/ \E u \in Runs : PutEnds(u)
  PROVE  ImageInv'
<1> USE DEF ImageInv, RequestTypes, UnitTypes, GateInv, PhaseInv, UnitInv, FileInv, PromptInv,
            Given, MadeInv, BeforeTheRuns, Once, Outcome, Live, Lost, Waiting, Backstage,
            Places, Errors, GoesOn, comfyVars, gateVars, fileOnly
<1>1. CASE Leave
  BY <1>1, Frame DEF Leave
<1>2. ASSUME NEW u \in Runs, PutEnds(u) PROVE ImageInv'
  BY <1>2, Frame DEF PutEnds
<1>3. QED
  BY <1>1, <1>2

LEMMA AnswerKeeps ==
  ASSUME ImageInv, AnswerImages \/ AnswerError
  PROVE  ImageInv'
<1> USE DEF gateVars
<1>1. /\ at \in {"raised", "rendered", "storing"} /\ at' = "answered" /\ ~ IsVideo
      /\ UNCHANGED <<req, error, cancels, comfyVars, gateVars, file>>
      /\ error # "Cancelled" \/ at # "raised"
  BY DEF AnswerImages, AnswerError, Send, fileOnly, IsVideo, ImageInv, PhaseInv, BeforeTheRuns,
         Pictures
<1>2. answer = <<>> /\ ~ exceeded /\ error \in Errors
  BY <1>1 DEF ImageInv, GateInv, RequestTypes
<1>3. PICK status :
        /\ Send(status)
        /\ \/ /\ at \in {"rendered", "storing"} /\ status = 200
              /\ Pictures /\ req.format = "url" => \A u \in Units : file[u] = "stored"
           \/ at = "raised" /\ error # "none" /\ status = StatusOf(error)
  <2>1. CASE AnswerImages /\ at = "storing"
    BY <2>1 DEF AnswerImages
  <2>2. CASE AnswerImages /\ at = "rendered"
    BY <2>2 DEF AnswerImages, Pictures
  <2>3. CASE AnswerError
    BY <2>3 DEF AnswerError, ImageInv, PhaseInv, BeforeTheRuns
  <2>4. QED
    BY <2>1, <2>2, <2>3 DEF AnswerImages
<1>4. /\ answer' = <<status>> /\ status \notin {401, 413}
      /\ status = 504 => late
      /\ status = 200 => /\ at \in {"rendered", "storing"}
                         /\ Pictures /\ req.format = "url" => \A u \in Units : file[u] = "stored"
  <2>1. answer' = <<status>>
    BY <1>1, <1>2, <1>3, SendFacts
  <2>2. CASE status = 200 /\ at \in {"rendered", "storing"}
                         /\ (Pictures /\ req.format = "url" => \A u \in Units : file[u] = "stored")
    BY <2>1, <2>2
  <2>3. CASE at = "raised" /\ error # "none" /\ status = StatusOf(error)
    BY <1>2, <2>1, <2>3, StatusFacts DEF ImageInv, PhaseInv, BeforeTheRuns
  <2>4. QED
    BY <1>3, <2>2, <2>3
<1>5. /\ Units' = Units /\ Workflow' = Workflow
      /\ IsVideo' <=> IsVideo
      /\ Pictures' <=> Pictures
      /\ Truthful' <=> Truthful
  BY <1>1, Frame DEF comfyVars
<1>6. Once' /\ \A s : ~ Outcome(s) /\ (Outcome(s)' <=> s = status)
  BY <1>2, <1>4 DEF Once, Outcome
<1>7. (RequestTypes /\ UnitTypes)'
  BY <1>1 DEF ImageInv, RequestTypes, UnitTypes, Places, comfyVars
<1>8. (GateInv /\ PhaseInv)'
  BY <1>1, <1>2, <1>4, <1>5, <1>6
  DEF ImageInv, GateInv, PhaseInv, BeforeTheRuns, Backstage, comfyVars
<1>9. UnitInv'
  BY <1>1, <1>4, <1>5, <1>6 DEF ImageInv, UnitInv, BeforeTheRuns, comfyVars, Live
<1>10. FileInv'
  <2>1. \A u \in Runs : file[u] # "writing"
    <3>1. SUFFICES ASSUME NEW u \in Runs, file[u] = "writing" PROVE FALSE
      OBVIOUS
    <3>2. at = "storing" /\ status = 200
      BY <1>1, <1>3, <3>1 DEF ImageInv, FileInv
    <3>3. Pictures /\ req.format = "url" /\ u \in Units
      BY <3>1, <3>2 DEF ImageInv, PhaseInv, BeforeTheRuns, FileInv
    <3>4. QED
      BY <1>4, <3>1, <3>2, <3>3
  <2>2. QED
    BY <1>1, <1>4, <1>5, <1>6, <2>1 DEF ImageInv, FileInv, comfyVars
<1>11. (PromptInv /\ MadeInv)'
  BY <1>1, <1>4, <1>5, <1>6 DEF ImageInv, PromptInv, Given, MadeInv, comfyVars
<1>12. QED
  BY <1>7, <1>8, <1>9, <1>10, <1>11 DEF ImageInv

-----------------------------------------------------------------------------
(* The request is cancelled.                                               *)
LEMMA CancelComfyKeeps ==
  ASSUME ImageInv, Cancel, at \in Backstage
  PROVE  ImageInv'
<1>1. /\ cancels \in Nat /\ cancels' = cancels + 1 /\ error' = "Cancelled" /\ CancelComfy
      /\ UNCHANGED <<req, ids, misses, late, made, missed, gateVars, file, answer>>
  BY DEF Cancel, CancelComfy, ImageInv, RequestTypes
<1>2. cancels' \in Nat /\ cancels' > 0 /\ cancels' >= cancels
  BY <1>1
<1>3. \/ /\ at \in {"looking", "uploading", "preparing", "saving"} /\ at' = "raised"
         /\ UNCHANGED <<prompt, unit, recall>>
      \/ /\ at = "submitting" /\ at' = (IF ids = {} THEN "raised" ELSE "discarding")
         /\ prompt' \in {prompt, [prompt EXCEPT ![Cardinality(ids) + 1] = "pending"]}
         /\ UNCHANGED <<unit, recall>>
      \/ /\ at = "collecting" /\ at' = (IF IsVideo THEN "discarding" ELSE at)
         /\ unit' = CancelledUnits /\ UNCHANGED <<prompt, recall>>
      \/ /\ at \in {"unwinding", "discarding"} /\ at' = "raised" /\ recall' = "cut"
         /\ prompt' \in {prompt, Recalled} /\ UNCHANGED unit
  BY <1>1 DEF CancelComfy, Backstage
<1>4. at' \in Backstage \cup {"raised", "rendered"} /\ error' \in Errors /\ error' # "none"
  BY <1>1, <1>3 DEF Backstage, Errors
<1>5. /\ (RequestTypes /\ GateInv /\ FileInv)'
      /\ Units' = Units /\ Workflow' = Workflow
      /\ IsVideo' <=> IsVideo
      /\ Pictures' <=> Pictures
      /\ \A s : ~ Outcome(s)'
  BY <1>1, <1>2, <1>4, BatchKeeps
<1>6. /\ Units \subseteq Runs /\ req.provider = "comfyui" /\ req.route # "chat"
      /\ req # NoRequest /\ req.n \in Runs
  BY BackstageFacts
<1>7. /\ prompt' \in [Runs -> PromptStates]
      /\ \A u \in Runs : prompt[u] = "finished" => prompt'[u] \in {"finished", "pending"}
      /\ recall' \in {"none", "done", "failed", "cut"}
      /\ at # "submitting" => \A u \in Runs : prompt[u] = "finished" => prompt'[u] = "finished"
  BY <1>1, <1>3 DEF ImageInv, UnitTypes, PromptStates, Recalled
<1>8. \A u \in Runs : unit'[u] \in {unit[u]} \cup (IF unit[u] \in Live THEN {"cancelling"} ELSE {})
  BY <1>1, <1>3 DEF ImageInv, UnitTypes, CancelledUnits
<1>9. unit' \in [Runs -> {"idle", "done", "cancelling", "cancelled"} \cup Live \cup Lost]
  BY <1>3 DEF ImageInv, UnitTypes, CancelledUnits, Live
<1>10. \A u \in Runs : unit'[u] \notin Live
  <2>1. at # "collecting" => \A u \in Runs : unit[u] \notin Live
    BY <1>6 DEF ImageInv, UnitInv, BeforeTheRuns, Backstage
  <2>2. QED
    BY <1>3, <1>8, <2>1 DEF CancelledUnits, Live
<1>11. UnitTypes'
  BY <1>1, <1>7, <1>9 DEF ImageInv, UnitTypes
<1>12. PhaseInv'
  BY <1>1, <1>3, <1>4, <1>5, <1>6 DEF ImageInv, PhaseInv, BeforeTheRuns, Backstage
<1>13. UnitInv'
  <2>1. \A u \in Runs : unit'[u] \in {"fetching", "done"} => prompt'[u] = "finished"
    BY <1>3, <1>6, <1>7, <1>8, <1>10 DEF ImageInv, UnitInv, BeforeTheRuns, Live
  <2>2. at' # "collecting" \/ ~ IsVideo
    BY <1>3
  <2>3. at' \notin BeforeTheRuns \cup {"fanning", "rendered", "storing"}
    BY <1>3 DEF BeforeTheRuns
  <2>4. \A u \in Runs : unit'[u] # "idle" => u \in Units
    BY <1>8 DEF ImageInv, UnitInv, BeforeTheRuns, Live
  <2>5. QED
    BY <1>1, <1>2, <1>5, <1>6, <1>8, <1>10, <2>1, <2>2, <2>3, <2>4
    DEF ImageInv, UnitInv, BeforeTheRuns, Live
<1>14. PromptInv'
  <2>1. at' = "raised" => Given'
    <3>1. CASE at \in {"unwinding", "discarding"}
      BY <1>1, <1>3, <3>1 DEF Given
    <3>2. CASE at \in {"looking", "uploading", "preparing", "submitting"} /\ at' = "raised"
      BY <1>1, <1>3, <3>2 DEF ImageInv, PromptInv, Given
    <3>3. CASE at = "saving"
      BY <1>1, <1>3, <1>5, <1>6, <3>3
      DEF ImageInv, PhaseInv, BeforeTheRuns, PromptInv, UnitInv, Given
    <3>4. QED
      BY <1>3, <3>1, <3>2, <3>3
  <2>2. QED
    BY <1>1, <1>3, <1>5, <2>1 DEF ImageInv, PromptInv
<1>15. MadeInv'
  BY <1>1, <1>3, <1>5, Frame DEF ImageInv, MadeInv
<1>16. QED
  BY <1>5, <1>11, <1>12, <1>13, <1>14, <1>15 DEF ImageInv

LEMMA CancelOtherKeeps ==
  ASSUME ImageInv, Cancel, at \notin Backstage
  PROVE  ImageInv'
<1>1. /\ cancels \in Nat /\ cancels' = cancels + 1 /\ error' = "Cancelled" /\ CancelOther
      /\ at \in {"reading", "calling", "fanning", "failing", "forwarding", "streaming", "storing"}
      /\ UNCHANGED <<req, ids, prompt, misses, late, made, recall, missed, gateVars, answer>>
  BY DEF Cancel, CancelOther, ImageInv, RequestTypes, Waiting
<1>2. cancels' \in Nat /\ cancels' > 0
  BY <1>1
<1>3. /\ at' = IF FanEnds \/ at = "storing" THEN "failing" ELSE "raised"
      /\ unit' = IF FanEnds THEN CancelledUnits ELSE unit
      /\ file' = IF at = "storing" THEN CancelledPuts ELSE file
  BY <1>1 DEF CancelOther
<1>4. /\ Units' = Units /\ Workflow' = Workflow
      /\ IsVideo' <=> IsVideo
      /\ Pictures' <=> Pictures
      /\ Truthful' <=> Truthful
      /\ \A s : Outcome(s)' <=> Outcome(s)
  BY <1>1, Frame DEF Outcome
<1>5. /\ \A u \in Runs : unit'[u] = IF FanEnds /\ unit[u] \in Live THEN "cancelling" ELSE unit[u]
      /\ \A u \in Runs : file'[u] = IF file[u] = "writing" THEN "cancelling" ELSE file[u]
      /\ unit' \in [Runs -> {"idle", "done", "cancelling", "cancelled"} \cup Live \cup Lost]
      /\ file' \in [Runs -> {"none", "writing", "stored", "failed", "cancelling"}]
  BY <1>3 DEF ImageInv, UnitTypes, FileInv, CancelledUnits, CancelledPuts
<1>6. (RequestTypes /\ UnitTypes)'
  BY <1>1, <1>2, <1>3, <1>5
  DEF ImageInv, RequestTypes, UnitTypes, Places, Waiting, Errors, gateVars
<1>7. /\ at' \in {"failing", "raised"}
      /\ at' = "failing" <=> FanEnds \/ at = "storing"
      /\ FanEnds => at = "fanning" /\ at # "storing"
      /\ req = NoRequest <=> at = "reading"
  BY <1>1, <1>3 DEF FanEnds, ImageInv, GateInv, PhaseInv, BeforeTheRuns
<1>8. GateInv'
  BY <1>1, <1>4, <1>7 DEF ImageInv, GateInv, Once, gateVars
<1>9. PhaseInv'
  BY <1>1, <1>4, <1>7 DEF ImageInv, PhaseInv, BeforeTheRuns, Backstage
<1>10. UnitInv'
  <2>1. \A u \in Runs : unit'[u] \in Live =>
          req.provider = "fal" /\ \E v \in Units : unit[v] = "failed" /\ unit'[v] = "failed"
    <3>1. SUFFICES ASSUME NEW u \in Runs, unit[u] \in Live, ~ FanEnds
                   PROVE  req.provider = "fal" /\ \E v \in Units : unit[v] = "failed"
      BY <1>3, <1>5 DEF Live
    <3>2. CASE at = "fanning"
      BY <3>1, <3>2 DEF FanEnds, ImageInv, UnitInv, BeforeTheRuns
    <3>3. CASE at # "fanning"
      BY <1>1, <3>1, <3>3 DEF ImageInv, UnitInv, BeforeTheRuns
    <3>4. QED
      BY <3>2, <3>3
  <2>2. \A u \in Runs : /\ unit'[u] # "idle" => unit[u] # "idle"
                        /\ unit'[u] \notin Live \cup {"cancelling"} => unit'[u] = unit[u]
    BY <1>5 DEF Live
  <2>3. \A u \in Runs : unit'[u] \in Live => unit'[u] = unit[u]
    BY <1>5 DEF Live
  <2>4. Outcome(200) => at = "streaming" /\ req.route = "chat"
    BY <1>1 DEF ImageInv, GateInv, PhaseInv, BeforeTheRuns, Outcome
  <2>5. QED
    BY <1>1, <1>2, <1>4, <1>7, <2>1, <2>2, <2>3, <2>4 DEF ImageInv, UnitInv, BeforeTheRuns, Live
<1>11. FileInv'
  <2>1. \A u \in Runs : file'[u] # "writing" /\ (file[u] = "stored" => file'[u] = "stored")
    BY <1>5
  <2>2. Outcome(200) => ~ Pictures
    BY <1>1 DEF ImageInv, GateInv, PhaseInv, BeforeTheRuns, Outcome, Pictures
  <2>3. QED
    BY <1>2, <1>4, <2>1, <2>2 DEF FileInv
<1>12. PromptInv'
  <2>1. Given /\ ids \subseteq Runs
    BY <1>1 DEF ImageInv, PromptInv
  <2>2. \A u \in Runs : unit[u] = "idle" => unit'[u] = "idle"
    BY <1>5 DEF Live
  <2>3. Given'
    BY <1>1, <1>4, <2>1, <2>2 DEF Given
  <2>4. QED
    BY <1>1, <1>4, <1>7, <2>3 DEF ImageInv, PromptInv
<1>13. MadeInv'
  BY <1>1, <1>4, <1>7 DEF ImageInv, MadeInv
<1>14. QED
  BY <1>6, <1>8, <1>9, <1>10, <1>11, <1>12, <1>13 DEF ImageInv

-----------------------------------------------------------------------------
(* The invariant is inductive.                                             *)
LEMMA ImageInvHoldsAtFirst == Init => ImageInv
<1> SUFFICES ASSUME Init PROVE ImageInv
  OBVIOUS
<1>1. /\ at = "idle" /\ req = NoRequest /\ error = "none" /\ cancels = 0 /\ answer = <<>>
      /\ prompt = [u \in Runs |-> "none"] /\ ids = {} /\ unit = [u \in Runs |-> "idle"]
      /\ misses = [u \in Runs |-> 0] /\ missed = [u \in Runs |-> 0] /\ late = FALSE
      /\ recall = "none" /\ head = NoHead /\ received = 0 /\ exceeded = FALSE
      /\ file = [u \in Runs |-> "none"]
  BY DEF Init, ComfyInit
<1>2. (\A s : ~ Outcome(s)) /\ ~ IsVideo /\ ~ Pictures
  BY <1>1, NoRequestRoute DEF Outcome, IsVideo, Pictures
<1>3. NoHead \in HeadType
  BY DEF NoHead, HeadType, Routes
<1>4. RequestTypes /\ UnitTypes
  BY <1>1, <1>3 DEF RequestTypes, UnitTypes, PromptStates, Places, Errors
<1>5. GateInv /\ PhaseInv
  BY <1>1, <1>2 DEF GateInv, PhaseInv, BeforeTheRuns, Once, Backstage
<1>6. UnitInv /\ FileInv
  BY <1>1, <1>2 DEF UnitInv, BeforeTheRuns, FileInv, Live
<1>7. PromptInv /\ MadeInv
  BY <1>1, <1>2 DEF PromptInv, Given, MadeInv
<1>8. QED
  BY <1>4, <1>5, <1>6, <1>7 DEF ImageInv

LEMMA ImageInvIsKept == ImageInv /\ [Next]_vars => ImageInv'
<1> SUFFICES ASSUME ImageInv, [Next]_vars PROVE ImageInv'
  OBVIOUS
<1>1. ASSUME UNCHANGED vars PROVE ImageInv'
  <2>1. Once' /\ (\A s : Outcome(s)' <=> Outcome(s))
    BY <1>1 DEF vars, Outcome, Once, ImageInv, GateInv
  <2>2. /\ Units' = Units /\ Workflow' = Workflow
        /\ IsVideo' <=> IsVideo
        /\ Pictures' <=> Pictures
        /\ Truthful' <=> Truthful
    BY <1>1, Frame DEF vars, comfyVars
  <2>3. (RequestTypes /\ UnitTypes /\ PhaseInv)'
    BY <1>1, <2>2
    DEF vars, comfyVars, gateVars, ImageInv, RequestTypes, UnitTypes, PhaseInv, BeforeTheRuns
  <2>4. (GateInv /\ UnitInv)'
    BY <1>1, <2>1, <2>2 DEF vars, comfyVars, gateVars, ImageInv, GateInv, UnitInv, BeforeTheRuns
  <2>5. (FileInv /\ PromptInv /\ MadeInv)'
    BY <1>1, <2>1, <2>2
    DEF vars, comfyVars, gateVars, ImageInv, FileInv, PromptInv, Given, MadeInv
  <2>6. QED
    BY <2>3, <2>4, <2>5 DEF ImageInv
<1>2. CASE \E h \in Heads : Arrive(h)
  BY <1>2, ArriveKeeps
<1>3. CASE \E bytes \in 1 .. MaxBytes + 2 : Receive(bytes)
  BY <1>3, ReceiveKeeps
<1>4. CASE \E r \in Requests : Dispatch(r) \/ StartVideo(r)
  BY <1>4, DispatchKeeps, StartVideoKeeps
<1>5. CASE Step
  <2>1. CASE ComfyStep /\ UNCHANGED <<gateVars, file, answer>>
    BY <2>1, LookKeeps, ReadGraphKeeps, SubmitKeeps, SavedKeeps, UnwindKeeps, BatchEndsKeep
    DEF ComfyStep
  <2>2. CASE Called \/ FannedIn \/ FanFails \/ AllEnded \/ Forwarded
    BY <2>2, CalledKeeps, FanEndsKeep, ForwardedKeeps
  <2>3. CASE Store \/ PutsFail \/ AnswerImages \/ AnswerError \/ Leave
    BY <2>3, StoreKeeps, PutsKeep, AnswerKeeps, PutEndsKeeps
  <2>4. QED
    BY <1>5, <2>1, <2>2, <2>3 DEF Step
<1>6. ASSUME NEW u \in Runs, UnitStep(u) PROVE ImageInv'
  BY <1>6, CollectorsKeep, FanMovesKeep, PutsKeep, PutEndsKeeps DEF UnitStep
<1>7. CASE BudgetEnds /\ UNCHANGED <<gateVars, file, answer>>
  BY <1>7, BatchEndsKeep
<1>8. CASE StreamEnds \/ Cancel
  BY <1>8, FanEndsKeep, CancelComfyKeeps, CancelOtherKeeps
<1>9. ASSUME NEW u \in Runs, ComfyWorks(u) /\ UNCHANGED <<gateVars, file, answer>> PROVE ImageInv'
  BY <1>9, ComfyWorksKeeps
<1>10. QED
  BY <1>1, <1>2, <1>3, <1>4, <1>5, <1>6, <1>7, <1>8, <1>9 DEF Next

-----------------------------------------------------------------------------
(* Whatever the requests, the workflows, the upstreams and the moments at  *)
(* which a request is cancelled: no state is reached that the types, the   *)
(* phases of a request and what is known of its runs rule out              *)
(* (adapter.py, client.py, images.py, _limits.py).                         *)
THEOREM ImageInvariant == Spec => []ImageInv
<1>1. QED
  BY ImageInvHoldsAtFirst, ImageInvIsKept, PTL DEF Spec

(* The client is told once, and what happened (auth.py:11, _limits.py:15   *)
(* and 135, client.py:48, workflows.py:455, base.py:362).                  *)
THEOREM AnswerCorrect == Spec => []AnswerIsTrue
<1>1. ImageInv => AnswerIsTrue
  <2> SUFFICES ASSUME ImageInv PROVE AnswerIsTrue
    OBVIOUS
  <2>1. Len(answer) <= 1
    <3>1. PICK x : answer = <<>> \/ answer = <<x>>
      BY DEF ImageInv, GateInv, Once
    <3>2. Len(<<>>) = 0 /\ Len(<<x>>) = 1
      OBVIOUS
    <3>3. Len(answer) \in {0, 1}
      BY <3>1, <3>2, Zenon
    <3>4. \A k \in {0, 1} : k <= 1
      OBVIOUS
    <3>5. QED
      BY <3>3, <3>4, Zenon
  <2>2. /\ answer # <<>> /\ ~head.key /\ req.route # "video" => Outcome(401) /\ received = 0
        /\ exceeded => Outcome(413) /\ req = NoRequest
        /\ Outcome(413) => exceeded \/ head.declared > MaxBytes
        /\ Outcome(504) => late
    BY DEF ImageInv, GateInv
  <2>3. \A u \in Runs : unit[u] = "dropped" => missed[u] >= MissThreshold
    BY DEF ImageInv, UnitInv, BeforeTheRuns
  <2>4. ASSUME Outcome(200), req.route # "chat"
        PROVE  /\ \A u \in Units : unit[u] = "done" /\ (req.format = "url" => file[u] = "stored")
               /\ req.provider = "comfyui" => Truthful
    <3>1. Pictures
      <4>1. answer # <<>>
        BY <2>4 DEF Outcome
      <4>2. req.route # "video"
        BY <4>1 DEF ImageInv, GateInv, IsVideo
      <4>3. req # NoRequest
        BY <2>4 DEF ImageInv, GateInv
      <4>4. QED
        BY <2>4, <4>2, <4>3, ImageAssumption DEF Pictures, ImageInv, RequestTypes
    <3>2. QED
      BY <2>4, <3>1 DEF ImageInv, UnitInv, BeforeTheRuns, FileInv, MadeInv
  <2>5. QED
    BY <2>1, <2>2, <2>3, <2>4 DEF AnswerIsTrue, Truthful
<1>2. QED
  BY ImageInvariant, <1>1, PTL

(* When a request is over, nobody works for it any more who has not been   *)
(* cancelled, and the prompts whose ids are known are recalled             *)
(* (adapter.py:379, concurrency.py:19).  Uploads that a plain gather leaves *)
(* running (adapter.py:432) are not among the steps this speaks of.        *)
THEOREM NothingIsLeftBehind == Spec => []NothingLeftBehind
<1>1. ImageInv => NothingLeftBehind
  <2> SUFFICES ASSUME ImageInv, Over PROVE
    /\ \A u \in Runs :
         unit[u] \in Live => req.provider = "fal" /\ \E v \in Units : unit[v] = "failed"
    /\ \A u \in Runs : file[u] # "writing"
    /\ cancels = 0 => \A u \in Runs : unit[u] # "cancelling" /\ file[u] # "cancelling"
    /\ \A u \in ids :
         prompt[u] = "pending" => recall \in {"failed", "cut"} \/ (IsVideo /\ unit[u] = "idle")
    BY DEF NothingLeftBehind
  <2>1. at \in {"answered", "gone", "rendered", "raised"}
    BY DEF Over
  <2>2. cancels = 0 => ~ cancels > 0
    OBVIOUS
  <2>3. \A u \in Runs :
          unit[u] \in Live => req.provider = "fal" /\ \E v \in Units : unit[v] = "failed"
    BY <2>1 DEF ImageInv, UnitInv, BeforeTheRuns
  <2>4. \A u \in Runs : file[u] # "writing" /\ (file[u] = "cancelling" => cancels > 0)
    BY <2>1 DEF ImageInv, FileInv
  <2>5. \A u \in Runs : unit[u] = "cancelling" => cancels > 0
    BY <2>1 DEF ImageInv, UnitInv, BeforeTheRuns
  <2>6. Given
    BY <2>1 DEF ImageInv, PromptInv
  <2>7. QED
    BY <2>2, <2>3, <2>4, <2>5, <2>6 DEF Given
<1>2. QED
  BY ImageInvariant, <1>1, PTL
=============================================================================
