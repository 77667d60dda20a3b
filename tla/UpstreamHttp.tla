---------------------------- MODULE UpstreamHttp ----------------------------
(***************************************************************************)
(* util/http.py and errors.py: what an upstream's answer means.            *)
(*                                                                         *)
(* A reply is a status code, or NoReply when the transport failed before   *)
(* one arrived.  An operator that classifies a reply yields "ok" or the    *)
(* class of the error the code raises.                                     *)
(***************************************************************************)
EXTENDS Naturals, Sequences

NoReply == 0

IsSuccess(status) == status \in 200 .. 299

(* Subclasses of UpstreamError: an `except UpstreamError` takes them too.  *)
UpstreamErrors == {"UpstreamError", "UpstreamAuthError", "RateLimited"}

RaiseForUpstreamStatus(status) ==
  CASE status \in {401, 403} -> "UpstreamAuthError"
    [] status = 405 -> "UnsupportedOperation"
    [] status = 429 -> "RateLimited"
    [] status \in (400 .. 499) \ {401, 403, 405, 429} -> "InvalidRequest"
    [] OTHER -> "UpstreamError"

RequestUpstream(reply) ==
  IF IsSuccess(reply) THEN "ok"
  ELSE IF reply = NoReply THEN "UpstreamError"
  ELSE RaiseForUpstreamStatus(reply)

-----------------------------------------------------------------------------
(* Fetching a generated asset.  A body is what Content-Length declares     *)
(* (NotDeclared if absent or not a number) and the sizes of its chunks.    *)

NotDeclared == 0

IsRetriableFetchStatus(status) ==
  \/ status \in {401, 404, 408, 425, 429}
  \/ status >= 500 /\ status # 501

ReadCapped(body, cap) ==
  LET received[i \in 0 .. Len(body.chunks)] ==
        IF i = 0 THEN 0 ELSE received[i - 1] + body.chunks[i]
  IN  IF \/ body.declared > cap
         \/ \E i \in 1 .. Len(body.chunks) : received[i] > cap
      THEN "UpstreamError" ELSE "ok"

(* One attempt of fetch_asset_with_retry(): "retry" sleeps and tries again *)
FetchAttempt(reply, body, cap, last) ==
  CASE IsSuccess(reply) -> ReadCapped(body, cap)
    [] ~last /\ (reply = NoReply \/ IsRetriableFetchStatus(reply)) -> "retry"
    [] reply = 429 -> "RateLimited"
    [] OTHER -> "UpstreamError"
=============================================================================
