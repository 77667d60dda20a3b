------------------------------ MODULE TtlCache ------------------------------
(***************************************************************************)
(* util/cache.py: AsyncTTLCache, the cache of one provider's catalogue.    *)
(*                                                                         *)
(* A cache is a record: the value, its age and the time it may be served   *)
(* (_stored_at, _stored_ttl), the last failure and the time since it.      *)
(* Time is counted in ticks; an age that has reached its limit stays there. *)
(* A setting holds ttl_seconds and failure_cooldown_seconds.               *)
(***************************************************************************)
EXTENDS Naturals

CONSTANTS
  NoValue,
  AuthCooldown  \* AUTH_FAILURE_COOLDOWN_SECONDS

Least(m, n) == IF m < n THEN m ELSE n
Most(m, n) == IF m < n THEN n ELSE m

EmptyCache(set) ==
  [value |-> NoValue, age |-> 0, ttl |-> set.ttl, failure |-> "none", since |-> 0]

Stale(c) == c.value # NoValue /\ c.ttl > 0

Fresh(c) == Stale(c) /\ c.age < c.ttl

Store(value, ttl, set) ==
  [value |-> value, age |-> 0, ttl |-> Least(ttl, set.ttl), failure |-> "none", since |-> 0]

NoteFailure(c, error) == [c EXCEPT !.failure = error, !.since = 0]

CooldownFor(error, set) ==
  IF error = "UpstreamAuthError" THEN Most(set.retry, AuthCooldown) ELSE set.retry

PendingFailure(c, set) ==
  /\ c.failure # "none"
  /\ set.retry > 0
  /\ c.since < CooldownFor(c.failure, set)

(* The cache a tick later.                                                 *)
Older(c, set) ==
  [c EXCEPT !.age = IF Stale(c) THEN Least(@ + 1, c.ttl) ELSE @,
            !.since = IF c.failure = "none" THEN @
                      ELSE Least(@ + 1, CooldownFor(c.failure, set))]
=============================================================================
