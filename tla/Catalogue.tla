----------------------------- MODULE Catalogue -----------------------------
(***************************************************************************)
(* The model catalogue of one provider: GET /v1/models (api/models.py), the *)
(* registry of fetches that outlive their request (infra/tasks.py,         *)
(* SingleFlight), the backend's cache (TtlCache) and its routing map       *)
(* (Variants), an image edit that needs the map, and the shutdown.         *)
(*                                                                         *)
(* A provider is fal (serves a stale catalogue while it refreshes it,      *)
(* falls back to the configured models), Venice (two listings, of which    *)
(* one may be missing) or plain (one listing): their fetches run under the *)
(* cache's lock.  Or it is ComfyUI, whose catalogue is a directory of      *)
(* workflows, scanned in a thread, without a lock.  A coroutine is a call  *)
(* (a listing without budget, an edit) or a task; each awaits at the lock, *)
(* the upstream or the thread.                                             *)
(***************************************************************************)
EXTENDS TtlCache, Variants

CONSTANTS
  Listings, Edits,  \* the requests
  Tasks,            \* asyncio tasks, used again when nobody knows them any more
  Nobody,
  Providers,        \* a subset of {"fal", "venice", "plain", "comfyui"}
  Settings,         \* [ttl, retry, budget, pinned]; `pinned` is cache_workflows
  Catalogues,       \* what the provider may publish
  Configured,       \* fal's configured models
  MaxChanges        \* bound of the changes of the workflow directory

Calls == Listings \cup Edits
Coroutines == Calls \cup Tasks

(* What a listing can name.                                                *)
Ids == Configured \cup UNION {DOMAIN raw : raw \in Catalogues}

(* NoValue is neither a catalogue nor what a cache or a scan can hold.     *)
ASSUME CatalogueAssumption ==
  /\ Calls \cap Tasks = {} /\ Nobody \notin Coroutines
  /\ Providers \subseteq {"fal", "venice", "plain", "comfyui"}
  /\ Settings \subseteq [ttl : Nat, retry : Nat, budget : BOOLEAN, pinned : BOOLEAN]
  /\ AuthCooldown \in Nat /\ MaxChanges \in Nat
  /\ NoValue \notin Catalogues
  /\ NoValue \notin [ids : SUBSET Ids, whole : BOOLEAN, of : Catalogues]
  /\ NoValue \notin [records : Nat, stamp : Nat]

VARIABLES
  provider, set,  \* the provider and its settings; never change
  cache,          \* AsyncTTLCache
  routes,         \* _variant_routes, _edit_routes
  authFailed,     \* fal: _auth_failed
  holder,         \* who holds the cache's lock
  pc,             \* where each coroutine, and each listing, stands
  lingering,      \* the task in catalogue_fetches
  refresh,        \* fal: the task in _catalog_refresh
  joined,         \* the task a listing waits for
  phase,          \* of the shutdown
  dir,            \* ComfyUI: the version of the workflow directory
  workflows,      \* ComfyUI: _workflows and _stamp, as versions
  scan,           \* a coroutine's view: the version it asked at, its stamp, what it got
  lastGood,       \* the last catalogue read whole (and, from fal, not empty)
  waited          \* history: while a coroutine was queued, another's fetch has ended

settings == <<provider, set>>
tasks == <<lingering, refresh, joined>>
dirVars == <<dir, workflows, scan>>
vars == <<settings, dirVars, cache, routes, authFailed, holder, pc, tasks, phase, lastGood, waited>>

Scanning == {"statting", "statted", "scanning", "reading"}
Live == {"asked", "queued", "fetching"} \cup Scanning
Over == {"answered", "omitted", "gone"}

IsFal == provider = "fal"
NoScan == [begun |-> 0, stamp |-> 0, got |-> 0]
EmptyMap == [id \in {} |-> id]

Init ==
  /\ provider \in Providers
  /\ set \in Settings
  /\ cache = EmptyCache(set)
  /\ routes = EmptyMap
  /\ authFailed = FALSE
  /\ holder = Nobody
  /\ pc = [c \in Coroutines |-> "idle"]
  /\ lingering = Nobody /\ refresh = Nobody
  /\ joined = [r \in Listings |-> Nobody]
  /\ phase = "up"
  /\ dir = 0 /\ workflows = NoValue
  /\ scan = [c \in Coroutines |-> NoScan]
  /\ lastGood = NoValue
  /\ waited = [c \in Coroutines |-> FALSE]

-----------------------------------------------------------------------------
(* SingleFlight.                                                           *)

(* join_or_start(): the task in the slot, or a new one that enters it.     *)
JoinOrStart(slot, task) == IF slot # Nobody THEN task = slot ELSE pc[task] = "idle"

(* _forget(): a finished task leaves the registry, if it still is in it.   *)
Forget(t) ==
  /\ pc[t] = "done"
  /\ pc' = [pc EXCEPT ![t] = "idle"]
  /\ lingering' = IF lingering = t THEN Nobody ELSE lingering
  /\ refresh' = IF refresh = t THEN Nobody ELSE refresh
  /\ joined' = [r \in Listings |-> IF joined[r] = t THEN Nobody ELSE joined[r]]
  /\ scan' = [scan EXCEPT ![t] = NoScan]
  /\ UNCHANGED <<settings, dir, workflows, cache, routes, authFailed, holder, phase, lastGood,
                 waited>>

-----------------------------------------------------------------------------
(* GET /v1/models: one provider's part of it.                              *)

(* _entries_within(): with a budget, wait for the task; without, call.     *)
List(r) ==
  /\ pc[r] = "idle" /\ phase = "up"
  /\ IF set.budget
     THEN \E t \in Tasks :
            /\ JoinOrStart(lingering, t)
            /\ pc' = [pc EXCEPT ![r] = "waiting", ![t] = IF lingering = t THEN @ ELSE "asked"]
            /\ lingering' = t
            /\ joined' = [joined EXCEPT ![r] = t]
     ELSE /\ pc' = [pc EXCEPT ![r] = "asked"]
          /\ UNCHANGED <<lingering, joined>>
  /\ UNCHANGED <<settings, dirVars, cache, routes, authFailed, holder, refresh, phase, lastGood, waited>>

Leaves(r, how) ==
  /\ pc[r] = "waiting"
  /\ pc' = [pc EXCEPT ![r] = how]
  /\ joined' = [joined EXCEPT ![r] = Nobody]
  /\ UNCHANGED <<settings, dirVars, cache, routes, authFailed, holder, lingering, refresh, phase,
                 lastGood, waited>>

(* The task has finished: its entries are served.                          *)
Serve(r) == (joined[r] # Nobody => pc[joined[r]] = "done") /\ Leaves(r, "answered")

(* Mutant: without the shield.                                             *)
BudgetEnds_Cancels(r) ==
  /\ pc[r] = "waiting" /\ joined[r] # Nobody
  /\ pc' = [pc EXCEPT ![r] = "omitted", ![joined[r]] = "done"]
  /\ holder' = IF holder = joined[r] THEN Nobody ELSE holder
  /\ joined' = [joined EXCEPT ![r] = Nobody]
  /\ UNCHANGED <<settings, dirVars, cache, routes, authFailed, lingering, refresh, phase, lastGood, waited>>

(* The shielded task goes on.                                              *)
BudgetEnds(r) == Leaves(r, "omitted")

-----------------------------------------------------------------------------
(* An image edit: _reference_variant(), _edit_target(), with the flag      *)
(* _routes_loaded of the latter.                                           *)

RoutesLoaded == lastGood # NoValue

Edit(e) ==
  /\ pc[e] = "idle" /\ phase = "up"
  /\ provider # "plain"
  /\ pc' = [pc EXCEPT ![e] = IF provider = "venice" /\ RoutesLoaded
                             THEN "answered" ELSE "asked"]
  /\ UNCHANGED <<settings, dirVars, cache, routes, authFailed, holder, tasks, phase, lastGood, waited>>

-----------------------------------------------------------------------------
(* list_models() in a coroutine c.                                         *)

(* Mutant: a task ends like a call, and stays in its registry.             *)
Finished_Answered(c) == "answered"

Finished(c) == IF c \in Tasks THEN "done" ELSE "answered"

(* fal answers from the configured models, the cache, or the last listing, *)
(* and then sees to it that one refresh is running.                        *)
Ask(c) ==
  /\ pc[c] = "asked" /\ provider # "comfyui"
  /\ \/ /\ IsFal /\ (authFailed \/ Fresh(cache) \/ (Stale(cache) /\ PendingFailure(cache, set)))
        /\ pc' = [pc EXCEPT ![c] = Finished(c)]
        /\ UNCHANGED refresh
     \/ /\ IsFal /\ ~authFailed /\ ~Fresh(cache) /\ Stale(cache) /\ ~PendingFailure(cache, set)
        /\ \E t \in Tasks \ {c} :
             /\ JoinOrStart(refresh, t)
             /\ pc' = [pc EXCEPT ![c] = Finished(c), ![t] = IF refresh = t THEN @ ELSE "queued"]
             /\ refresh' = t
     \/ /\ IsFal => ~authFailed /\ ~Stale(cache)
        /\ pc' = [pc EXCEPT ![c] = "queued"]
        /\ UNCHANGED refresh
  /\ UNCHANGED <<settings, dirVars, cache, routes, authFailed, holder, lingering, joined, phase,
                 lastGood, waited>>

(* The lock is c's: what its last holder has left decides.                 *)
Acquire(c) ==
  /\ pc[c] = "queued" /\ holder = Nobody
  /\ IF Fresh(cache) \/ PendingFailure(cache, set)
     THEN /\ pc' = [pc EXCEPT ![c] = Finished(c)]
          /\ waited' = [waited EXCEPT ![c] = FALSE]
          /\ UNCHANGED holder
     ELSE /\ pc' = [pc EXCEPT ![c] = "fetching"]
          /\ holder' = c
          /\ UNCHANGED waited
  /\ UNCHANGED <<settings, dirVars, cache, routes, authFailed, tasks, phase, lastGood>>

(* The first error of fal's concurrent walks through the categories, or of *)
(* Venice's generate listing, is the fetch's; Venice does without the other. *)
ErrorOf(first, second) ==
  IF first # "none" THEN first ELSE IF IsFal THEN second ELSE "none"

(* Mutants: the routes are published before the listing is known to be     *)
(* good; nothing remembers the failure.                                    *)
Failed_RoutesFirst(error) ==
  /\ IF IsFal /\ error = "UpstreamAuthError"
     THEN authFailed' = TRUE /\ UNCHANGED cache
     ELSE cache' = NoteFailure(cache, error) /\ UNCHANGED authFailed
  /\ routes' = EmptyMap

Failed_Forgotten(error) ==
  /\ authFailed' = (authFailed \/ (IsFal /\ error = "UpstreamAuthError"))
  /\ UNCHANGED <<cache, routes>>

Failed(error) ==
  /\ IF IsFal /\ error = "UpstreamAuthError"
     THEN authFailed' = TRUE /\ UNCHANGED cache
     ELSE cache' = NoteFailure(cache, error) /\ UNCHANGED authFailed
  /\ UNCHANGED routes

(* `of` is history: the catalogue a cached listing was made from.          *)
Published(raw, whole) ==
  /\ UNCHANGED authFailed
  /\ \/ /\ IsFal
        /\ routes' = PairVariants(raw)
        /\ cache' = Store([ids |-> FalListed(raw, Configured), whole |-> TRUE, of |-> raw], set.ttl, set)
     \/ /\ provider = "venice" /\ whole
        /\ routes' = VeniceRoutes(raw)
        /\ cache' = Store([ids |-> VeniceListed(raw), whole |-> TRUE, of |-> raw], set.ttl, set)
     \/ /\ provider = "venice" /\ ~whole
        /\ UNCHANGED routes
        /\ cache' = Store([ids |-> TextOnly(raw), whole |-> FALSE, of |-> raw], set.retry, set)
     \/ /\ provider \notin {"fal", "venice"}
        /\ UNCHANGED routes
        /\ cache' = Store([ids |-> DOMAIN raw, whole |-> TRUE, of |-> raw], set.ttl, set)

Fetched(c) ==
  /\ pc[c] = "fetching"
  /\ \E first, second \in {"none", "UpstreamError", "UpstreamAuthError"}, raw \in Catalogues :
       LET error == ErrorOf(first, second)
           whole == first = "none" /\ second = "none"
       IN  /\ IF error # "none" THEN Failed(error)
              ELSE IF IsFal /\ DOMAIN raw = {} THEN Failed("UpstreamError")
              ELSE Published(raw, whole)
           /\ lastGood' = IF whole /\ (IsFal => DOMAIN raw # {}) THEN raw ELSE lastGood
  /\ holder' = Nobody
  /\ pc' = [pc EXCEPT ![c] = Finished(c)]
  /\ waited' = [d \in Coroutines |-> d # c /\ (waited[d] \/ pc[d] = "queued")]
  /\ UNCHANGED <<settings, dirVars, tasks, phase>>

-----------------------------------------------------------------------------
(* ComfyUI's list_models(), and _record_for() of a generation:             *)
(* _ensure_workflows().                                                    *)

Look(c) ==
  /\ pc[c] = "asked" /\ provider = "comfyui"
  /\ pc' = [pc EXCEPT ![c] = IF workflows = NoValue THEN "scanning"
                             ELSE IF set.pinned THEN Finished(c) ELSE "statting"]
  /\ scan' = [scan EXCEPT ![c] = [begun |-> dir, stamp |-> dir,
                                  got |-> IF workflows = NoValue THEN 0 ELSE workflows.records]]
  /\ UNCHANGED <<settings, dir, workflows, cache, routes, authFailed, holder, tasks, phase,
                 lastGood, waited>>

(* _dir_stamp() in its thread: alone, or as the first half of a scan.      *)
Stat(c) ==
  /\ pc[c] \in {"statting", "scanning"}
  /\ pc' = [pc EXCEPT ![c] = IF pc[c] = "statting" THEN "statted" ELSE "reading"]
  /\ scan' = [scan EXCEPT ![c].stamp = dir]
  /\ UNCHANGED <<settings, dir, workflows, cache, routes, authFailed, holder, tasks, phase,
                 lastGood, waited>>

(* Back on the loop, where another scan may have finished meanwhile.       *)
Compare(c) ==
  /\ pc[c] = "statted"
  /\ IF scan[c].stamp = workflows.stamp
     THEN /\ pc' = [pc EXCEPT ![c] = Finished(c)]
          /\ scan' = [scan EXCEPT ![c].got = workflows.records]
     ELSE /\ pc' = [pc EXCEPT ![c] = "scanning"]
          /\ UNCHANGED scan
  /\ UNCHANGED <<settings, dir, workflows, cache, routes, authFailed, holder, tasks, phase,
                 lastGood, waited>>

(* Mutant: stamped after the scan.                                         *)
Scanned_StampedAfter(c) ==
  /\ pc[c] = "reading"
  /\ \E version \in scan[c].stamp .. dir :
       /\ workflows' = [records |-> version, stamp |-> dir]
       /\ scan' = [scan EXCEPT ![c].got = version]
  /\ pc' = [pc EXCEPT ![c] = Finished(c)]
  /\ UNCHANGED <<settings, dir, cache, routes, authFailed, holder, tasks, phase, lastGood, waited>>

(* The files were read one by one, at any time since the stamp.            *)
Scanned(c) ==
  /\ pc[c] = "reading"
  /\ \E version \in scan[c].stamp .. dir :
       /\ workflows' = [records |-> version, stamp |-> scan[c].stamp]
       /\ scan' = [scan EXCEPT ![c].got = version]
  /\ pc' = [pc EXCEPT ![c] = Finished(c)]
  /\ UNCHANGED <<settings, dir, cache, routes, authFailed, holder, tasks, phase, lastGood, waited>>

DirChanges ==
  /\ provider = "comfyui" /\ dir < MaxChanges
  /\ dir' = dir + 1
  /\ UNCHANGED <<settings, workflows, scan, cache, routes, authFailed, holder, pc, tasks, phase,
                 lastGood, waited>>

-----------------------------------------------------------------------------
(* Mutant: a cancelled fetch keeps the lock.                               *)
HangUp_KeepsLock(c) ==
  /\ pc[c] \in Live \cup {"waiting"}
  /\ pc' = [pc EXCEPT ![c] = "gone"]
  /\ joined' = [r \in Listings |-> IF r = c THEN Nobody ELSE joined[r]]
  /\ waited' = [waited EXCEPT ![c] = FALSE]
  /\ UNCHANGED <<settings, dirVars, cache, routes, authFailed, holder, lingering, refresh, phase, lastGood>>

(* A call is cancelled where it awaits, or where it waits for its task: it *)
(* gives the lock back, and leaves no failure behind.                      *)
HangUp(c) ==
  /\ pc[c] \in Live \cup {"waiting"}
  /\ pc' = [pc EXCEPT ![c] = "gone"]
  /\ holder' = IF holder = c THEN Nobody ELSE holder
  /\ joined' = [r \in Listings |-> IF r = c THEN Nobody ELSE joined[r]]
  /\ waited' = [waited EXCEPT ![c] = FALSE]
  /\ UNCHANGED <<settings, dirVars, cache, routes, authFailed, lingering, refresh, phase, lastGood>>

-----------------------------------------------------------------------------
(* The shutdown, after the last request: cancel_all() on the listings'     *)
(* fetches, then the backend's aclose(), which does so with its refresh    *)
(* and closes the client.                                                  *)

CancelTask(t) ==
  /\ pc' = IF t # Nobody /\ pc[t] \in Live THEN [pc EXCEPT ![t] = "done"] ELSE pc
  /\ waited' = [c \in Coroutines |-> c # t /\ waited[c]]
  /\ holder' = IF t # Nobody /\ holder = t THEN Nobody ELSE holder
  /\ scan' = [c \in Coroutines |-> IF c = t THEN NoScan ELSE scan[c]]
  /\ UNCHANGED <<dir, workflows>>

ServingEnds ==
  /\ phase = "up"
  /\ \A c \in Calls : pc[c] \in Over \cup {"idle"}
  /\ phase' = "cancelling"
  /\ CancelTask(lingering)
  /\ UNCHANGED <<settings, cache, routes, authFailed, tasks, lastGood>>

(* Mutant: the client is closed under the refresh.                         *)
BackendCloses_Undrained ==
  /\ phase = "cancelling"
  /\ lingering = Nobody
  /\ phase' = "closed"
  /\ UNCHANGED <<settings, dirVars, cache, routes, authFailed, holder, pc, tasks, lastGood, waited>>

BackendCloses ==
  /\ phase = "cancelling"
  /\ lingering = Nobody
  /\ phase' = "closing"
  /\ CancelTask(refresh)
  /\ UNCHANGED <<settings, cache, routes, authFailed, tasks, lastGood>>

ClientCloses ==
  /\ phase = "closing"
  /\ refresh = Nobody
  /\ phase' = "closed"
  /\ UNCHANGED <<settings, dirVars, cache, routes, authFailed, holder, pc, tasks, lastGood, waited>>

-----------------------------------------------------------------------------
(* A cooldown is long against the event loop: time passes when every       *)
(* coroutine waits for the upstream or for another.                        *)
AllWait ==
  \A c \in Coroutines :
    pc[c] \notin {"asked", "done"} /\ (pc[c] = "queued" => holder # Nobody)

Tick ==
  /\ AllWait /\ phase = "up" /\ provider # "comfyui"
  /\ cache' = Older(cache, set)
  /\ UNCHANGED <<settings, dirVars, routes, authFailed, holder, pc, tasks, phase, lastGood, waited>>

Run(c) ==
  \/ Ask(c) \/ Acquire(c) \/ Fetched(c)
  \/ Look(c) \/ Stat(c) \/ Compare(c) \/ Scanned(c)

Next ==
  \/ \E r \in Listings : List(r) \/ Serve(r) \/ BudgetEnds(r)
  \/ \E e \in Edits : Edit(e)
  \/ \E c \in Coroutines : Run(c)
  \/ \E t \in Tasks : Forget(t)
  \/ \E c \in Calls : HangUp(c)
  \/ ServingEnds \/ BackendCloses \/ ClientCloses
  \/ Tick \/ DirChanges

(* The event loop runs what can run; the HTTP client's timeouts end every  *)
(* fetch, and a listing's budget its wait.                                 *)
Fairness ==
  /\ \A c \in Coroutines : WF_vars(Run(c))
  /\ \A t \in Tasks : WF_vars(Forget(t))
  /\ \A r \in Listings : WF_vars(Serve(r) \/ BudgetEnds(r))
  /\ WF_vars(BackendCloses) /\ WF_vars(ClientCloses)

Spec == Init /\ [][Next]_vars /\ Fairness

-----------------------------------------------------------------------------
TypeOK ==
  /\ provider \in Providers /\ set \in Settings
  /\ \/ cache.value = NoValue
     \/ cache.value.whole \in BOOLEAN
  /\ cache.failure \in {"none", "UpstreamError", "UpstreamAuthError"}
  /\ authFailed \in BOOLEAN
  /\ holder \in Coroutines \cup {Nobody}
  /\ \A c \in Tasks : pc[c] \in {"idle", "done"} \cup Live
  /\ \A c \in Calls : pc[c] \in {"idle", "waiting"} \cup Live \cup Over
  /\ lingering \in Tasks \cup {Nobody} /\ refresh \in Tasks \cup {Nobody}
  /\ joined \in [Listings -> Tasks \cup {Nobody}]
  /\ phase \in {"up", "cancelling", "closing", "closed"}
  /\ dir \in 0 .. MaxChanges
  /\ \/ workflows = NoValue
     \/ workflows \in [records : 0 .. MaxChanges, stamp : 0 .. MaxChanges]
  /\ scan \in [Coroutines -> [begun : 0 .. MaxChanges, stamp : 0 .. MaxChanges,
                             got : 0 .. MaxChanges]]
  /\ lastGood \in Catalogues \cup {NoValue}
  /\ waited \in [Coroutines -> BOOLEAN]

(* A refresh that fails, is empty or is cancelled takes nothing away: the  *)
(* routes stay those of the last catalogue read whole, a whole listing in  *)
(* the cache is of the same one ("publish the routing map and the listing  *)
(* together", adapter.py:371), and a model it leaves out is one that a     *)
(* listed model leads to.  Venice's refresh without its inpaint half does  *)
(* take away: its listing leaves out the models that only edit.  It leaves *)
(* out no other, takes no route, and is served within the retry window     *)
(* only, not for the time a whole one is.  (What fal answers without a     *)
(* cached listing, or after its key was rejected, is the configured        *)
(* models: a listing of another kind.)                                     *)
NothingIsLost ==
  /\ lastGood = NoValue => routes = EmptyMap
  /\ lastGood # NoValue /\ provider # "plain" =>
       routes = IF IsFal THEN PairVariants(lastGood) ELSE VeniceRoutes(lastGood)
  /\ cache.value # NoValue =>
       LET listed == cache.value.ids
           read == cache.value.of
       IN  /\ cache.value.whole /\ provider \in {"fal", "venice"} => read = lastGood
           /\ \A id \in (DOMAIN read \cup (IF IsFal THEN Configured ELSE {})) \ listed :
                \/ \E m \in DOMAIN routes \cap listed : routes[m] = id
                \/ ~cache.value.whole /\ read[id] # "text-to-image"
           /\ ~cache.value.whole /\ Fresh(cache) => cache.age < set.retry

(* "The first caller pays the timeout and the rest fail fast" (cache.py    *)
(* module comment): while results and failures are remembered, nobody      *)
(* waits through another's fetch and then a fetch of its own.  fal does    *)
(* not remember a rejected key in the cache: who is queued at the lock     *)
(* then asks with it again.                                                *)
PaysOnce ==
  \A c \in Coroutines :
    set.ttl > 0 /\ set.retry > 0 /\ ~authFailed => ~(pc[c] = "fetching" /\ waited[c])

(* Nothing uses the client once it is closed: no fetch has escaped the     *)
(* registries through which the shutdown finds it (main.py:140).           *)
NothingAfterClose ==
  phase = "closed" => \A c \in Coroutines : pc[c] \notin Live

(* "A write landing mid-scan invalidates the result" (adapter.py:59):      *)
(* unless the workflows are cached for good, a request works with them as  *)
(* they were when it asked, or later, whatever scan ends last.             *)
SeesChanges ==
  provider = "comfyui" /\ ~set.pinned =>
    \A c \in Coroutines : pc[c] \in {"done", "answered"} => scan[c].got >= scan[c].begun

(* "A cancelled fetch populates nothing" (models.py:57): no request ends a *)
(* task's fetch by ceasing to wait for it; only the shutdown does.         *)
SlowIsNotKilled ==
  [][\A t \in Tasks : pc[t] = "fetching" /\ pc'[t] # "fetching" =>
        phase' # "up" \/ \A c \in Calls : pc'[c] = pc[c]]_vars

(* Every request ends.                                                     *)
EveryCallEnds == \A c \in Calls : pc[c] \in Live \cup {"waiting"} ~> pc[c] \in Over
=============================================================================
