-------------------------- MODULE CatalogueProofs --------------------------
(***************************************************************************)
(* Proofs about Catalogue.tla, for any requests, any tasks, any providers  *)
(* and settings, and any catalogues.                                       *)
(***************************************************************************)
EXTENDS Catalogue, FiniteSetTheorems, TLAPS

(* The types, in groups: the provider and what is known of it, the         *)
(* coroutines, the registries, the scans.                                  *)
Listing == [ids : SUBSET Ids, whole : BOOLEAN, of : Catalogues]

CacheType ==
  [value : Listing \cup {NoValue}, age : Nat, ttl : Nat,
   failure : {"none", "UpstreamError", "UpstreamAuthError"}, since : Nat]

KnownTypes ==
  /\ provider \in Providers /\ set \in Settings
  /\ cache \in CacheType
  /\ authFailed \in BOOLEAN
  /\ lastGood \in Catalogues \cup {NoValue}

PcTypes ==
  /\ pc \in [Coroutines -> {"idle", "done", "waiting"} \cup Live \cup Over]
  /\ \A c \in Tasks : pc[c] \in {"idle", "done"} \cup Live
  /\ \A c \in Calls : pc[c] \in {"idle", "waiting"} \cup Live \cup Over
  /\ holder \in Coroutines \cup {Nobody}

SlotTypes ==
  /\ lingering \in Tasks \cup {Nobody} /\ refresh \in Tasks \cup {Nobody}
  /\ joined \in [Listings -> Tasks \cup {Nobody}]
  /\ phase \in {"up", "cancelling", "closing", "closed"}

ScanTypes ==
  /\ dir \in 0 .. MaxChanges
  /\ workflows \in [records : 0 .. MaxChanges, stamp : 0 .. MaxChanges] \cup {NoValue}
  /\ scan \in [Coroutines -> [begun : 0 .. MaxChanges, stamp : 0 .. MaxChanges,
                             got : 0 .. MaxChanges]]

(* The routes are those of the last good catalogue; a whole listing in the *)
(* cache is of it, too, and one that is not has the half that was read, for *)
(* the retry window.                                                       *)
RoutesOf(raw) == IF IsFal THEN PairVariants(raw) ELSE VeniceRoutes(raw)
ListingOf(raw) == IF IsFal THEN FalListed(raw, Configured) ELSE VeniceListed(raw)

ListingInv ==
  LET listing == cache.value
  IN  /\ provider \in {"fal", "venice"} /\ listing.whole =>
           listing.of = lastGood /\ listing.ids = ListingOf(listing.of)
      /\ provider \notin {"fal", "venice"} => listing.whole /\ listing.ids = DOMAIN listing.of
      /\ ~ listing.whole => /\ provider = "venice" /\ listing.ids = TextOnly(listing.of)
                            /\ cache.ttl <= set.retry

KnownInv ==
  /\ provider = "comfyui" => lastGood = NoValue
  /\ lastGood = NoValue => routes = EmptyMap
  /\ lastGood # NoValue /\ provider # "plain" => routes = RoutesOf(lastGood)
  /\ cache.value # NoValue => ListingInv

(* Who fetches has the lock; ComfyUI's catalogue is not fetched, and no    *)
(* other is scanned.                                                       *)
LockInv ==
  /\ \A c \in Coroutines : pc[c] = "fetching" <=> holder = c
  /\ provider = "comfyui" => \A c \in Coroutines : pc[c] \notin {"queued", "fetching"}

(* A task that is not idle is in a registry.  When the requests are over   *)
(* and the listings' task cancelled, only the refresh can be alive.        *)
RegistryInv ==
  /\ \A t \in Tasks : pc[t] # "idle" => t = lingering \/ t = refresh
  /\ refresh # Nobody => pc[refresh] \in {"queued", "fetching", "done"}
  /\ phase # "up" => /\ \A c \in Calls : pc[c] \in Over \cup {"idle"}
                     /\ lingering # Nobody => pc[lingering] \notin Live
  /\ phase \in {"closing", "closed"} => lingering = Nobody
  /\ phase = "closed" => refresh = Nobody

(* While results and failures are remembered, whoever has waited through   *)
(* another's fetch still finds what that fetch has left.                   *)
Remembers == set.ttl > 0 /\ set.retry > 0 /\ ~authFailed

WaitInv ==
  /\ waited \in [Coroutines -> BOOLEAN]
  /\ Remembers =>
       \A c \in Coroutines : waited[c] =>
         /\ pc[c] = "queued" /\ holder = Nobody
         /\ Fresh(cache) \/ PendingFailure(cache, set)

(* A scan's stamp is not older than its request, nor what it reads older   *)
(* than the stamp.                                                         *)
ScanInv ==
  /\ workflows # NoValue => workflows.stamp <= workflows.records /\ workflows.records <= dir
  /\ \A c \in Coroutines :
       /\ scan[c].begun <= scan[c].stamp /\ scan[c].stamp <= dir /\ scan[c].got <= dir
       /\ pc[c] \in {"statting", "statted"} => workflows # NoValue
       /\ pc[c] \in {"idle", "waiting", "asked", "queued", "fetching"} => scan[c].begun <= scan[c].got
       /\ ~ set.pinned /\ pc[c] \in {"done", "answered"} => scan[c].begun <= scan[c].got

CatalogueInv ==
  /\ KnownTypes /\ PcTypes /\ SlotTypes /\ ScanTypes
  /\ KnownInv /\ LockInv /\ RegistryInv /\ WaitInv /\ ScanInv
-----------------------------------------------------------------------------
(* Variants.                                                               *)

(* A nonempty set of numbers has a least one: of the intervals below its   *)
(* members, one contains no other.                                         *)
LEMMA LeastExists ==
  ASSUME NEW S, S \subseteq Nat, S # {}
  PROVE  Min(S) \in S
<1> DEFINE Below == {1 .. n : n \in S}
<1>1. ASSUME NEW n \in S PROVE 1 .. n \in FiniteSubsetsOf(Nat)
  <2>1. n \in Int /\ 1 .. n \subseteq Nat
    OBVIOUS
  <2>2. IsFiniteSet(1 .. n)
    BY <2>1, FS_Interval
  <2>3. QED
    BY <2>1, <2>2 DEF FiniteSubsetsOf
<1>2. PICK B \in Below : \A y \in Below : <<y, B>> \notin StrictSubsetOrdering(Nat)
  <2>1. Below \subseteq FiniteSubsetsOf(Nat) /\ Below # {}
    BY <1>1
  <2>2. QED
    BY <2>1, FS_StrictSubsetOrderingWellFounded, WFMin
<1>3. PICK m \in S : B = 1 .. m
  OBVIOUS
<1>4. ASSUME NEW n \in S PROVE m <= n
  <2>1. SUFFICES ASSUME n < m PROVE FALSE
    BY <1>3, <1>4
  <2>2. 1 .. n \subseteq 1 .. m /\ m \in 1 .. m /\ m \notin 1 .. n
    BY <2>1, <1>3, <1>4
  <2>3. <<1 .. n, B>> \in StrictSubsetOrdering(Nat)
    BY <2>2, <1>3, <1>4 DEF StrictSubsetOrdering
  <2>4. QED
    BY <2>3, <1>2
<1>5. QED
  BY <1>4, <1>3 DEF Min

(* What fal's pairing yields: a text-driven model leads to one that is not. *)
LEMMA PairVariantsFacts ==
  ASSUME NEW raw
  PROVE  /\ DOMAIN PairVariants(raw) \subseteq DOMAIN raw
         /\ \A id \in DOMAIN PairVariants(raw) :
              /\ raw[id] \in TextDriven
              /\ PairVariants(raw)[id] \in DOMAIN raw
              /\ raw[PairVariants(raw)[id]] \notin TextDriven
<1>1. ASSUME NEW id PROVE Partners(raw, id) \subseteq Nat
  BY DEF Partners
<1>2. ASSUME NEW id, Partners(raw, id) # {}
      PROVE  LET other == VariantCandidates(id, raw[id])[Min(Partners(raw, id))]
             IN  /\ raw[id] \in TextDriven /\ other \in DOMAIN raw
                 /\ raw[other] = PartnerCategory(raw[id])
  <2>1. Min(Partners(raw, id)) \in Partners(raw, id)
    BY <1>1, <1>2, LeastExists
  <2>2. QED
    BY <2>1 DEF Partners
<1>3. ASSUME NEW c PROVE PartnerCategory(c) \notin TextDriven
  BY DEF PartnerCategory, TextDriven
<1>4. QED
  BY <1>2, <1>3 DEF PairVariants

LEMMA VeniceRoutesFacts ==
  ASSUME NEW raw
  PROVE  /\ DOMAIN VeniceRoutes(raw) \subseteq DOMAIN raw
         /\ \A id \in DOMAIN VeniceRoutes(raw) :
              /\ raw[id] = "text-to-image"
              /\ VeniceRoutes(raw)[id] \in DOMAIN raw
              /\ raw[VeniceRoutes(raw)[id]] = "image-to-image"
  BY DEF VeniceRoutes

(* So whatever a listing leaves out, a model it lists leads to.            *)
LEMMA NothingLeftOut ==
  ASSUME NEW raw, NEW id \in DOMAIN raw \cup (IF IsFal THEN Configured ELSE {})
  PROVE  \/ id \in ListingOf(raw)
         \/ \E m \in DOMAIN RoutesOf(raw) \cap ListingOf(raw) : RoutesOf(raw)[m] = id
<1>1. CASE IsFal
  BY <1>1, PairVariantsFacts DEF RoutesOf, ListingOf, FalListed, Range
<1>2. CASE ~ IsFal
  BY <1>2, VeniceRoutesFacts DEF RoutesOf, ListingOf, VeniceListed, Range
<1>3. QED
  BY <1>1, <1>2

LEMMA ListingTypes ==
  ASSUME NEW raw \in Catalogues
  PROVE  /\ FalListed(raw, Configured) \in SUBSET Ids
         /\ VeniceListed(raw) \in SUBSET Ids
         /\ TextOnly(raw) \in SUBSET Ids
         /\ DOMAIN raw \in SUBSET Ids
<1>1. DOMAIN raw \in {DOMAIN r : r \in Catalogues}
  OBVIOUS
<1>2. DOMAIN raw \subseteq Ids /\ Configured \subseteq Ids
  BY <1>1 DEF Ids
<1>3. QED
  BY <1>2 DEF FalListed, VeniceListed, TextOnly

(* The cache.                                                              *)
LEMMA StoreFacts ==
  ASSUME NEW entry \in Listing, NEW ttl \in Nat,
         set \in [ttl : Nat, retry : Nat, budget : BOOLEAN, pinned : BOOLEAN]
  PROVE  /\ Store(entry, ttl, set) \in CacheType
         /\ Store(entry, ttl, set).value = entry /\ Store(entry, ttl, set).ttl <= ttl
         /\ ttl > 0 /\ set.ttl > 0 => Fresh(Store(entry, ttl, set))
<1>1. entry # NoValue
  BY CatalogueAssumption DEF Listing
<1>2. QED
  BY <1>1 DEF Store, CacheType, Fresh, Stale, Least

LEMMA FailureFacts ==
  ASSUME cache \in CacheType, NEW e \in {"UpstreamError", "UpstreamAuthError"},
         set \in [ttl : Nat, retry : Nat, budget : BOOLEAN, pinned : BOOLEAN]
  PROVE  /\ NoteFailure(cache, e) \in CacheType
         /\ NoteFailure(cache, e).value = cache.value /\ NoteFailure(cache, e).ttl = cache.ttl
         /\ set.retry > 0 => PendingFailure(NoteFailure(cache, e), set)
<1> DEFINE failed == [cache EXCEPT !.failure = e]
<1>1. /\ failed \in CacheType /\ failed.value = cache.value /\ failed.failure = e
      /\ failed.ttl = cache.ttl
      /\ NoteFailure(cache, e) = [failed EXCEPT !.since = 0]
  BY DEF NoteFailure, CacheType
<1> HIDE DEF failed
<1>2. /\ NoteFailure(cache, e) \in CacheType
      /\ NoteFailure(cache, e).value = cache.value /\ NoteFailure(cache, e).ttl = cache.ttl
      /\ NoteFailure(cache, e).failure = e /\ NoteFailure(cache, e).since = 0
  BY <1>1 DEF CacheType
<1>3. set.retry > 0 => CooldownFor(e, set) > 0
  BY CatalogueAssumption DEF CooldownFor, Most
<1>4. QED
  BY <1>2, <1>3 DEF PendingFailure

LEMMA OlderFacts ==
  ASSUME cache \in CacheType,
         set \in [ttl : Nat, retry : Nat, budget : BOOLEAN, pinned : BOOLEAN]
  PROVE  /\ Older(cache, set) \in CacheType
         /\ Older(cache, set).value = cache.value /\ Older(cache, set).ttl = cache.ttl
<1> DEFINE age == IF Stale(cache) THEN Least(cache.age + 1, cache.ttl) ELSE cache.age
           since == IF cache.failure = "none" THEN cache.since
                    ELSE Least(cache.since + 1, CooldownFor(cache.failure, set))
           aged == [cache EXCEPT !.age = age]
<1>1. CooldownFor(cache.failure, set) \in Nat
  BY CatalogueAssumption DEF CooldownFor, Most
<1>2. age \in Nat /\ since \in Nat
  BY <1>1 DEF CacheType, Least
<1>3. Older(cache, set) = [aged EXCEPT !.since = since]
  BY DEF Older, CacheType
<1> HIDE DEF age, since
<1>4. aged \in CacheType /\ aged.value = cache.value /\ aged.ttl = cache.ttl
  BY <1>2 DEF CacheType
<1> HIDE DEF aged
<1>5. QED
  BY <1>2, <1>3, <1>4 DEF CacheType
-----------------------------------------------------------------------------
(* What is known of the provider.                                          *)
SetType == [ttl : Nat, retry : Nat, budget : BOOLEAN, pinned : BOOLEAN]

LEMMA KnownFacts ==
  ASSUME KnownTypes
  PROVE  /\ set \in SetType /\ set.ttl \in Nat /\ set.retry \in Nat
         /\ cache \in CacheType
         /\ provider \in {"fal", "venice", "plain", "comfyui"}
  BY CatalogueAssumption DEF KnownTypes, SetType, CacheType

LEMMA FailedFacts ==
  ASSUME KnownTypes, NEW e \in {"UpstreamError", "UpstreamAuthError"}, Failed(e)
  PROVE  /\ cache' \in CacheType /\ cache'.value = cache.value /\ cache'.ttl = cache.ttl
         /\ authFailed' \in BOOLEAN /\ (authFailed => authFailed')
         /\ routes' = routes
         /\ set.retry > 0 /\ ~authFailed' => PendingFailure(cache', set)
<1>1. CASE IsFal /\ e = "UpstreamAuthError"
  BY <1>1, KnownFacts DEF Failed, KnownTypes
<1>2. CASE ~ (IsFal /\ e = "UpstreamAuthError")
  BY <1>2, KnownFacts, FailureFacts DEF Failed, KnownTypes, SetType
<1>3. QED
  BY <1>1, <1>2

LEMMA PublishedFacts ==
  ASSUME KnownTypes, NEW raw \in Catalogues, NEW whole \in BOOLEAN, Published(raw, whole),
         IsFal => whole
  PROVE  /\ cache' \in CacheType /\ cache'.value # NoValue
         /\ authFailed' = authFailed
         /\ cache'.value.of = raw
         /\ provider \in {"fal", "venice"} =>
              /\ cache'.value.whole = whole
              /\ whole => routes' = RoutesOf(raw) /\ cache'.value.ids = ListingOf(raw)
              /\ ~ whole => /\ provider = "venice" /\ routes' = routes
                            /\ cache'.value.ids = TextOnly(raw) /\ cache'.ttl <= set.retry
         /\ provider \notin {"fal", "venice"} =>
              routes' = routes /\ cache'.value.whole /\ cache'.value.ids = DOMAIN raw
         /\ set.ttl > 0 /\ set.retry > 0 => Fresh(cache')
<1>0. \A entry \in Listing : entry # NoValue
  BY CatalogueAssumption DEF Listing
<1>1. CASE IsFal
  <2> DEFINE entry == [ids |-> FalListed(raw, Configured), whole |-> TRUE, of |-> raw]
  <2>1. entry \in Listing /\ entry.ids = FalListed(raw, Configured) /\ entry.whole = TRUE /\ entry.of = raw
    BY ListingTypes DEF Listing
  <2>2. cache' = Store(entry, set.ttl, set) /\ routes' = PairVariants(raw) /\ authFailed' = authFailed
    BY <1>1 DEF Published, IsFal
  <2> HIDE DEF entry
  <2>3. /\ Store(entry, set.ttl, set) \in CacheType /\ Store(entry, set.ttl, set).value = entry
        /\ set.ttl > 0 /\ set.retry > 0 => Fresh(Store(entry, set.ttl, set))
    BY <2>1, KnownFacts, StoreFacts DEF SetType
  <2>4. QED
    BY <1>0, <1>1, <2>1, <2>2, <2>3 DEF IsFal, RoutesOf, ListingOf
<1>2. CASE provider = "venice" /\ whole
  <2> DEFINE entry == [ids |-> VeniceListed(raw), whole |-> TRUE, of |-> raw]
  <2>1. entry \in Listing /\ entry.ids = VeniceListed(raw) /\ entry.whole = TRUE /\ entry.of = raw
    BY ListingTypes DEF Listing
  <2>2. cache' = Store(entry, set.ttl, set) /\ routes' = VeniceRoutes(raw) /\ authFailed' = authFailed
    BY <1>2 DEF Published, IsFal
  <2> HIDE DEF entry
  <2>3. /\ Store(entry, set.ttl, set) \in CacheType /\ Store(entry, set.ttl, set).value = entry
        /\ set.ttl > 0 /\ set.retry > 0 => Fresh(Store(entry, set.ttl, set))
    BY <2>1, KnownFacts, StoreFacts DEF SetType
  <2>4. QED
    BY <1>0, <1>2, <2>1, <2>2, <2>3 DEF IsFal, RoutesOf, ListingOf
<1>3. CASE provider = "venice" /\ ~ whole
  <2> DEFINE entry == [ids |-> TextOnly(raw), whole |-> FALSE, of |-> raw]
  <2>1. entry \in Listing /\ entry.ids = TextOnly(raw) /\ entry.whole = FALSE /\ entry.of = raw
    BY ListingTypes DEF Listing
  <2>2. cache' = Store(entry, set.retry, set) /\ routes' = routes /\ authFailed' = authFailed
    BY <1>3 DEF Published, IsFal
  <2> HIDE DEF entry
  <2>3. /\ Store(entry, set.retry, set) \in CacheType /\ Store(entry, set.retry, set).value = entry
        /\ Store(entry, set.retry, set).ttl <= set.retry
        /\ set.ttl > 0 /\ set.retry > 0 => Fresh(Store(entry, set.retry, set))
    BY <2>1, KnownFacts, StoreFacts DEF SetType
  <2>4. QED
    BY <1>0, <1>3, <2>1, <2>2, <2>3 DEF IsFal
<1>4. CASE provider \notin {"fal", "venice"}
  <2> DEFINE entry == [ids |-> DOMAIN raw, whole |-> TRUE, of |-> raw]
  <2>1. entry \in Listing /\ entry.ids = DOMAIN raw /\ entry.whole = TRUE /\ entry.of = raw
    BY ListingTypes DEF Listing
  <2>2. cache' = Store(entry, set.ttl, set) /\ routes' = routes /\ authFailed' = authFailed
    BY <1>4 DEF Published, IsFal
  <2> HIDE DEF entry
  <2>3. /\ Store(entry, set.ttl, set) \in CacheType /\ Store(entry, set.ttl, set).value = entry
        /\ set.ttl > 0 /\ set.retry > 0 => Fresh(Store(entry, set.ttl, set))
    BY <2>1, KnownFacts, StoreFacts DEF SetType
  <2>4. QED
    BY <1>0, <1>4, <2>1, <2>2, <2>3 DEF IsFal
<1>5. QED
  BY <1>1, <1>2, <1>3, <1>4 DEF IsFal

(* A fetch that ends.                                                      *)
LEMMA FetchedKnown ==
  ASSUME KnownTypes, KnownInv, LockInv, NEW c \in Coroutines, Fetched(c)
  PROVE  /\ KnownTypes' /\ KnownInv'
         /\ Remembers' => Remembers /\ (Fresh(cache') \/ PendingFailure(cache', set'))
<1>1. provider # "comfyui" /\ UNCHANGED <<provider, set>>
  BY DEF Fetched, LockInv, settings
<1>2. PICK first, second \in {"none", "UpstreamError", "UpstreamAuthError"}, raw \in Catalogues :
        LET error == ErrorOf(first, second)
            whole == first = "none" /\ second = "none"
        IN  /\ IF error # "none" THEN Failed(error)
               ELSE IF IsFal /\ DOMAIN raw = {} THEN Failed("UpstreamError")
               ELSE Published(raw, whole)
            /\ lastGood' = IF whole /\ (IsFal => DOMAIN raw # {}) THEN raw ELSE lastGood
  BY DEF Fetched
<1> DEFINE error == ErrorOf(first, second)
           whole == first = "none" /\ second = "none"
<1>3. /\ error \in {"none", "UpstreamError", "UpstreamAuthError"}
      /\ error # "none" => ~ whole
      /\ IsFal /\ error = "none" => whole
      /\ whole \in BOOLEAN
  BY DEF ErrorOf
<1>4. CASE \/ error # "none" /\ Failed(error)
           \/ error = "none" /\ IsFal /\ DOMAIN raw = {} /\ Failed("UpstreamError")
  <2>1. lastGood' = lastGood
    BY <1>2, <1>3, <1>4
  <2>2. /\ cache' \in CacheType /\ cache'.value = cache.value /\ cache'.ttl = cache.ttl
        /\ authFailed' \in BOOLEAN /\ (authFailed => authFailed')
        /\ routes' = routes
        /\ set.retry > 0 /\ ~authFailed' => PendingFailure(cache', set)
    BY <1>3, <1>4, FailedFacts
  <2>3. QED
    BY <1>1, <2>1, <2>2 DEF KnownTypes, KnownInv, ListingInv, CacheType, Remembers, RoutesOf, ListingOf, IsFal
<1>5. CASE error = "none" /\ ~ (IsFal /\ DOMAIN raw = {}) /\ Published(raw, whole)
  <2>1. lastGood' = IF whole THEN raw ELSE lastGood
    BY <1>2, <1>5
  <2>2. raw # NoValue
    BY CatalogueAssumption
  <2>3. /\ cache' \in CacheType /\ cache'.value # NoValue
        /\ authFailed' = authFailed
        /\ cache'.value.of = raw
        /\ provider \in {"fal", "venice"} =>
             /\ cache'.value.whole = whole
             /\ whole => routes' = RoutesOf(raw) /\ cache'.value.ids = ListingOf(raw)
             /\ ~ whole => /\ provider = "venice" /\ routes' = routes
                           /\ cache'.value.ids = TextOnly(raw) /\ cache'.ttl <= set.retry
        /\ provider \notin {"fal", "venice"} =>
             routes' = routes /\ cache'.value.whole /\ cache'.value.ids = DOMAIN raw
        /\ set.ttl > 0 /\ set.retry > 0 => Fresh(cache')
    BY <1>3, <1>5, PublishedFacts
  <2> HIDE DEF whole, error
  <2>4. KnownTypes'
    BY <1>1, <1>3, <2>1, <2>3 DEF KnownTypes, CacheType
  <2>5. KnownInv'
    <3>1. /\ RoutesOf(raw)' = RoutesOf(raw) /\ ListingOf(raw)' = ListingOf(raw)
          /\ RoutesOf(lastGood)' = IF IsFal THEN PairVariants(lastGood') ELSE VeniceRoutes(lastGood')
          /\ ListingOf(lastGood)' = IF IsFal THEN FalListed(lastGood', Configured)
                                    ELSE VeniceListed(lastGood')
      BY <1>1 DEF RoutesOf, ListingOf, IsFal
    <3>2. provider \in {"fal", "venice", "plain"}
      BY <1>1, KnownFacts
    <3>3. CASE whole
      BY <1>1, <2>1, <2>2, <2>3, <3>1, <3>2, <3>3 DEF KnownInv, ListingInv, RoutesOf, ListingOf
    <3>4. CASE ~ whole
      BY <1>1, <2>1, <2>2, <2>3, <3>1, <3>2, <3>4 DEF KnownInv, ListingInv, RoutesOf, ListingOf
    <3>5. QED
      BY <3>3, <3>4
  <2>6. QED
    BY <1>1, <2>3, <2>4, <2>5 DEF Remembers
<1>6. QED
  BY <1>2, <1>4, <1>5

LEMMA KnownStep ==
  ASSUME KnownTypes, KnownInv, LockInv, [Next]_vars
  PROVE  KnownTypes' /\ KnownInv'
<1>1. ASSUME UNCHANGED <<provider, set, cache, routes, authFailed, lastGood>>
      PROVE  KnownTypes' /\ KnownInv'
  BY <1>1 DEF KnownTypes, KnownInv, ListingInv, RoutesOf, ListingOf, IsFal
<1>2. ASSUME NEW r \in Listings, List(r) \/ Serve(r) \/ BudgetEnds(r)
      PROVE  KnownTypes' /\ KnownInv'
  BY <1>1, <1>2 DEF List, Serve, BudgetEnds, Leaves, settings
<1>3. ASSUME NEW e \in Edits, Edit(e) PROVE KnownTypes' /\ KnownInv'
  BY <1>1, <1>3 DEF Edit, settings
<1>4. ASSUME NEW c \in Coroutines, Ask(c) \/ Acquire(c) \/ Look(c) \/ Stat(c) \/ Compare(c)
                                   \/ Scanned(c)
      PROVE  KnownTypes' /\ KnownInv'
  BY <1>1, <1>4 DEF Ask, Acquire, Look, Stat, Compare, Scanned, settings
<1>5. ASSUME NEW t \in Tasks, Forget(t) PROVE KnownTypes' /\ KnownInv'
  BY <1>1, <1>5 DEF Forget, settings
<1>6. ASSUME NEW c \in Calls, HangUp(c) PROVE KnownTypes' /\ KnownInv'
  BY <1>1, <1>6 DEF HangUp, settings
<1>7. CASE ServingEnds \/ BackendCloses \/ ClientCloses \/ DirChanges \/ UNCHANGED vars
  BY <1>1, <1>7 DEF ServingEnds, BackendCloses, ClientCloses, DirChanges, vars, settings
<1>8. CASE Tick
  <2>1. /\ cache' \in CacheType /\ cache'.value = cache.value /\ cache'.ttl = cache.ttl
        /\ UNCHANGED <<provider, set, routes, authFailed, lastGood>>
    BY <1>8, KnownFacts, OlderFacts DEF Tick, settings, SetType
  <2>2. QED
    BY <2>1 DEF KnownTypes, KnownInv, ListingInv, RoutesOf, ListingOf, IsFal, CacheType
<1>9. QED
  BY <1>2, <1>3, <1>4, <1>5, <1>6, <1>7, <1>8, FetchedKnown DEF Next, Run
-----------------------------------------------------------------------------
(* The coroutines and the registries.                                      *)
PcStates == {"idle", "done", "waiting"} \cup Live \cup Over

MovingInv == PcTypes /\ SlotTypes /\ LockInv /\ RegistryInv

LEMMA Disjoint ==
  /\ Listings \subseteq Calls /\ Edits \subseteq Calls
  /\ Calls \subseteq Coroutines /\ Tasks \subseteq Coroutines
  /\ \A c \in Coroutines : c \in Tasks \/ c \in Calls
  /\ \A c \in Calls : c \notin Tasks
  /\ Nobody \notin Coroutines
  BY CatalogueAssumption DEF Calls, Coroutines

(* Two coroutines move in one step, of which the second perhaps does not.  *)
LEMMA TwoMove ==
  ASSUME NEW f \in [Coroutines -> PcStates], NEW a, NEW b, NEW slot,
         NEW r \in Coroutines, NEW t \in Coroutines, r # t
  PROVE  [f EXCEPT ![r] = a, ![t] = IF slot = t THEN @ ELSE b]
           = [c \in Coroutines |-> IF c = r THEN a
                                   ELSE IF c = t /\ slot # t THEN b ELSE f[c]]
<1> DEFINE half == [f EXCEPT ![r] = a]
<1>1. half = [c \in Coroutines |-> IF c = r THEN a ELSE f[c]]
  OBVIOUS
<1>2. [f EXCEPT ![r] = a, ![t] = IF slot = t THEN @ ELSE b]
        = [half EXCEPT ![t] = IF slot = t THEN half[t] ELSE b]
  OBVIOUS
<1> HIDE DEF half
<1>3. QED
  BY <1>1, <1>2

(* Whom the two actions that move two coroutines move.                     *)
LEMMA ListPc ==
  ASSUME PcTypes, NEW r \in Listings, List(r)
  PROVE  \A c \in Coroutines :
           pc'[c] = pc[c] \/ (pc[c] = "idle" /\ pc'[c] \in {"waiting", "asked"})
<1> USE Disjoint
<1>1. CASE set.budget
  <2>1. PICK t \in Tasks :
          /\ JoinOrStart(lingering, t)
          /\ pc' = [pc EXCEPT ![r] = "waiting", ![t] = IF lingering = t THEN @ ELSE "asked"]
    BY <1>1 DEF List
  <2>2. /\ pc \in [Coroutines -> PcStates]
        /\ r \in Coroutines /\ t \in Coroutines /\ r # t
    BY DEF PcTypes, PcStates
  <2>3. [pc EXCEPT ![r] = "waiting", ![t] = IF lingering = t THEN @ ELSE "asked"]
          = [c \in Coroutines |-> IF c = r THEN "waiting"
                                  ELSE IF c = t /\ lingering # t THEN "asked" ELSE pc[c]]
    BY <2>2, TwoMove
  <2>4. pc[r] = "idle" /\ (lingering = t \/ pc[t] = "idle")
    BY <2>1 DEF List, JoinOrStart
  <2>5. QED
    BY <2>1, <2>3, <2>4
<1>2. CASE ~ set.budget
  BY <1>2 DEF List, PcTypes
<1>3. QED
  BY <1>1, <1>2

LEMMA AskPc ==
  ASSUME PcTypes, NEW c \in Coroutines, Ask(c)
  PROVE  \A d \in Coroutines :
           \/ pc'[d] = pc[d]
           \/ pc[d] \in {"idle", "asked"} /\ pc'[d] \in {"queued", "done", "answered"}
<1> USE Disjoint
<1>0. pc[c] = "asked" /\ Finished(c) \in {"done", "answered"}
  BY DEF Ask, Finished
<1>1. CASE pc' = [pc EXCEPT ![c] = Finished(c)] \/ pc' = [pc EXCEPT ![c] = "queued"]
  BY <1>0, <1>1 DEF PcTypes
<1>2. ASSUME NEW t \in Tasks \ {c}, JoinOrStart(refresh, t),
             pc' = [pc EXCEPT ![c] = Finished(c), ![t] = IF refresh = t THEN @ ELSE "queued"]
      PROVE  \A d \in Coroutines :
               \/ pc'[d] = pc[d]
               \/ pc[d] \in {"idle", "asked"} /\ pc'[d] \in {"queued", "done", "answered"}
  <2>1. /\ pc \in [Coroutines -> PcStates]
        /\ c \in Coroutines /\ t \in Coroutines /\ c # t
    BY DEF PcTypes, PcStates
  <2>2. [pc EXCEPT ![c] = Finished(c), ![t] = IF refresh = t THEN @ ELSE "queued"]
          = [d \in Coroutines |-> IF d = c THEN Finished(c)
                                  ELSE IF d = t /\ refresh # t THEN "queued" ELSE pc[d]]
    BY <2>1, TwoMove
  <2>3. refresh = t \/ pc[t] = "idle"
    BY <1>2 DEF JoinOrStart
  <2>4. QED
    BY <1>0, <1>2, <2>2, <2>3
<1>3. QED
  BY <1>1, <1>2 DEF Ask

LEMMA ListMoves ==
  ASSUME KnownTypes, MovingInv, NEW r \in Listings, List(r)
  PROVE  MovingInv'
<1> USE Disjoint DEF Live, Scanning, Over
<1>0. phase = "up" /\ pc[r] = "idle" /\ UNCHANGED <<provider, holder, refresh, phase>>
  BY DEF List, settings
<1>1. CASE set.budget
  <2>1. PICK t \in Tasks :
          /\ JoinOrStart(lingering, t)
          /\ pc' = [pc EXCEPT ![r] = "waiting", ![t] = IF lingering = t THEN @ ELSE "asked"]
          /\ lingering' = t
          /\ joined' = [joined EXCEPT ![r] = t]
    BY <1>1 DEF List
  <2>2. pc' = [c \in Coroutines |-> IF c = r THEN "waiting"
                                    ELSE IF c = t /\ lingering # t THEN "asked" ELSE pc[c]]
    <3>1. /\ pc \in [Coroutines -> PcStates]
          /\ r \in Coroutines /\ t \in Coroutines /\ r # t
      BY DEF MovingInv, PcTypes, PcStates
    <3>2. [pc EXCEPT ![r] = "waiting", ![t] = IF lingering = t THEN @ ELSE "asked"]
            = [c \in Coroutines |-> IF c = r THEN "waiting"
                                    ELSE IF c = t /\ lingering # t THEN "asked" ELSE pc[c]]
      BY <3>1, TwoMove
    <3>3. QED
      BY <2>1, <3>2
  <2>3. lingering = t \/ (lingering = Nobody /\ pc[t] = "idle")
    BY <2>1 DEF JoinOrStart
  <2>4. PcTypes' /\ SlotTypes'
    BY <1>0, <2>1, <2>2, <2>3 DEF MovingInv, PcTypes, SlotTypes
  <2>5. LockInv'
    BY <1>0, <2>2, <2>3 DEF MovingInv, LockInv
  <2>6. RegistryInv'
    BY <1>0, <2>1, <2>2, <2>3 DEF MovingInv, RegistryInv, SlotTypes
  <2>7. QED
    BY <2>4, <2>5, <2>6 DEF MovingInv
<1>2. CASE ~ set.budget
  <2>1. pc' = [pc EXCEPT ![r] = "asked"] /\ UNCHANGED <<lingering, joined>>
    BY <1>2 DEF List
  <2>2. QED
    BY <1>0, <2>1 DEF MovingInv, PcTypes, SlotTypes, LockInv, RegistryInv
<1>3. QED
  BY <1>1, <1>2

(* A step of one call, in which nobody takes the lock.                     *)
LEMMA CallMoves ==
  ASSUME MovingInv, NEW c \in Calls, NEW to \in {"asked", "answered", "omitted", "gone"},
         pc' = [pc EXCEPT ![c] = to], to = "asked" => phase = "up",
         holder' = IF holder = c THEN Nobody ELSE holder,
         joined' \in [Listings -> Tasks \cup {Nobody}],
         UNCHANGED <<provider, lingering, refresh, phase>>
  PROVE  MovingInv'
<1> USE Disjoint DEF Live, Scanning, Over
<1>1. PcTypes' /\ SlotTypes'
  BY DEF MovingInv, PcTypes, SlotTypes
<1>2. LockInv'
  BY DEF MovingInv, LockInv, PcTypes
<1>3. RegistryInv'
  BY DEF MovingInv, RegistryInv, SlotTypes, PcTypes
<1>4. QED
  BY <1>1, <1>2, <1>3 DEF MovingInv

(* A step of one coroutine in list_models(), which may take the lock.      *)
LEMMA RunMoves ==
  ASSUME MovingInv, NEW c \in Coroutines, pc[c] \in Live,
         NEW to \in Live \cup {Finished(c)}, pc' = [pc EXCEPT ![c] = to],
         holder' = IF to = "fetching" THEN c ELSE IF holder = c THEN Nobody ELSE holder,
         to = "fetching" => holder = Nobody,
         to \in {"queued", "fetching"} => provider # "comfyui",
         to \in {"asked"} \cup Scanning => pc[c] \in {"asked"} \cup Scanning,
         UNCHANGED <<provider, tasks, phase>>
  PROVE  MovingInv'
<1> USE Disjoint DEF Live, Scanning, Over, tasks
<1>0. Finished(c) = IF c \in Tasks THEN "done" ELSE "answered"
  BY DEF Finished
<1>1. PcTypes' /\ SlotTypes'
  <2>1. to \in {"done"} \cup Live \cup Over
    BY <1>0
  <2>2. pc' \in [Coroutines -> PcStates]
    BY <2>1 DEF MovingInv, PcTypes, PcStates
  <2>3. QED
    BY <1>0, <2>2 DEF MovingInv, PcTypes, PcStates, SlotTypes
<1>2. LockInv'
  BY <1>0 DEF MovingInv, LockInv, PcTypes
<1>3. RegistryInv'
  <2>1. phase # "up" => c \in Tasks /\ c # lingering
    BY DEF MovingInv, RegistryInv
  <2>2. refresh = c => to \in {"queued", "fetching", "done"}
    BY <1>0 DEF MovingInv, RegistryInv, SlotTypes
  <2>3. /\ c \in Calls => phase = "up"
        /\ phase \in {"closing", "closed"} => lingering = Nobody
        /\ phase = "closed" => refresh = Nobody
    BY <2>1 DEF MovingInv, RegistryInv
  <2>4. \A d \in Coroutines : pc'[d] = IF d = c THEN to ELSE pc[d]
    BY DEF MovingInv, PcTypes
  <2>5. pc[c] # "idle"
    OBVIOUS
  <2>6. QED
    BY <2>1, <2>2, <2>3, <2>4, <2>5 DEF MovingInv, RegistryInv, SlotTypes
<1>4. QED
  BY <1>1, <1>2, <1>3 DEF MovingInv

LEMMA AskMoves ==
  ASSUME MovingInv, NEW c \in Coroutines, Ask(c)
  PROVE  MovingInv'
<1> USE Disjoint DEF Live, Scanning, Over
<1>0. /\ pc[c] = "asked" /\ provider # "comfyui" /\ holder # c
      /\ UNCHANGED <<provider, holder, lingering, joined, phase>>
  BY DEF Ask, settings, MovingInv, LockInv
<1>1. ASSUME pc' = [pc EXCEPT ![c] = Finished(c)] \/ pc' = [pc EXCEPT ![c] = "queued"],
             UNCHANGED refresh
      PROVE  MovingInv'
  <2>1. PICK to \in {"queued", Finished(c)} : pc' = [pc EXCEPT ![c] = to]
    BY <1>1
  <2>2. to \notin {"asked", "fetching"} \cup Scanning /\ to \in Live \cup {Finished(c)}
    BY DEF Finished
  <2>3. QED
    BY <1>0, <1>1, <2>1, <2>2, RunMoves DEF tasks
<1>2. ASSUME NEW t \in Tasks \ {c}, JoinOrStart(refresh, t),
             pc' = [pc EXCEPT ![c] = Finished(c), ![t] = IF refresh = t THEN @ ELSE "queued"],
             refresh' = t
      PROVE  MovingInv'
  <2>1. /\ pc \in [Coroutines -> PcStates]
        /\ c \in Coroutines /\ t \in Coroutines /\ c # t
    BY DEF MovingInv, PcTypes, PcStates
  <2>2. [pc EXCEPT ![c] = Finished(c), ![t] = IF refresh = t THEN @ ELSE "queued"]
          = [d \in Coroutines |-> IF d = c THEN Finished(c)
                                  ELSE IF d = t /\ refresh # t THEN "queued" ELSE pc[d]]
    BY <2>1, TwoMove
  <2>3. \A d \in Coroutines : pc'[d] = IF d = c THEN Finished(c)
                                       ELSE IF d = t /\ refresh # t THEN "queued" ELSE pc[d]
    BY <1>2, <2>2
  <2>4. refresh = t \/ (refresh = Nobody /\ pc[t] = "idle")
    BY <1>2 DEF JoinOrStart
  <2>5. Finished(c) = IF c \in Tasks THEN "done" ELSE "answered"
    BY DEF Finished
  <2>6. phase = "up"
    BY <1>0 DEF MovingInv, RegistryInv, SlotTypes
  <2>7. PcTypes' /\ SlotTypes'
    <3>1. pc' = [d \in Coroutines |-> IF d = c THEN Finished(c)
                                      ELSE IF d = t /\ refresh # t THEN "queued" ELSE pc[d]]
      BY <1>2, <2>2
    <3>2. pc' \in [Coroutines -> {"idle", "done", "waiting"} \cup Live \cup Over]
      BY <3>1, <2>5 DEF MovingInv, PcTypes
    <3>3. QED
      BY <1>0, <1>2, <2>3, <2>5, <3>2 DEF MovingInv, PcTypes, SlotTypes
  <2>8. LockInv'
    BY <1>0, <2>3, <2>4, <2>5 DEF MovingInv, LockInv
  <2>9. RegistryInv'
    BY <1>0, <1>2, <2>3, <2>4, <2>5, <2>6 DEF MovingInv, RegistryInv, SlotTypes
  <2>10. QED
    BY <2>7, <2>8, <2>9 DEF MovingInv
<1>3. QED
  BY <1>1, <1>2 DEF Ask

LEMMA ForgetMoves ==
  ASSUME MovingInv, NEW t \in Tasks, Forget(t)
  PROVE  MovingInv'
<1> USE Disjoint DEF Live, Scanning, Over
<1>1. PcTypes' /\ SlotTypes'
  BY DEF Forget, MovingInv, PcTypes, SlotTypes
<1>2. LockInv'
  BY DEF Forget, settings, MovingInv, LockInv, PcTypes
<1>3. RegistryInv'
  BY DEF Forget, MovingInv, RegistryInv, SlotTypes, PcTypes
<1>4. QED
  BY <1>1, <1>2, <1>3 DEF MovingInv

(* cancel_all() on a registry that holds t, or nobody.                     *)
LEMMA CancelTaskMoves ==
  ASSUME MovingInv, NEW t \in {lingering, refresh}, CancelTask(t), UNCHANGED <<provider, tasks>>
  PROVE  /\ PcTypes' /\ LockInv'
         /\ \A c \in Coroutines : pc'[c] = IF c = t /\ pc[c] \in Live THEN "done" ELSE pc[c]
<1> USE Disjoint DEF Live, Scanning, Over
<1>1. t \in Tasks \cup {Nobody}
  BY DEF MovingInv, SlotTypes
<1>2. \A c \in Coroutines : pc'[c] = IF c = t /\ pc[c] \in Live THEN "done" ELSE pc[c]
  BY <1>1 DEF CancelTask, MovingInv, PcTypes
<1>3. PcTypes'
  BY <1>1 DEF CancelTask, MovingInv, PcTypes
<1>4. LockInv'
  BY <1>1, <1>2 DEF CancelTask, MovingInv, LockInv
<1>5. QED
  BY <1>2, <1>3, <1>4

LEMMA ShutdownMoves ==
  ASSUME MovingInv, ServingEnds \/ BackendCloses \/ ClientCloses
  PROVE  MovingInv'
<1> USE Disjoint DEF Live, Scanning, Over, tasks
<1>1. CASE ServingEnds
  <2>1. /\ PcTypes' /\ LockInv'
        /\ \A c \in Coroutines :
             pc'[c] = IF c = lingering /\ pc[c] \in Live THEN "done" ELSE pc[c]
    BY <1>1, CancelTaskMoves DEF ServingEnds, settings
  <2>2. SlotTypes' /\ RegistryInv'
    BY <1>1, <2>1 DEF ServingEnds, MovingInv, SlotTypes, RegistryInv
  <2>3. QED
    BY <2>1, <2>2 DEF MovingInv
<1>2. CASE BackendCloses
  <2>1. /\ PcTypes' /\ LockInv'
        /\ \A c \in Coroutines :
             pc'[c] = IF c = refresh /\ pc[c] \in Live THEN "done" ELSE pc[c]
    BY <1>2, CancelTaskMoves DEF BackendCloses, settings
  <2>2. SlotTypes' /\ RegistryInv'
    BY <1>2, <2>1 DEF BackendCloses, MovingInv, SlotTypes, RegistryInv
  <2>3. QED
    BY <2>1, <2>2 DEF MovingInv
<1>3. CASE ClientCloses
  BY <1>3 DEF ClientCloses, settings, MovingInv, PcTypes, SlotTypes, LockInv, RegistryInv
<1>4. QED
  BY <1>1, <1>2, <1>3

LEMMA MovingStep ==
  ASSUME KnownTypes, MovingInv, [Next]_vars
  PROVE  MovingInv'
<1> USE Disjoint
<1>1. ASSUME UNCHANGED <<provider, pc, holder, tasks, phase>> PROVE MovingInv'
  BY <1>1 DEF MovingInv, PcTypes, SlotTypes, LockInv, RegistryInv, tasks
<1>2. ASSUME NEW r \in Listings, NEW how \in {"answered", "omitted"}, Leaves(r, how)
      PROVE  MovingInv'
  <2>1. r \in Calls /\ holder # r
    BY <1>2 DEF MovingInv, LockInv, Leaves
  <2>2. joined' \in [Listings -> Tasks \cup {Nobody}]
    BY <1>2 DEF Leaves, MovingInv, SlotTypes
  <2>3. QED
    BY <1>2, <2>1, <2>2, CallMoves DEF Leaves, settings
<1>3. ASSUME NEW e \in Edits, Edit(e) PROVE MovingInv'
  <2>1. e \in Calls /\ holder # e
    BY <1>3 DEF MovingInv, LockInv, Edit
  <2>2. PICK to \in {"asked", "answered"} : pc' = [pc EXCEPT ![e] = to]
    BY <1>3 DEF Edit
  <2>3. QED
    BY <1>3, <2>1, <2>2, CallMoves DEF Edit, settings, tasks, MovingInv, SlotTypes
<1>4. ASSUME NEW c \in Coroutines, Acquire(c) PROVE MovingInv'
  <2>1. /\ pc[c] = "queued" /\ pc[c] \in Live /\ holder = Nobody /\ provider # "comfyui"
        /\ UNCHANGED <<provider, tasks, phase>>
    BY <1>4 DEF Acquire, settings, Live, MovingInv, LockInv
  <2>2. CASE Fresh(cache) \/ PendingFailure(cache, set)
    <3>1. pc' = [pc EXCEPT ![c] = Finished(c)] /\ holder' = holder
      BY <1>4, <2>2 DEF Acquire
    <3>2. Finished(c) \notin Live
      BY DEF Finished, Live, Scanning
    <3>3. QED
      BY <2>1, <3>1, <3>2, RunMoves DEF Live
  <2>3. CASE ~ (Fresh(cache) \/ PendingFailure(cache, set))
    <3>1. pc' = [pc EXCEPT ![c] = "fetching"] /\ holder' = c
      BY <1>4, <2>3 DEF Acquire
    <3>2. QED
      BY <2>1, <3>1, RunMoves DEF Live, Scanning
  <2>4. QED
    BY <2>2, <2>3
<1>5. ASSUME NEW c \in Coroutines, Fetched(c) PROVE MovingInv'
  <2>1. /\ pc[c] \in Live /\ holder = c /\ holder' = Nobody /\ pc' = [pc EXCEPT ![c] = Finished(c)]
        /\ UNCHANGED <<provider, tasks, phase>>
    BY <1>5 DEF Fetched, settings, Live, MovingInv, LockInv
  <2>2. Finished(c) \notin Live
    BY DEF Finished, Live, Scanning
  <2>3. QED
    BY <2>1, <2>2, RunMoves DEF Live
<1>6. ASSUME NEW c \in Coroutines, Look(c) \/ Stat(c) \/ Compare(c) \/ Scanned(c)
      PROVE  MovingInv'
  <2>1. /\ pc[c] \in {"asked"} \cup Scanning
        /\ UNCHANGED <<provider, holder, tasks, phase>>
    BY <1>6 DEF Look, Stat, Compare, Scanned, settings, Scanning
  <2>2. PICK to \in {"statting", "statted", "scanning", "reading", Finished(c)} :
          pc' = [pc EXCEPT ![c] = to]
    BY <1>6 DEF Look, Stat, Compare, Scanned
  <2>3. pc[c] \in Live /\ holder # c /\ to \in Live \cup {Finished(c)}
    BY <2>1 DEF Live, Scanning, MovingInv, LockInv
  <2>4. to \notin {"queued", "fetching"}
    BY DEF Finished
  <2>5. QED
    BY <2>1, <2>2, <2>3, <2>4, RunMoves
<1>7. ASSUME NEW c \in Calls, HangUp(c) PROVE MovingInv'
  BY <1>7, CallMoves DEF HangUp, settings, MovingInv, SlotTypes
<1>8. CASE Tick \/ DirChanges \/ UNCHANGED vars
  BY <1>1, <1>8 DEF Tick, DirChanges, vars, settings
<1>9. QED
  BY <1>2, <1>3, <1>4, <1>5, <1>6, <1>7, <1>8, ListMoves, AskMoves, ForgetMoves, ShutdownMoves
     DEF Next, Run, Serve, BudgetEnds
-----------------------------------------------------------------------------
(* Who has waited.                                                         *)
LEMMA WaitStep ==
  ASSUME KnownTypes, KnownInv, MovingInv, WaitInv, [Next]_vars
  PROVE  WaitInv'
<1> USE Disjoint
<1>1. ASSUME UNCHANGED <<set, authFailed, cache>>,
             waited' \in [Coroutines -> BOOLEAN],
             holder = Nobody => holder' = Nobody,
             \A c \in Coroutines : waited'[c] /\ pc[c] = "queued" => waited[c] /\ pc'[c] = "queued",
             \A c \in Coroutines : waited'[c] => waited[c]
      PROVE  WaitInv'
  <2>1. /\ Remembers' = Remembers
        /\ Fresh(cache)' = Fresh(cache) /\ PendingFailure(cache, set)' = PendingFailure(cache, set)
    BY <1>1 DEF Remembers, Fresh, Stale, PendingFailure, CooldownFor
  <2>2. QED
    BY <1>1, <2>1 DEF WaitInv
<1>2. ASSUME NEW r \in Listings, List(r) PROVE WaitInv'
  <2>1. \A c \in Coroutines : pc[c] = "queued" => pc'[c] = "queued"
    BY <1>2, ListPc DEF MovingInv
  <2>2. QED
    BY <1>1, <1>2, <2>1 DEF List, settings, WaitInv
<1>3. ASSUME NEW r \in Listings, NEW how, Leaves(r, how) PROVE WaitInv'
  BY <1>1, <1>3 DEF Leaves, settings, WaitInv, MovingInv, PcTypes
<1>4. ASSUME NEW e \in Edits, Edit(e) PROVE WaitInv'
  BY <1>1, <1>4 DEF Edit, settings, WaitInv, MovingInv, PcTypes
<1>5. ASSUME NEW c \in Coroutines, Ask(c) PROVE WaitInv'
  <2>1. \A d \in Coroutines : pc[d] = "queued" => pc'[d] = "queued"
    BY <1>5, AskPc DEF MovingInv
  <2>2. QED
    BY <1>1, <1>5, <2>1 DEF Ask, settings, WaitInv
<1>6. ASSUME NEW c \in Coroutines, Acquire(c) PROVE WaitInv'
  <2>1. CASE Fresh(cache) \/ PendingFailure(cache, set)
    BY <1>1, <1>6, <2>1 DEF Acquire, settings, WaitInv, MovingInv, PcTypes
  <2>2. CASE ~ (Fresh(cache) \/ PendingFailure(cache, set))
    BY <1>6, <2>2 DEF Acquire, settings, WaitInv, Remembers
  <2>3. QED
    BY <2>1, <2>2
<1>7. ASSUME NEW c \in Coroutines, Fetched(c) PROVE WaitInv'
  <2>1. Remembers' => Remembers /\ (Fresh(cache') \/ PendingFailure(cache', set'))
    BY <1>7, FetchedKnown DEF MovingInv
  <2>2. /\ holder' = Nobody
        /\ pc' = [pc EXCEPT ![c] = Finished(c)]
        /\ waited' = [d \in Coroutines |-> d # c /\ (waited[d] \/ pc[d] = "queued")]
    BY <1>7 DEF Fetched
  <2>3. waited' \in [Coroutines -> BOOLEAN]
    BY <2>2
  <2>4. ASSUME Remembers', NEW d \in Coroutines, waited'[d]
        PROVE  pc'[d] = "queued"
    BY <2>1, <2>2, <2>4 DEF WaitInv, MovingInv, PcTypes
  <2>5. QED
    BY <2>1, <2>2, <2>3, <2>4 DEF WaitInv
<1>8. ASSUME NEW c \in Coroutines, Look(c) \/ Stat(c) \/ Compare(c) \/ Scanned(c) PROVE WaitInv'
  <2>1. PICK to : pc' = [pc EXCEPT ![c] = to] /\ pc[c] # "queued"
    BY <1>8 DEF Look, Stat, Compare, Scanned
  <2>2. UNCHANGED <<set, authFailed, cache, holder, waited>>
    BY <1>8 DEF Look, Stat, Compare, Scanned, settings
  <2>3. QED
    BY <1>1, <2>1, <2>2 DEF WaitInv, MovingInv, PcTypes
<1>9. ASSUME NEW t \in Tasks, Forget(t) PROVE WaitInv'
  BY <1>1, <1>9 DEF Forget, settings, WaitInv, MovingInv, PcTypes
<1>10. ASSUME NEW c \in Calls, HangUp(c) PROVE WaitInv'
  BY <1>1, <1>10 DEF HangUp, settings, WaitInv, MovingInv, PcTypes
<1>11. ASSUME NEW t, CancelTask(t), UNCHANGED <<set, authFailed, cache>> PROVE WaitInv'
  <2>1. waited' = [c \in Coroutines |-> c # t /\ waited[c]]
    BY <1>11 DEF CancelTask
  <2>2. \A c \in Coroutines : c # t => pc'[c] = pc[c]
    BY <1>11 DEF CancelTask, MovingInv, PcTypes
  <2>3. holder = Nobody => holder' = Nobody
    BY <1>11 DEF CancelTask
  <2>4. QED
    BY <1>1, <1>11, <2>1, <2>2, <2>3 DEF WaitInv
<1>12. CASE ServingEnds \/ BackendCloses
  BY <1>11, <1>12 DEF ServingEnds, BackendCloses, settings
<1>13. CASE ClientCloses \/ DirChanges \/ UNCHANGED vars
  BY <1>1, <1>13 DEF ClientCloses, DirChanges, vars, settings, WaitInv
<1>14. CASE Tick
  <2>1. Remembers => \A c \in Coroutines : ~ waited[c]
    BY <1>14 DEF Tick, AllWait, WaitInv
  <2>2. QED
    BY <1>14, <2>1 DEF Tick, settings, WaitInv, Remembers
<1>15. QED
  BY <1>2, <1>3, <1>4, <1>5, <1>6, <1>7, <1>8, <1>9, <1>10, <1>12, <1>13, <1>14
     DEF Next, Run, Serve, BudgetEnds
-----------------------------------------------------------------------------
(* ComfyUI's scans.                                                        *)
Versions == 0 .. MaxChanges
ScanType == [begun : Versions, stamp : Versions, got : Versions]

Unscanned == {"idle", "waiting", "asked", "queued", "fetching"}

(* A step that neither scans nor changes the directory.                    *)
LEMMA NoScanStep ==
  ASSUME ScanTypes, ScanInv, UNCHANGED <<set, dirVars>>,
         \A c \in Coroutines :
           \/ pc'[c] = pc[c] \/ pc'[c] = "gone"
           \/ pc[c] \in Unscanned /\ pc'[c] \notin {"statting", "statted"}
  PROVE  ScanTypes' /\ ScanInv'
  BY DEF ScanTypes, ScanInv, dirVars, Unscanned

(* A task whose scan is forgotten.                                         *)
LEMMA ForgottenScan ==
  ASSUME ScanTypes, ScanInv, NEW t, UNCHANGED <<set, dir, workflows>>,
         scan' = [c \in Coroutines |-> IF c = t THEN NoScan ELSE scan[c]],
         \A c \in Coroutines : c # t => pc'[c] = pc[c],
         t \in Coroutines => pc'[t] = pc[t] \/ pc'[t] \in {"idle", "done"}
  PROVE  ScanTypes' /\ ScanInv'
<1>1. ScanTypes'
  BY CatalogueAssumption DEF ScanTypes, NoScan
<1>2. ScanInv'
  BY CatalogueAssumption DEF ScanTypes, ScanInv, NoScan
<1>3. QED
  BY <1>1, <1>2

(* One coroutine's view changes.                                           *)
LEMMA OneScan ==
  ASSUME ScanTypes, ScanInv, PcTypes, NEW c \in Coroutines, NEW to, NEW view \in ScanType,
         UNCHANGED <<set, dir>>,
         pc' = [pc EXCEPT ![c] = to], scan' = [scan EXCEPT ![c] = view],
         workflows' \in [records : Versions, stamp : Versions] \cup {NoValue},
         workflows # NoValue => workflows' # NoValue,
         workflows' # NoValue => workflows'.stamp <= workflows'.records /\ workflows'.records <= dir,
         view.begun <= view.stamp /\ view.stamp <= dir /\ view.got <= dir,
         to \in {"statting", "statted"} => workflows # NoValue,
         to \notin Unscanned,
         ~ set.pinned /\ to \in {"done", "answered"} => view.begun <= view.got
  PROVE  ScanTypes' /\ ScanInv'
<1>1. \A d \in Coroutines : /\ pc'[d] = IF d = c THEN to ELSE pc[d]
                            /\ scan'[d] = IF d = c THEN view ELSE scan[d]
  BY DEF PcTypes, ScanTypes
<1>2. ScanTypes'
  BY DEF ScanTypes, ScanType, Versions
<1>3. ScanInv'
  BY <1>1 DEF ScanInv, Unscanned
<1>4. QED
  BY <1>2, <1>3

LEMMA ScanStep ==
  ASSUME KnownTypes, MovingInv, ScanTypes, ScanInv, [Next]_vars
  PROVE  ScanTypes' /\ ScanInv'
<1> USE Disjoint
<1>0. PcTypes
  BY DEF MovingInv
<1>1. ASSUME NEW r \in Listings, List(r) PROVE ScanTypes' /\ ScanInv'
  BY <1>0, <1>1, ListPc, NoScanStep DEF List, settings, Unscanned
<1>2. ASSUME NEW r \in Listings, Serve(r) \/ BudgetEnds(r) PROVE ScanTypes' /\ ScanInv'
  BY <1>0, <1>2, NoScanStep DEF Serve, BudgetEnds, Leaves, settings, Unscanned, PcTypes
<1>3. ASSUME NEW e \in Edits, Edit(e) PROVE ScanTypes' /\ ScanInv'
  BY <1>0, <1>3, NoScanStep DEF Edit, settings, Unscanned, PcTypes
<1>4. ASSUME NEW c \in Coroutines, Ask(c) PROVE ScanTypes' /\ ScanInv'
  BY <1>0, <1>4, AskPc, NoScanStep DEF Ask, settings, Unscanned
<1>5. ASSUME NEW c \in Coroutines, Acquire(c) \/ Fetched(c) PROVE ScanTypes' /\ ScanInv'
  <2>1. PICK to \in {"done", "answered", "fetching"} : pc' = [pc EXCEPT ![c] = to]
    BY <1>5 DEF Acquire, Fetched, Finished
  <2>2. pc[c] \in {"queued", "fetching"} /\ UNCHANGED <<set, dirVars>>
    BY <1>5 DEF Acquire, Fetched, settings
  <2>3. QED
    BY <1>0, <2>1, <2>2, NoScanStep DEF Unscanned, PcTypes
<1>6. ASSUME NEW c \in Calls, HangUp(c) PROVE ScanTypes' /\ ScanInv'
  BY <1>0, <1>6, NoScanStep DEF HangUp, settings, PcTypes
<1>7. CASE ClientCloses \/ Tick \/ UNCHANGED vars
  BY <1>7, NoScanStep DEF ClientCloses, Tick, vars, settings
<1>8. ASSUME NEW t \in Tasks, Forget(t) PROVE ScanTypes' /\ ScanInv'
  <2>1. scan' = [c \in Coroutines |-> IF c = t THEN NoScan ELSE scan[c]]
    BY <1>8 DEF Forget, ScanTypes
  <2>2. /\ \A c \in Coroutines : c # t => pc'[c] = pc[c]
        /\ pc'[t] = "idle" /\ UNCHANGED <<set, dir, workflows>>
    BY <1>0, <1>8 DEF Forget, settings, PcTypes
  <2>3. QED
    BY <2>1, <2>2, ForgottenScan
<1>9. ASSUME NEW t, CancelTask(t), UNCHANGED set PROVE ScanTypes' /\ ScanInv'
  <2>1. scan' = [c \in Coroutines |-> IF c = t THEN NoScan ELSE scan[c]]
    BY <1>9 DEF CancelTask
  <2>2. /\ \A c \in Coroutines : c # t => pc'[c] = pc[c]
        /\ t \in Coroutines => pc'[t] = pc[t] \/ pc'[t] \in {"idle", "done"}
        /\ UNCHANGED <<set, dir, workflows>>
    BY <1>0, <1>9 DEF CancelTask, PcTypes
  <2>3. QED
    BY <2>1, <2>2, ForgottenScan
<1>10. CASE ServingEnds \/ BackendCloses
  BY <1>9, <1>10 DEF ServingEnds, BackendCloses, settings
<1>11. CASE DirChanges
  <2>1. dir' = dir + 1 /\ dir' \in Versions /\ UNCHANGED <<set, pc, workflows, scan>>
    BY <1>11, CatalogueAssumption DEF DirChanges, settings, ScanTypes, Versions
  <2>2. ScanTypes'
    BY <2>1 DEF ScanTypes, Versions
  <2>3. /\ workflows # NoValue => workflows.records \in Int
        /\ dir \in Int /\ \A c \in Coroutines : scan[c].stamp \in Int /\ scan[c].got \in Int
    BY CatalogueAssumption DEF ScanTypes
  <2>4. ScanInv'
    BY <2>1, <2>3 DEF ScanInv
  <2>5. QED
    BY <2>2, <2>4
<1>12. ASSUME NEW c \in Coroutines, Look(c) PROVE ScanTypes' /\ ScanInv'
  <2> DEFINE got == IF workflows = NoValue THEN 0 ELSE workflows.records
             view == [begun |-> dir, stamp |-> dir, got |-> got]
  <2>1. got \in Versions /\ got <= dir /\ dir \in Versions
    BY CatalogueAssumption DEF ScanTypes, ScanInv, Versions
  <2>2. PICK to \in {"scanning", Finished(c), "statting"} :
          /\ pc' = [pc EXCEPT ![c] = to] /\ scan' = [scan EXCEPT ![c] = view]
          /\ to = "statting" => workflows # NoValue
          /\ to = Finished(c) => set.pinned
    BY <1>12 DEF Look, Finished
  <2>3. /\ view \in ScanType /\ view.begun = dir /\ view.stamp = dir /\ view.got = got
        /\ UNCHANGED <<set, dir, workflows>> /\ Finished(c) \in {"done", "answered"}
    BY <1>12, <2>1 DEF Look, settings, ScanType, Finished
  <2> HIDE DEF view, got
  <2>4. /\ workflows \in [records : Versions, stamp : Versions] \cup {NoValue}
        /\ workflows # NoValue => workflows.stamp <= workflows.records /\ workflows.records <= dir
        /\ dir <= dir
    BY <2>1 DEF ScanTypes, ScanInv, Versions
  <2>5. /\ to \notin Unscanned /\ (to = "statted" => FALSE)
        /\ to \in {"done", "answered"} => set.pinned
    BY <2>2, <2>3 DEF Unscanned
  <2>6. QED
    BY <1>0, <2>1, <2>2, <2>3, <2>4, <2>5, OneScan
<1>13. ASSUME NEW c \in Coroutines, Stat(c) PROVE ScanTypes' /\ ScanInv'
  <2> DEFINE view == [scan[c] EXCEPT !.stamp = dir]
             to == IF pc[c] = "statting" THEN "statted" ELSE "reading"
  <2>1. /\ view \in ScanType /\ view.begun = scan[c].begun /\ view.stamp = dir
        /\ view.got = scan[c].got
    BY DEF ScanTypes, ScanType, Versions
  <2>2. /\ pc[c] \in {"statting", "scanning"}
        /\ pc' = [pc EXCEPT ![c] = to] /\ scan' = [scan EXCEPT ![c] = view]
        /\ UNCHANGED <<set, dir, workflows>>
    BY <1>13 DEF Stat, settings
  <2>3. /\ workflows \in [records : Versions, stamp : Versions] \cup {NoValue}
        /\ workflows # NoValue => workflows.stamp <= workflows.records /\ workflows.records <= dir
        /\ scan[c].begun <= dir /\ scan[c].got <= dir /\ dir <= dir
        /\ pc[c] = "statting" => workflows # NoValue
    BY CatalogueAssumption DEF ScanTypes, ScanInv, Versions
  <2>4. /\ to \notin Unscanned /\ to \notin {"done", "answered", "statting"}
        /\ to = "statted" => pc[c] = "statting"
    BY DEF Unscanned
  <2> HIDE DEF view, to
  <2>5. QED
    BY <1>0, <2>1, <2>2, <2>3, <2>4, OneScan
<1>14. ASSUME NEW c \in Coroutines, Compare(c) PROVE ScanTypes' /\ ScanInv'
  <2>1. /\ workflows \in [records : Versions, stamp : Versions] /\ workflows # NoValue
        /\ workflows.stamp <= workflows.records /\ workflows.records <= dir
        /\ scan[c] \in ScanType /\ dir \in Versions
        /\ scan[c].begun <= scan[c].stamp /\ scan[c].stamp <= dir /\ scan[c].got <= dir
        /\ UNCHANGED <<set, dir, workflows>>
    BY <1>14 DEF Compare, settings, ScanTypes, ScanInv, ScanType, Versions
  <2>2. CASE scan[c].stamp = workflows.stamp
    <3> DEFINE view == [scan[c] EXCEPT !.got = workflows.records]
    <3>1. /\ view \in ScanType /\ view.begun = scan[c].begun /\ view.stamp = scan[c].stamp
          /\ view.got = workflows.records
      BY <2>1 DEF ScanType
    <3>2. pc' = [pc EXCEPT ![c] = Finished(c)] /\ scan' = [scan EXCEPT ![c] = view]
      BY <1>14, <2>2 DEF Compare
    <3>3. view.begun <= view.got
      BY <2>1, <2>2, <3>1 DEF ScanType, Versions
    <3>4. Finished(c) \in {"done", "answered"}
      BY DEF Finished
    <3> HIDE DEF view
    <3>5. QED
      BY <1>0, <2>1, <3>1, <3>2, <3>3, <3>4, OneScan DEF Unscanned
  <2>3. CASE scan[c].stamp # workflows.stamp
    <3>1. pc' = [pc EXCEPT ![c] = "scanning"] /\ scan' = [scan EXCEPT ![c] = scan[c]]
      BY <1>14, <2>3 DEF Compare, ScanTypes
    <3>2. QED
      BY <1>0, <2>1, <3>1, OneScan DEF Unscanned
  <2>4. QED
    BY <2>2, <2>3
<1>15. ASSUME NEW c \in Coroutines, Scanned(c) PROVE ScanTypes' /\ ScanInv'
  <2>1. PICK version \in scan[c].stamp .. dir :
          /\ workflows' = [records |-> version, stamp |-> scan[c].stamp]
          /\ scan' = [scan EXCEPT ![c].got = version]
    BY <1>15 DEF Scanned
  <2>2. /\ scan[c] \in ScanType /\ dir \in Versions
        /\ scan[c].begun <= scan[c].stamp /\ scan[c].stamp <= dir
        /\ pc' = [pc EXCEPT ![c] = Finished(c)] /\ UNCHANGED <<set, dir>>
    BY <1>15 DEF Scanned, settings, ScanTypes, ScanInv, ScanType, Versions
  <2>3. /\ version \in Versions /\ version <= dir
        /\ scan[c].stamp <= version /\ scan[c].begun <= version
    BY <2>2, CatalogueAssumption DEF ScanType, Versions
  <2> DEFINE view == [scan[c] EXCEPT !.got = version]
  <2>4. /\ view \in ScanType /\ view.begun = scan[c].begun /\ view.stamp = scan[c].stamp
        /\ view.got = version /\ scan' = [scan EXCEPT ![c] = view]
    BY <2>1, <2>2, <2>3 DEF ScanType
  <2>5. /\ workflows' \in [records : Versions, stamp : Versions]
        /\ workflows'.stamp = scan[c].stamp /\ workflows'.records = version
    BY <2>1, <2>2, <2>3 DEF ScanType
  <2>6. workflows' # NoValue
    BY <2>1, <2>2, <2>3, CatalogueAssumption DEF ScanType, Versions
  <2>7. Finished(c) \in {"done", "answered"}
    BY DEF Finished
  <2> HIDE DEF view
  <2>8. QED
    BY <1>0, <2>2, <2>3, <2>4, <2>5, <2>6, <2>7, OneScan DEF Unscanned
<1>16. QED
  BY <1>1, <1>2, <1>3, <1>4, <1>5, <1>6, <1>7, <1>8, <1>10, <1>11, <1>12, <1>13, <1>14, <1>15
     DEF Next, Run
-----------------------------------------------------------------------------
(* The invariant, and what follows from it.                                *)
LEMMA InitCatalogue == Init => CatalogueInv
<1> SUFFICES ASSUME Init PROVE CatalogueInv
  OBVIOUS
<1> USE Disjoint DEF Init
<1>1. set \in SetType /\ cache = [value |-> NoValue, age |-> 0, ttl |-> set.ttl,
                                  failure |-> "none", since |-> 0]
  BY CatalogueAssumption DEF SetType, EmptyCache
<1>2. KnownTypes /\ KnownInv
  <2>1. cache \in CacheType /\ cache.value = NoValue
    BY <1>1 DEF SetType, CacheType
  <2>2. KnownTypes
    BY <2>1 DEF KnownTypes, CacheType
  <2>3. KnownInv
    BY <2>1 DEF KnownInv
  <2>4. QED
    BY <2>2, <2>3
<1>3. PcTypes /\ SlotTypes
  BY DEF PcTypes, SlotTypes
<1>4. LockInv /\ RegistryInv
  BY DEF LockInv, RegistryInv
<1>5. WaitInv
  BY DEF WaitInv
<1>6. ScanTypes
  BY CatalogueAssumption DEF ScanTypes, NoScan
<1>7. ScanInv
  BY CatalogueAssumption DEF ScanInv, NoScan
<1>8. QED
  BY <1>2, <1>3, <1>4, <1>5, <1>6, <1>7 DEF CatalogueInv

LEMMA CatalogueStep == CatalogueInv /\ [Next]_vars => CatalogueInv'
  BY KnownStep, MovingStep, WaitStep, ScanStep DEF CatalogueInv, MovingInv

(* Whatever the clients, the upstream, the operator and the shutdown do.   *)
THEOREM CatalogueCorrect == Spec => []CatalogueInv
  BY InitCatalogue, CatalogueStep, PTL DEF Spec

(* The types.                                                              *)
THEOREM TypeCorrect == Spec => []TypeOK
<1>1. CatalogueInv => TypeOK
  <2> SUFFICES ASSUME CatalogueInv PROVE TypeOK
    OBVIOUS
  <2>1. cache.value = NoValue \/ cache.value.whole \in BOOLEAN
    BY DEF CatalogueInv, KnownTypes, CacheType, Listing
  <2>2. QED
    BY <2>1 DEF CatalogueInv, KnownTypes, CacheType, PcTypes, SlotTypes, ScanTypes, WaitInv, TypeOK
<1>2. QED
  BY <1>1, CatalogueCorrect, PTL

(* No refresh, however it ends, takes away a model or a route, but Venice's *)
(* without the inpaint half: that one takes the models that only edit, and *)
(* is served for the retry window.                                         *)
THEOREM NothingLost == Spec => []NothingIsLost
<1>1. CatalogueInv => NothingIsLost
  <2> SUFFICES ASSUME CatalogueInv PROVE NothingIsLost
    OBVIOUS
  <2> DEFINE listed == cache.value.ids
             read == cache.value.of
  <2>1. ASSUME lastGood # NoValue, provider # "plain"
        PROVE  routes = RoutesOf(lastGood)
    BY <2>1 DEF CatalogueInv, KnownInv
  <2>2. ASSUME cache.value # NoValue
        PROVE  ListingInv /\ read \in Catalogues
    BY <2>2, KnownFacts DEF CatalogueInv, KnownInv, CacheType, Listing
  <2>3. ASSUME cache.value # NoValue,
               NEW id \in (DOMAIN read \cup (IF IsFal THEN Configured ELSE {})) \ listed
        PROVE  \/ \E m \in DOMAIN routes \cap listed : routes[m] = id
               \/ ~ cache.value.whole /\ read[id] # "text-to-image"
    <3>1. CASE cache.value.whole /\ provider \in {"fal", "venice"}
      <4>1. read = lastGood /\ listed = ListingOf(read) /\ lastGood # NoValue
        BY <2>2, <2>3, <3>1, CatalogueAssumption DEF ListingInv
      <4>2. routes = RoutesOf(read)
        BY <2>1, <3>1, <4>1
      <4>3. QED
        BY <2>3, <4>1, <4>2, NothingLeftOut
    <3>2. CASE cache.value.whole /\ provider \notin {"fal", "venice"}
      BY <2>2, <2>3, <3>2 DEF ListingInv, IsFal
    <3>3. CASE ~ cache.value.whole
      <4>1. provider = "venice" /\ listed = TextOnly(read)
        BY <2>2, <2>3, <3>3 DEF ListingInv
      <4>2. id \in DOMAIN read /\ id \notin TextOnly(read)
        BY <2>3, <4>1 DEF IsFal
      <4>3. QED
        BY <3>3, <4>2 DEF TextOnly
    <3>4. QED
      BY <3>1, <3>2, <3>3
  <2>4. ASSUME cache.value # NoValue, ~ cache.value.whole, Fresh(cache)
        PROVE  cache.age < set.retry
    <3>1. cache.age < cache.ttl /\ cache.ttl <= set.retry
      BY <2>2, <2>4 DEF Fresh, ListingInv
    <3>2. cache.age \in Nat /\ cache.ttl \in Nat /\ set.retry \in Nat
      BY KnownFacts DEF CatalogueInv, CacheType
    <3>3. QED
      BY <3>1, <3>2
  <2>5. ASSUME cache.value # NoValue, cache.value.whole, provider \in {"fal", "venice"}
        PROVE  read = lastGood
    BY <2>2, <2>5 DEF ListingInv
  <2>6. lastGood = NoValue => routes = EmptyMap
    BY DEF CatalogueInv, KnownInv
  <2> HIDE DEF listed, read
  <2>7. QED
    BY <2>1, <2>3, <2>4, <2>5, <2>6 DEF NothingIsLost, RoutesOf, listed, read
<1>2. QED
  BY <1>1, CatalogueCorrect, PTL

(* Nobody pays for two fetches in a row.                                   *)
THEOREM PaidOnce == Spec => []PaysOnce
<1>1. CatalogueInv => PaysOnce
  BY DEF CatalogueInv, WaitInv, Remembers, PaysOnce
<1>2. QED
  BY <1>1, CatalogueCorrect, PTL

(* The shutdown finds every fetch.                                         *)
THEOREM NoneAfterClose == Spec => []NothingAfterClose
<1>1. CatalogueInv => NothingAfterClose
  <2> SUFFICES ASSUME CatalogueInv, phase = "closed", NEW c \in Coroutines
               PROVE  pc[c] \notin Live
    BY DEF NothingAfterClose
  <2>1. CASE c \in Calls
    BY <2>1 DEF CatalogueInv, RegistryInv, Over, Live, Scanning
  <2>2. CASE c \in Tasks
    BY <2>2, Disjoint DEF CatalogueInv, RegistryInv, Live, Scanning
  <2>3. QED
    BY <2>1, <2>2, Disjoint
<1>2. QED
  BY <1>1, CatalogueCorrect, PTL

(* A request works with the workflows of its time, or later ones.          *)
THEOREM ChangesSeen == Spec => []SeesChanges
<1>1. CatalogueInv => SeesChanges
  <2> SUFFICES ASSUME CatalogueInv, ~ set.pinned,
                      NEW c \in Coroutines, pc[c] \in {"done", "answered"}
               PROVE  scan[c].got >= scan[c].begun
    BY DEF SeesChanges
  <2>1. scan[c].begun <= scan[c].got
    BY DEF CatalogueInv, ScanInv
  <2>2. scan[c].begun \in Int /\ scan[c].got \in Int
    BY DEF CatalogueInv, ScanTypes
  <2>3. QED
    BY <2>1, <2>2
<1>2. QED
  BY <1>1, CatalogueCorrect, PTL

(* No request ends a task's fetch, and a fetch that ends moves no request. *)
LEMMA FetchKept ==
  ASSUME CatalogueInv, [Next]_vars, NEW t \in Tasks, pc[t] = "fetching", pc'[t] # "fetching"
  PROVE  phase' # "up" \/ \A c \in Calls : pc'[c] = pc[c]
<1> USE Disjoint DEF Live, Scanning
<1>0. PcTypes
  BY DEF CatalogueInv
<1>1. ASSUME NEW c \in Calls, NEW to, pc' = [pc EXCEPT ![c] = to] PROVE FALSE
  BY <1>0, <1>1 DEF PcTypes
<1>2. ASSUME NEW r \in Listings, List(r) \/ Serve(r) \/ BudgetEnds(r) PROVE FALSE
  <2>1. ~ List(r)
    BY <1>0, ListPc
  <2>2. r \in Calls
    OBVIOUS
  <2>3. QED
    BY <1>1, <1>2, <2>1, <2>2 DEF Serve, BudgetEnds, Leaves
<1>3. ASSUME NEW e \in Edits, Edit(e) PROVE FALSE
  BY <1>1, <1>3 DEF Edit
<1>4. ASSUME NEW c \in Calls, HangUp(c) PROVE FALSE
  BY <1>1, <1>4 DEF HangUp
<1>5. ASSUME NEW c \in Coroutines, Run(c) PROVE \A d \in Calls : pc'[d] = pc[d]
  <2>1. ~ Ask(c)
    BY <1>0, AskPc
  <2>2. PICK to : pc' = [pc EXCEPT ![c] = to]
    BY <1>5, <2>1 DEF Run, Acquire, Fetched, Look, Stat, Compare, Scanned
  <2>3. c = t
    BY <1>0, <2>2 DEF PcTypes
  <2>4. QED
    BY <1>0, <2>2, <2>3 DEF PcTypes
<1>6. ASSUME NEW u \in Tasks, Forget(u) PROVE \A d \in Calls : pc'[d] = pc[d]
  BY <1>0, <1>6 DEF Forget, PcTypes
<1>7. CASE ServingEnds \/ BackendCloses
  BY <1>7 DEF ServingEnds, BackendCloses
<1>8. CASE ClientCloses \/ Tick \/ DirChanges \/ UNCHANGED vars
  BY <1>8 DEF ClientCloses, Tick, DirChanges, vars
<1>9. QED
  BY <1>2, <1>3, <1>4, <1>5, <1>6, <1>7, <1>8 DEF Next

THEOREM SlowSurvives == Spec => SlowIsNotKilled
<1>1. CatalogueInv /\ [Next]_vars =>
        [\A t \in Tasks : pc[t] = "fetching" /\ pc'[t] # "fetching" =>
           phase' # "up" \/ \A c \in Calls : pc'[c] = pc[c]]_vars
  BY FetchKept
<1>2. QED
  BY <1>1, CatalogueCorrect, PTL DEF Spec, SlowIsNotKilled
=============================================================================
