---------------------------- MODULE MCCatalogue ----------------------------
(* Two listings, an edit, and as many tasks as they can keep busy.  The    *)
(* last setting disables the cache, the one before it the failure memory.  *)
EXTENDS Catalogue, TLC

CONSTANTS l1, l2, e1, t1, t2

TwoListings == {l1, l2}
OneEdit == {e1}
TwoTasks == {t1, t2}
AllProviders == {"fal", "venice", "plain", "comfyui"}

SomeSettings ==
  {[ttl |-> 2, retry |-> 1, budget |-> TRUE, pinned |-> FALSE],
   [ttl |-> 1, retry |-> 0, budget |-> TRUE, pinned |-> TRUE],
   [ttl |-> 0, retry |-> 1, budget |-> FALSE, pinned |-> FALSE]}

(* A pair by suffix, one by stem, a chain that must not be followed, and a *)
(* reference-only model; the same models unpaired; nothing.                *)
ThreeCatalogues ==
  {<<"a">> :> "text-to-image" @@ <<"a", "edit">> :> "image-to-image"
     @@ <<"a", "edit", "edit">> :> "image-to-image" @@ <<"b">> :> "image-to-image"
     @@ <<"v", "text-to-video">> :> "text-to-video" @@ <<"v", "image-to-video">> :> "image-to-video",
   <<"a">> :> "text-to-image" @@ <<"a", "edit">> :> "text-to-image"
     @@ <<"a", "edit", "edit">> :> "image-to-image",
   [id \in {} |-> ""]}

OneConfigured == {<<"a", "edit">>, <<"c">>}
=============================================================================
