------------------------------ MODULE Variants ------------------------------
(***************************************************************************)
(* backends/fal/catalog.py, and its counterpart in the Venice adapter: a   *)
(* model's text-driven half and the half that takes a reference image are  *)
(* listed as one model, and routed by the shape of the request.            *)
(*                                                                         *)
(* An id is the sequence of its parts.  A raw catalogue is a function from *)
(* the ids it lists to their categories.                                   *)
(***************************************************************************)
EXTENDS Naturals, Sequences, SequencesExt, Functions, FiniteSetsExt

TextDriven == {"text-to-image", "text-to-video"}

PartnerCategory(category) ==
  IF category = "text-to-image" THEN "image-to-image" ELSE "image-to-video"

PartnerSuffixes(category) ==
  IF category = "text-to-image" THEN <<"edit", "image-to-image", "edit-image">>
                                ELSE <<"image-to-video", "edit">>

VariantCandidates(id, category) ==
  LET stemmed == Len(id) > 1 /\ Last(id) = category
      After(base) == [i \in DOMAIN PartnerSuffixes(category) |-> Append(base, PartnerSuffixes(category)[i])]
  IN  IF stemmed THEN After(Front(id)) \o After(id) ELSE After(id)

(* The candidates, by position, that are in the catalogue as the category  *)
(* expected.                                                               *)
Partners(raw, id) ==
  {i \in 1 .. Len(VariantCandidates(id, raw[id])) :
     LET other == VariantCandidates(id, raw[id])[i]
     IN  /\ raw[id] \in TextDriven
         /\ other \in DOMAIN raw
         /\ raw[other] = PartnerCategory(raw[id])}

PairVariants(raw) ==
  [id \in {i \in DOMAIN raw : Partners(raw, i) # {}} |->
     VariantCandidates(id, raw[id])[Min(Partners(raw, id))]]

(* entries_from_catalog(), with the configured models the catalogue lacks. *)
FalListed(raw, configured) == (DOMAIN raw \cup configured) \ Range(PairVariants(raw))

-----------------------------------------------------------------------------
(* Venice's two listings are the two categories of images.                 *)

VeniceRoutes(raw) ==
  LET EditHalf(id) == {other \in DOMAIN raw : /\ raw[other] = "image-to-image"
                                      /\ other = Append(id, "edit")}
  IN  [id \in {i \in DOMAIN raw : raw[i] = "text-to-image" /\ EditHalf(i) # {}}
         |-> Append(id, "edit")]

VeniceListed(raw) == DOMAIN raw \ Range(VeniceRoutes(raw))

TextOnly(raw) == {id \in DOMAIN raw : raw[id] = "text-to-image"}
=============================================================================
