----------------------------- MODULE Workflows -----------------------------
(***************************************************************************)
(* backends/comfyui/workflows.py and util/aspect.py: what the directory of *)
(* workflows offers, and what one run of a workflow is told to render.     *)
(*                                                                         *)
(* A file is [slug, meta, graph].  A meta names the prompt's node, the     *)
(* image slots and, if it offers a choice of aspect ratios, their node and *)
(* the menu.  A graph has nodes, some of which take a ratio, and the ratio *)
(* it was saved with.  A ratio is <<width, height>>, as it is spelled.     *)
(***************************************************************************)
EXTENDS Integers, Sequences, SequencesExt, FiniteSetsExt

CONSTANTS NoMeta, Unreadable, NoNode

NoRatio == <<0, 0>>

ParseAspectRatio(r) == IF r[1] <= 0 \/ r[2] <= 0 THEN NoRatio ELSE r

(* In the order declared; what is no ratio, or is one again, is dropped.   *)
ParseAspectRatios(raw) ==
  LET Keep(seen, r) == IF ParseAspectRatio(r) = NoRatio \/ Contains(seen, r)
                       THEN seen ELSE Append(seen, r)
  IN  FoldLeft(Keep, <<>>, raw)

(* |log a - log b| <= |log a - log c|, without logarithms.                 *)
NoFarther(a, b, c) ==
  LET Far(x) == Max({a[1] * x[2], a[2] * x[1]})
      Near(x) == Min({a[1] * x[2], a[2] * x[1]})
  IN  Far(b) * Near(c) <= Far(c) * Near(b)

SnapAspectRatio(asked, options) ==
  LET nearest == {i \in DOMAIN options :
                    \A j \in DOMAIN options : NoFarther(asked, options[i], options[j])}
  IN  CASE options = <<>> \/ ParseAspectRatio(asked) = NoRatio -> NoRatio
        [] Contains(options, asked) -> asked
        [] OTHER -> options[Min(nearest)]

-----------------------------------------------------------------------------
(* The menu is offered only if it can be honoured.                         *)
ResolveAspectRatios(meta, graph) ==
  IF /\ meta.ratioNode # NoNode
     /\ graph # Unreadable
     /\ meta.ratioNode \in graph.nodes /\ meta.ratioNode \in graph.ratioNodes
  THEN ParseAspectRatios(meta.ratios) ELSE <<>>

OutputTypeOf(meta, graph) ==
  IF meta.type # "auto" THEN meta.type ELSE IF graph.video THEN "video" ELSE "image"

WorkflowRecord(file) ==
  LET ratios == ResolveAspectRatios(file.meta, file.graph)
  IN  [meta |-> file.meta,
       graph |-> file.graph,
       type |-> OutputTypeOf(file.meta, file.graph),
       ratios |-> ratios,
       default |-> IF ratios = <<>> THEN NoRatio ELSE ParseAspectRatio(file.graph.saved)]

(* The first of two files that yield the same slug is kept.                *)
ScanWorkflows(files) ==
  LET usable == {i \in DOMAIN files : /\ files[i].meta # NoMeta
                                      /\ files[i].meta.type = "auto" => files[i].graph # Unreadable}
      First(slug) == Min({i \in usable : files[i].slug = slug})
  IN  [slug \in {files[i].slug : i \in usable} |-> WorkflowRecord(files[First(slug)])]

-----------------------------------------------------------------------------
(* How many of the images the slots that are in the graph take.            *)
Consumed(slots, graph, images) ==
  LET present == {i \in DOMAIN slots : slots[i].node \in graph.nodes}
  IN  IF \E i \in present : slots[i].multiple THEN images
      ELSE Min({Cardinality(present), images})

(* prepare_workflow(), from a graph that is read again for every request:  *)
(* the error it raises, or the images and the ratio of the run.            *)
PrepareWorkflow(record, graph, images, asked) ==
  LET chosen == SnapAspectRatio(asked, record.ratios)
      Result(error, used, ratio) == [error |-> error, used |-> used, ratio |-> ratio]
  IN  CASE graph = Unreadable -> Result("Unhandled", 0, NoRatio)
        [] graph # Unreadable /\ record.meta.promptNode \notin graph.nodes ->
             Result("WorkflowInvalid", 0, NoRatio)
        [] OTHER ->
             LET used == Consumed(record.meta.slots, graph, images)
             IN  Result(IF used # images THEN "UnsupportedOperation" ELSE "none", used,
                        IF chosen # NoRatio /\ record.meta.ratioNode \in graph.nodes
                        THEN chosen ELSE graph.saved)

(* effective_aspect_ratio(): what the answer says was rendered.            *)
EffectiveAspectRatio(record, asked) ==
  LET chosen == SnapAspectRatio(asked, record.ratios)
  IN  IF chosen # NoRatio THEN chosen ELSE record.default
=============================================================================
