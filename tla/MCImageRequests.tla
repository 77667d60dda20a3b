-------------------------- MODULE MCImageRequests --------------------------
(* Two images at most.  Each request is there for a path of its own.       *)
EXTENDS ImageRequests, TLC

Square == <<1, 1>>
Wide == <<16, 9>>
Tall == <<9, 16>>

SomeProviders == {"comfyui", "venice", "fal", "openai"}
SomeReplies == {NoReply, 200, 400, 401, 429, 500}

PlainGraph == [nodes |-> {"prompt", "image"}, ratioNodes |-> {}, video |-> FALSE, saved |-> NoRatio]
RatioGraph == [nodes |-> {"prompt", "image", "ratio"}, ratioNodes |-> {"ratio"}, video |-> FALSE,
               saved |-> Square]
VideoGraph == [PlainGraph EXCEPT !.video = TRUE]

Meta(type, required, slots, node, ratios) ==
  [type |-> type, imageRequired |-> required, slots |-> slots, ratioNode |-> node,
   ratios |-> ratios, promptNode |-> "prompt"]
Slot(node, multiple) == [node |-> node, multiple |-> multiple]

(* A plain workflow, one that offers ratios and takes one image, one whose *)
(* image is required, a second file of the same slug, one without a meta,  *)
(* and a video by autodetection.                                           *)
SomeFiles ==
  <<[slug |-> "plain", meta |-> Meta("image", FALSE, <<>>, NoNode, <<>>), graph |-> PlainGraph],
    [slug |-> "ratio", graph |-> RatioGraph,
     meta |-> Meta("auto", FALSE, <<Slot("image", FALSE), Slot("gone", FALSE)>>, "ratio",
                   <<Square, Wide, <<0, 1>>, Square>>)],
    [slug |-> "refs", graph |-> PlainGraph,
     meta |-> Meta("image", TRUE, <<Slot("image", TRUE)>>, "ratio", <<Wide>>)],
    [slug |-> "plain", meta |-> Meta("video", FALSE, <<>>, NoNode, <<>>), graph |-> Unreadable],
    [slug |-> "bare", meta |-> NoMeta, graph |-> PlainGraph],
    [slug |-> "film", graph |-> VideoGraph,
     meta |-> Meta("auto", TRUE, <<Slot("image", FALSE)>>, NoNode, <<>>)]>>

SomeEdited == {Unreadable, [PlainGraph EXCEPT !.nodes = {"image"}], PlainGraph}

Base == [route |-> "generations", provider |-> "comfyui", model |-> "plain", n |-> 1,
         size |-> <<0, 0>>, format |-> "b64_json", uploads |-> <<>>, ratio |-> NoRatio,
         stream |-> FALSE]
Edit == [Base EXCEPT !.route = "edits", !.uploads = <<1>>]
Chat == [Base EXCEPT !.route = "chat", !.provider = "openai"]
Video == [Base EXCEPT !.route = "video", !.model = "film", !.uploads = <<1>>]

SomeRequests ==
  {[Base EXCEPT !.n = 2], [Base EXCEPT !.format = "url"], [Base EXCEPT !.n = 0],
   [Base EXCEPT !.size = <<9, 1>>], [Base EXCEPT !.size = <<9, 0>>, !.model = "film"],
   [Base EXCEPT !.model = "refs"], [Base EXCEPT !.model = "bare"], [Base EXCEPT !.provider = ""],
   [Base EXCEPT !.provider = "other"], [Base EXCEPT !.provider = "openai"],
   [Base EXCEPT !.provider = "venice", !.n = 2, !.format = "url"],
   [Base EXCEPT !.model = "ratio", !.ratio = <<2, 1>>],
   [Edit EXCEPT !.model = "ratio", !.ratio = Tall], [Edit EXCEPT !.model = "ratio", !.uploads = <<1, 1>>],
   [Edit EXCEPT !.model = "refs", !.uploads = <<1, 1>>], Edit,
   [Edit EXCEPT !.uploads = <<1, 0>>], [Edit EXCEPT !.uploads = <<1, 1, 1>>],
   [Edit EXCEPT !.provider = "venice", !.uploads = <<1, 1>>],
   [Edit EXCEPT !.provider = "fal", !.n = 2],
   Chat, [Chat EXCEPT !.stream = TRUE], [Chat EXCEPT !.provider = "fal"],
   Video, [Video EXCEPT !.uploads = <<>>], [Video EXCEPT !.model = "plain"]}
=============================================================================
