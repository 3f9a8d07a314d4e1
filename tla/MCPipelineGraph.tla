--------------------------- MODULE MCPipelineGraph ---------------------------
(***************************************************************************)
(* Classes the segmenter may find each Item in.  Item 5 and 9 decide their *)
(* extractor alone, and Item 5 is the only one where a placeholder counts; *)
(* of Items 10 to 12 two suffice to tell "one is there" from "all are".    *)
(***************************************************************************)
EXTENDS PipelineGraph

MCSettings == [key : BOOLEAN, hitl : BOOLEAN]

MCFound ==
    [i \in Items |->
        CASE i = 5 -> {"absent", "empty", "placeholder", "narrative"}
          [] i = 9 -> {"absent", "empty", "narrative"}
          [] i = 10 -> {"absent", "short"}
          [] i = 11 -> {"absent", "empty", "narrative"}
          [] i = 12 -> {"absent"}]
=============================================================================
