-------------------------- MODULE MCKnowledgeBase ---------------------------
(***************************************************************************)
(* Two searches at a time, and a CLI that ingests one short article with   *)
(* either embedding model, into a collection of its own size (--recreate). *)
(***************************************************************************)
EXTENDS KnowledgeBase, TLC

CONSTANTS kafka, kafkaTitle, short

MCChunkCount == short :> 1
MCResolves == kafkaTitle :> kafka
MCOptions ==
    [dry : {FALSE}, force : {FALSE}, recreate : {TRUE}, dimension : Dimensions]
=============================================================================
