---------------------------- MODULE TextPipeline ----------------------------
(***************************************************************************)
(* What the ingestion does to the text of one document: cleaning, then     *)
(* chunking, then embedding (ingestion/pipeline.py, _ingest_one). A line   *)
(* of text has words, each with its size and whether a sentence begins     *)
(* with it.                                                                *)
(***************************************************************************)
EXTENDS Cleaning, Chunking, Embedding, SequencesExt

ASSUME ContentAssumption ==
    \A article \in Articles : \A i \in DOMAIN article :
        article[i].content \in Seq([size : Nat \ {0}, sentence : BOOLEAN])

pipeVars == <<cleanVars, chunkVars, embedVars>>

PipeInit == CleanInit /\ ChunkInit /\ EmbedInit

CleanStep == CleanNext /\ UNCHANGED <<chunkVars, embedVars>>

(* A heading is a paragraph of its own, and blank lines end one.           *)
EndsParagraph(i) == lines[i].heading \/ lines[i].content = <<>>

WordsOfLine(k) ==
    LET l == lines[kept[k]]
        own == k = 1 \/ l.heading \/ EndsParagraph(kept[k - 1])
    IN  [w \in DOMAIN l.content |->
            [size |-> l.content[w].size,
             break |-> IF w = 1 /\ own THEN "paragraph"
                       ELSE IF l.content[w].sentence THEN "sentence" ELSE "word"]]

WordsKept == FlattenSeq([k \in DOMAIN kept |-> WordsOfLine(k)])

(* Where each word begins, after the words before it.                      *)
Begins(flat) ==
    LET from[i \in DOMAIN flat] ==
            IF i = 1 THEN 0
            ELSE from[i - 1] + flat[i - 1].size + Separation(flat[i].break = "paragraph")
    IN  from

(* The cleaned text, as the words that the chunker sees.                   *)
CleanedText ==
    LET flat == WordsKept
        from == Begins(flat)
    IN  [i \in DOMAIN flat |->
            [from |-> from[i], to |-> from[i] + flat[i].size, break |-> flat[i].break]]

Chunk ==
    /\ Cleaned
    /\ CleanedText # <<>>
    /\ SplitText(CleanedText)
    /\ UNCHANGED <<cleanVars, embedVars>>

(* EmptyDocumentError.                                                     *)
RejectEmpty ==
    /\ Cleaned /\ mode = "idle"
    /\ CleanedText = <<>>
    /\ mode' = "empty"
    /\ UNCHANGED <<cleanVars, splitVars, packVars, embedVars>>

ChunkStep == ChunkNext /\ UNCHANGED <<cleanVars, embedVars>>

Embed ==
    /\ mode = "done"
    /\ EmbedTexts(Len(chunks))
    /\ UNCHANGED <<cleanVars, chunkVars>>

EmbedStep == EmbedNext /\ UNCHANGED <<cleanVars, chunkVars>>

PipeNext == CleanStep \/ Chunk \/ RejectEmpty \/ ChunkStep \/ Embed \/ EmbedStep

PipeSpec == PipeInit /\ [][PipeNext]_pipeVars
=============================================================================
