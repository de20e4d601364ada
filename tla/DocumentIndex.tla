--------------------------- MODULE DocumentIndex ---------------------------
(***************************************************************************)
(* What the knowledge base promises to whoever reads the collection while  *)
(* documents are ingested, without titles, requests, batches or indexes:   *)
(*   - a document is replaced by one write at a time, and what is found of *)
(*     it meanwhile is of the version that is written or was there before; *)
(*   - a document that was found stays found until the collection goes;    *)
(*   - a write that is finished leaves its version, all of it, and nothing *)
(*     else; one that is broken off leaves a document that is unfinished   *)
(*     until another write of it is finished;                              *)
(*   - vectors never change their size in place.                           *)
(***************************************************************************)
CONSTANTS
    Docs,        \* documents
    Versions,    \* versions of a document
    Dimensions,  \* sizes of embedding vectors
    NoDimension  \* there is no collection

VARIABLES
    size,        \* of the vectors in the collection
    found,       \* for each document, the versions that chunks are found of
    complete,    \* documents that are found in one version and whole
    writing,     \* the document that is written, and in which version
    unfinished   \* documents whose last write has not been finished

indexVars == <<size, found, complete, writing, unfinished>>

IndexInit ==
    /\ size = NoDimension
    /\ found = [d \in Docs |-> {}]
    /\ complete = {}
    /\ writing = {}
    /\ unfinished = {}

Create(dim) ==
    /\ size = NoDimension /\ writing = {}
    /\ size' = dim
    /\ UNCHANGED <<found, complete, writing, unfinished>>

Drop ==
    /\ writing = {}
    /\ size' = NoDimension
    /\ found' = [d \in Docs |-> {}]
    /\ complete' = {}
    /\ unfinished' = {}
    /\ UNCHANGED writing

(* Some of the document is in version v, the rest as it was, or gone.      *)
Overwrite(d, v) ==
    /\ size # NoDimension
    /\ writing \subseteq {<<d, v>>}
    /\ \E versions \in SUBSET (found[d] \union {v}) :
          /\ v \in versions
          /\ found' = [found EXCEPT ![d] = versions]
          /\ \/ complete' = complete \ {d}
             \/ versions = {v} /\ complete' = complete \union {d}
    /\ unfinished' = unfinished \union {d}
    /\ UNCHANGED size

Write(d, v) == Overwrite(d, v) /\ writing' = {<<d, v>>}

Finish(d, v) ==
    /\ writing = {<<d, v>>}
    /\ found' = [found EXCEPT ![d] = {v}]
    /\ complete' = complete \union {d}
    /\ unfinished' = unfinished \ {d}
    /\ writing' = {}
    /\ UNCHANGED size

(* The writer gives up, or is gone; its last request may have done its     *)
(* work without the writer knowing.                                        *)
BreakOff ==
    /\ writing' = {}
    /\ \/ UNCHANGED <<size, found, complete, unfinished>>
       \/ \E d \in Docs, v \in Versions : Overwrite(d, v)

IndexNext ==
    \/ \E dim \in Dimensions : Create(dim)
    \/ Drop
    \/ \E d \in Docs, v \in Versions : Write(d, v) \/ Finish(d, v)
    \/ BreakOff

IndexSpec == IndexInit /\ [][IndexNext]_indexVars
=============================================================================
