---------------------------- MODULE VectorStore ----------------------------
(***************************************************************************)
(* The Qdrant collection of the knowledge base as QdrantVectorStore        *)
(* (backend/app/knowledge/qdrant_store.py) writes and reads it: which      *)
(* chunk of which version of a document each point holds.                  *)
(*                                                                         *)
(* A version of a document stands for what its fingerprint is computed     *)
(* from: the cleaned text, the chunking settings, the embedding model. A   *)
(* point is the place of one chunk: its id is a function of the document   *)
(* and the chunk's index, so writing a chunk overwrites the one before.    *)
(***************************************************************************)
EXTENDS Integers, FiniteSets

CONSTANTS
    Docs,        \* documents
    Versions,    \* versions a document's text and the settings go through
    ChunkCount,  \* the number of chunks of a version
    BatchSize,   \* points per upsert request (_UPSERT_BATCH_SIZE)
    Dimensions,  \* sizes of embedding vectors
    NoVersion,   \* no point is stored, no fingerprint is found
    NoDimension  \* there is no collection

(* A document with text has a chunk (TextChunker.split_text).              *)
ASSUME ChunksAssumption ==
    /\ ChunkCount \in [Versions -> Nat \ {0}]
    /\ BatchSize \in Nat \ {0}
    /\ NoVersion \notin Versions
    /\ NoDimension \notin Dimensions

VARIABLES
    collection,  \* the vector size of the collection, NoDimension without one
    indexed,     \* whether the collection has its three payload indexes
    stored       \* the version whose chunk is stored, by document and index

storeVars == <<collection, indexed, stored>>

Indexes == UNION {0..(ChunkCount[v] - 1) : v \in Versions}

Nothing == [i \in Indexes |-> NoVersion]

(* The points of a document when it is stored in version v and no other.   *)
Whole(v) == [i \in Indexes |-> IF i < ChunkCount[v] THEN v ELSE NoVersion]

(* What get_document_fingerprint may answer: the scroll asks for one point *)
(* of the document and does not say which.                                 *)
Fingerprints(d) ==
    IF stored[d] = Nothing THEN {NoVersion}
    ELSE {stored[d][i] : i \in Indexes} \ {NoVersion}

(* Effects of the requests to Qdrant. An upsert waits until it is applied. *)
CreateCollection(dim) ==
    /\ collection' = dim
    /\ indexed' = FALSE
    /\ UNCHANGED stored

CreateIndexes ==
    /\ indexed' = TRUE
    /\ UNCHANGED <<collection, stored>>

DeleteCollection ==
    /\ collection' = NoDimension
    /\ indexed' = FALSE
    /\ stored' = [d \in Docs |-> Nothing]

(* Mutant: the document is cleared before its new chunks are written.      *)
UpsertBatchClearing(d, v, start) ==
    /\ stored' = [stored EXCEPT ![d] =
           [i \in Indexes |->
               IF i \in start..(start + BatchSize - 1) /\ i < ChunkCount[v]
               THEN v ELSE IF start = 0 THEN NoVersion ELSE @[i]]]
    /\ UNCHANGED <<collection, indexed>>

UpsertBatch(d, v, start) ==
    /\ stored' = [stored EXCEPT ![d] =
           [i \in Indexes |->
               IF i \in start..(start + BatchSize - 1) /\ i < ChunkCount[v]
               THEN v ELSE @[i]]]
    /\ UNCHANGED <<collection, indexed>>

(* Mutant: chunk_index > count instead of >= count.                        *)
DeleteTailOffByOne(d, v) ==
    /\ stored' = [stored EXCEPT ![d] =
           [i \in Indexes |-> IF i > ChunkCount[v] THEN NoVersion ELSE @[i]]]
    /\ UNCHANGED <<collection, indexed>>

DeleteTail(d, v) ==
    /\ stored' = [stored EXCEPT ![d] =
           [i \in Indexes |-> IF i >= ChunkCount[v] THEN NoVersion ELSE @[i]]]
    /\ UNCHANGED <<collection, indexed>>

StoreInit ==
    /\ collection = NoDimension
    /\ indexed = FALSE
    /\ stored = [d \in Docs |-> Nothing]

StoreTypeOK ==
    /\ collection \in Dimensions \union {NoDimension}
    /\ indexed \in BOOLEAN
    /\ stored \in [Docs -> [Indexes -> Versions \union {NoVersion}]]
=============================================================================
