----------------------------- MODULE Embedding -----------------------------
(***************************************************************************)
(* OpenAIEmbeddingProvider.embed: texts are sent in batches, and each      *)
(* answer's items are put in the order of their indexes                    *)
(* (app/knowledge/openai_embeddings.py). A vector stands for the number of *)
(* the text it embeds.                                                     *)
(***************************************************************************)
EXTENDS Integers, Sequences

CONSTANT EmbedBatchSize   \* batch_size

ASSUME EmbedAssumption == EmbedBatchSize \in Nat \ {0}

VARIABLES
    embedding,   \* how far embed is, or how it ended
    asked,       \* how many texts it was given
    start,       \* how many of them have been answered
    vectors      \* their vectors

embedVars == <<embedding, asked, start, vectors>>

EmbedInit ==
    /\ embedding = "idle"
    /\ asked = 0 /\ start = 0
    /\ vectors = <<>>

EmbedTexts(count) ==
    /\ embedding = "idle"
    /\ embedding' = "embedding"
    /\ asked' = count
    /\ UNCHANGED <<start, vectors>>

(* The answer to n texts: the indexes of its items, as they arrive, and    *)
(* any order that n items may have.                                        *)
Orders(n) == {order \in [1 .. n -> 1 .. n] : \A i, j \in 1 .. n : i # j => order[i] # order[j]}

(* Mutant: the items are taken as they arrive.                             *)
AsArrived(order) == order

(* The items sorted by their index.                                        *)
ByIndex(order) ==
    CHOOSE sorted \in Orders(Len(order)) :
        /\ \E item \in Orders(Len(order)) : sorted = [i \in DOMAIN order |-> order[item[i]]]
        /\ \A i, j \in DOMAIN order : i < j => sorted[i] < sorted[j]

(* A batch is answered with an item for each text, of the right dimension. *)
EmbedBatch ==
    /\ embedding = "embedding" /\ start < asked
    /\ LET size == IF asked - start < EmbedBatchSize THEN asked - start ELSE EmbedBatchSize
       IN  /\ \E order \in Orders(size) :
                 vectors' = vectors \o [i \in 1 .. size |-> start + ByIndex(order)[i]]
           /\ start' = start + size
    /\ UNCHANGED <<embedding, asked>>

(* EmbeddingProviderError, EmbeddingDimensionError: a timeout, rate limit, *)
(* error status or lost connection, too few or too many items, or vectors  *)
(* of another size; what was embedded is dropped.                          *)
EmbedBatchFails ==
    /\ embedding = "embedding" /\ start < asked
    /\ embedding' = "failed"
    /\ vectors' = <<>>
    /\ UNCHANGED <<asked, start>>

(* EmbeddingConfigurationError: no key, a rejected key, no such model.     *)
EmbedRejected ==
    /\ embedding = "embedding" /\ start < asked
    /\ embedding' = "rejected"
    /\ vectors' = <<>>
    /\ UNCHANGED <<asked, start>>

EndEmbedding ==
    /\ embedding = "embedding" /\ start = asked
    /\ embedding' = "embedded"
    /\ UNCHANGED <<asked, start, vectors>>

EmbedNext == EmbedBatch \/ EmbedBatchFails \/ EmbedRejected \/ EndEmbedding

EmbedSpec == EmbedInit /\ [][EmbedNext \/ \E count \in Nat : EmbedTexts(count)]_embedVars

(* EmbeddingBatch.vectors: one vector for each text, in input order, in    *)
(* whatever order the items of the answers arrived: upsert_document zips   *)
(* chunks and vectors.                                                     *)
VectorsInInputOrder ==
    embedding = "embedded" => vectors = [i \in 1 .. asked |-> i]

(***************************************************************************)
(* The inductive invariant                                                 *)
(***************************************************************************)
(* What has been answered so far is in the order of the texts.             *)
BatchInv ==
    /\ embedding \in {"idle", "embedding", "embedded", "failed", "rejected"}
    /\ asked \in Nat /\ start \in 0 .. asked
    /\ embedding = "idle" => start = 0
    /\ embedding \in {"idle", "embedding", "embedded"} => vectors = [i \in 1 .. start |-> i]
    /\ embedding = "embedded" => start = asked
=============================================================================
