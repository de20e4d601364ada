--------------------------- MODULE KnowledgeBase ----------------------------
(***************************************************************************)
(* Searches of the backend (KnowledgeRetriever.search and                  *)
(* QdrantVectorStore.search) while the ingestion CLI works on the same     *)
(* collection. The backend has one QdrantVectorStore for the life of the   *)
(* process (get_vector_store), and it remembers the size of the            *)
(* collection's vectors from its first search on; the CLI is another       *)
(* process, and with --recreate it may give the collection another size.   *)
(***************************************************************************)
EXTENDS Ingestion

CONSTANTS
    Searches,   \* searches under way at the same time (threads)
    ModelSizes  \* sizes of the embedding models a backend is started with

ASSUME ModelSizesAssumption == ModelSizes \subseteq Dimensions

VARIABLES
    modelSize,   \* the size of the vectors of the backend's embedding model
    cachedSize,  \* _dimension of the backend's store, NoDimension for None
    search,      \* the request each search makes next, or how it ended
    met,         \* what each search met: collections, failures (not in the code)
    changed      \* whether a collection of another size was there since the
                 \* backend started (not in the code)

backendVars == <<modelSize, cachedSize, search, met, changed>>
kbVars == <<vars, backendVars>>

Requests == {"embed", "exists", "get", "compare", "query"}

Outcomes == {"answered", "not_ready", "misconfigured", "unavailable", "no_embedding"}

(* How a collection of this size looks to a search.                        *)
Look(size, wanted) ==
    IF size = NoDimension THEN "none" ELSE IF size = wanted THEN "same" ELSE "other"

(* The backend starts, and may have been configured anew.                  *)
StartBackend ==
    /\ modelSize' \in ModelSizes
    /\ cachedSize' = NoDimension
    /\ search' = [s \in Searches |-> "idle"]
    /\ met' = [s \in Searches |-> {}]
    /\ changed' = (Look(collection, modelSize') = "other")

KBInit ==
    /\ Init
    /\ modelSize \in ModelSizes
    /\ cachedSize = NoDimension
    /\ search = [s \in Searches |-> "idle"]
    /\ met = [s \in Searches |-> {}]
    /\ changed = FALSE

(* Mutant: the collection's size is kept across restarts.                  *)
RestartBackendKeepingSize ==
    /\ modelSize' \in ModelSizes
    /\ search' = [s \in Searches |-> "idle"]
    /\ met' = [s \in Searches |-> {}]
    /\ changed' = (Look(collection, modelSize') = "other")
    /\ UNCHANGED <<cachedSize, vars>>

RestartBackend == StartBackend /\ UNCHANGED vars

(* KnowledgeRetriever.search begins.                                       *)
BeginSearch(s) ==
    /\ search[s] \notin Requests
    /\ search' = [search EXCEPT ![s] = "embed"]
    /\ met' = [met EXCEPT ![s] = {Look(collection, modelSize)}]
    /\ UNCHANGED <<modelSize, cachedSize, changed, vars>>

(* The next request, or the end, of a search.                              *)
Goes(s, to) == search' = [search EXCEPT ![s] = to] /\ UNCHANGED <<modelSize, met, changed, vars>>

(* The query is embedded, in vectors of the model's size or not at all.    *)
EmbedQuery(s) ==
    /\ search[s] = "embed"
    /\ \/ Goes(s, IF cachedSize = NoDimension THEN "exists" ELSE "compare")
       \/ Goes(s, "no_embedding")
    /\ UNCHANGED cachedSize

(* _collection_dimension: is there a collection,                           *)
FindCollection(s) ==
    /\ search[s] = "exists"
    /\ Goes(s, IF collection = NoDimension THEN "not_ready" ELSE "get")
    /\ UNCHANGED cachedSize

(* and of which size? It may be gone again. Searches set the size in turn. *)
GetCollection(s) ==
    /\ search[s] = "get"
    /\ IF collection = NoDimension
       THEN Goes(s, "not_ready") /\ UNCHANGED cachedSize
       ELSE Goes(s, "compare") /\ cachedSize' = collection

(* _check_dimension, with the size as it is remembered now.                *)
CheckDimension(s) ==
    /\ search[s] = "compare"
    /\ Goes(s, IF cachedSize = modelSize THEN "query" ELSE "misconfigured")
    /\ UNCHANGED cachedSize

(* Mutant: a missing collection is an error like any other.                *)
QueryWithout404(s) ==
    /\ search[s] = "query"
    /\ Goes(s, IF collection = modelSize THEN "answered" ELSE "not_ready")
    /\ UNCHANGED cachedSize

(* Mutant: a search whose collection is gone starts again.                 *)
QueryAgainAfter404(s) ==
    /\ search[s] = "query"
    /\ Goes(s, IF collection = NoDimension THEN "exists"
               ELSE IF collection = modelSize THEN "answered" ELSE "unavailable")
    /\ cachedSize' = IF collection = NoDimension THEN NoDimension ELSE cachedSize

(* query_points: Qdrant answers 404 without a collection, and another      *)
(* error to a vector of the wrong size.                                    *)
QueryPoints(s) ==
    /\ search[s] = "query"
    /\ Goes(s, IF collection = NoDimension THEN "not_ready"
               ELSE IF collection = modelSize THEN "answered" ELSE "unavailable")
    /\ UNCHANGED cachedSize

(* Qdrant cannot be reached, or answers too late or with an error.         *)
RequestFails(s) ==
    /\ search[s] \in {"exists", "get", "query"}
    /\ search' = [search EXCEPT ![s] = "unavailable"]
    /\ met' = [met EXCEPT ![s] = @ \union {"failure"}]
    /\ UNCHANGED <<modelSize, cachedSize, changed, vars>>

(* The CLI takes a step; searches under way meet the collection as it is.  *)
Ingest ==
    /\ StartRun \/ Progress \/ Crash
    /\ met' = [s \in Searches |->
                 IF search[s] \in Requests THEN met[s] \union {Look(collection', modelSize)}
                 ELSE met[s]]
    /\ changed' = (changed \/ Look(collection', modelSize) = "other")
    /\ UNCHANGED <<modelSize, cachedSize, search>>

SearchStep(s) ==
    \/ EmbedQuery(s) \/ FindCollection(s) \/ GetCollection(s)
    \/ CheckDimension(s) \/ QueryPoints(s) \/ RequestFails(s)

KBNext ==
    \/ RestartBackend
    \/ Ingest
    \/ \E s \in Searches : BeginSearch(s) \/ SearchStep(s)

(* Requests of a search have timeouts; nobody need search again.           *)
KBSpec == KBInit /\ [][KBNext]_kbVars /\ \A s \in Searches : WF_kbVars(SearchStep(s))
-----------------------------------------------------------------------------
(* Properties.                                                             *)

Ended(s, outcome) == search[s] = outcome

(* The error of a search says what went wrong while it was under way:      *)
(* not_ready, that there was no collection; unavailable, that a request    *)
(* failed or a collection of another size rejected the query; and a search *)
(* is only answered from a collection of the model's size. The collection  *)
(* may come and go between the requests of one search (qdrant_store.py     *)
(* search, _call).                                                         *)
ErrorsTellWhatHappened ==
    \A s \in Searches :
        /\ Ended(s, "not_ready") => "none" \in met[s]
        /\ Ended(s, "unavailable") => met[s] \intersect {"failure", "other"} # {}
        /\ Ended(s, "answered") => "same" \in met[s]

(* The remembered size may be out of date, but a backend that has seen no  *)
(* collection of another size since it started never blames the            *)
(* configuration: a restart is always a cure (_collection_dimension).      *)
RestartCuresStaleSizes ==
    \A s \in Searches : Ended(s, "misconfigured") => changed

(* A search ends, whatever happens to the collection in the meantime.      *)
EverySearchEnds ==
    \A s \in Searches : (search[s] \in Requests) ~> (search[s] \notin Requests)

(* docs/architecture.md:327: a mismatch of collection and model is         *)
(* reported as vector_store_misconfigured. The code does not keep this: a  *)
(* size remembered from before a --recreate passes the check, and the      *)
(* query Qdrant rejects is reported as vector_store_unavailable.           *)
MismatchIsMisconfigured ==
    \A s \in Searches :
        met[s] = {"other"} /\ search[s] \in Outcomes \ {"no_embedding"} =>
            Ended(s, "misconfigured")
-----------------------------------------------------------------------------
(* The inductive invariant.                                                *)

KBTypeOK ==
    /\ modelSize \in ModelSizes
    /\ cachedSize \in Dimensions \union {NoDimension}
    /\ search \in [Searches -> {"idle"} \union Requests \union Outcomes]
    /\ met \in [Searches -> SUBSET {"none", "same", "other", "failure"}]
    /\ changed \in BOOLEAN

(* The remembered size is one that the collection had since the start, and *)
(* every search under way has met the collection as it is.                 *)
KBInv ==
    /\ KBTypeOK
    /\ Look(collection, modelSize) = "other" \/ cachedSize \notin {NoDimension, modelSize} => changed
    /\ \A s \in Searches :
          /\ search[s] \in Requests => Look(collection, modelSize) \in met[s]
          /\ search[s] = "compare" => cachedSize # NoDimension
    /\ ErrorsTellWhatHappened
    /\ RestartCuresStaleSizes
=============================================================================
