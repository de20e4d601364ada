----------------------------- MODULE Ingestion -----------------------------
(***************************************************************************)
(* Runs of the ingestion CLI, one after the other (ingestion/ingest.py,    *)
(* ingestion/pipeline.py), against the Qdrant collection: setting the      *)
(* collection up, then for every title fetch, compare fingerprints, embed, *)
(* upsert in batches and delete the stale tail, then the report and the    *)
(* exit code. A request to Qdrant may fail before or after it took effect, *)
(* and the process may die between any two requests.                       *)
(***************************************************************************)
EXTENDS VectorStore

CONSTANTS
    Titles,    \* the configured titles, without repetitions (parse_titles)
    Resolves,  \* the document a title leads to; redirects can share one
    Options,   \* the command lines and settings a run is started with
    NoTitle    \* no title is being worked on

ASSUME TitlesAssumption ==
    /\ IsFiniteSet(Titles)
    /\ Resolves \in [Titles -> Docs]
    /\ NoTitle \notin Titles

ASSUME OptionsAssumption ==
    Options \subseteq [dry : BOOLEAN, force : BOOLEAN, recreate : BOOLEAN,
                       dimension : Dimensions]

VARIABLES
    pc,         \* the request the run makes next; "off" between runs
    opts,       \* the options of this run, or of the last one
    todo,       \* titles not tried yet, in whatever order they are configured
    reference,  \* the title being worked on
    version,    \* the version its document was fetched in
    start,      \* index of the first chunk of the next upsert batch
    seen,       \* documents fetched in this run
    ingested,   \* IngestionReport: documents stored,
    unchanged,  \* skipped for their fingerprint,
    duplicates, \* titles skipped for their document,
    failures,   \* titles that failed or were not attempted,
    aborted,    \* whether a fatal error ended the run
    exit,       \* how the last run ended
    torn        \* documents whose last write was cut short (not in the code)

counts == <<ingested, unchanged, duplicates>>
reportVars == <<counts, failures, aborted>>
workVars == <<reference, version, start>>
runVars == <<opts, todo, workVars, seen, reportVars, exit>>
vars == <<storeVars, pc, runVars, torn>>

Steps == {"off", "recreate", "ensure", "index", "fetch", "compare", "embed",
          "upsert", "delete", "count"}

Exits == {"none", "success", "failures", "aborted", "crashed"}

Doc == Resolves[reference]

Init ==
    /\ StoreInit
    /\ pc = "off"
    /\ opts \in Options
    /\ todo = {}
    /\ reference = NoTitle
    /\ version = NoVersion
    /\ start = 0
    /\ seen = {}
    /\ ingested = 0 /\ unchanged = 0 /\ duplicates = 0
    /\ failures = {}
    /\ aborted = FALSE
    /\ exit = "none"
    /\ torn = {}

-----------------------------------------------------------------------------
(* The run around the documents.                                           *)

StartRun ==
    /\ pc = "off"
    /\ opts' \in Options
    /\ pc' = IF opts'.dry THEN "fetch"
             ELSE IF opts'.recreate THEN "recreate" ELSE "ensure"
    /\ todo' = Titles
    /\ seen' = {}
    /\ ingested' = 0 /\ unchanged' = 0 /\ duplicates' = 0
    /\ failures' = {}
    /\ aborted' = FALSE
    /\ exit' = "none"
    /\ UNCHANGED <<storeVars, workVars, torn>>

(* The process is over; what it held in memory but the report is gone.     *)
End(how) ==
    /\ pc' = "off"
    /\ exit' = how
    /\ todo' = {}
    /\ seen' = {}
    /\ reference' = NoTitle
    /\ version' = NoVersion
    /\ start' = 0
    /\ UNCHANGED <<opts, reportVars>>

(* recreate: delete the collection if there is one, then ensure_collection.*)
Recreate ==
    /\ pc = "recreate"
    /\ DeleteCollection
    /\ torn' = {}
    /\ pc' = "ensure"
    /\ UNCHANGED runVars

(* Mutant: a collection of another size is accepted.                       *)
EnsureCollectionUnchecked ==
    /\ pc = "ensure"
    /\ \/ /\ collection = NoDimension
          /\ CreateCollection(opts.dimension)
          /\ pc' = "index"
       \/ /\ collection # NoDimension
          /\ pc' = "fetch"
          /\ UNCHANGED storeVars
    /\ UNCHANGED <<runVars, torn>>

EnsureCollection ==
    /\ pc = "ensure"
    /\ UNCHANGED torn
    /\ \/ /\ collection = NoDimension
          /\ CreateCollection(opts.dimension)
          /\ pc' = "index"
          /\ UNCHANGED runVars
       \/ /\ collection = opts.dimension
          /\ pc' = "fetch"
          /\ UNCHANGED <<storeVars, runVars>>
       \/ /\ collection \notin {NoDimension, opts.dimension}
          /\ End("aborted")
          /\ UNCHANGED storeVars

(* The three create_payload_index requests; all or not yet all of them. A  *)
(* run with --recreate calls ensure_collection once more (pipeline.run).   *)
IndexCollection ==
    /\ pc = "index"
    /\ CreateIndexes
    /\ pc' = IF opts.recreate THEN "ensure" ELSE "fetch"
    /\ UNCHANGED <<runVars, torn>>

(* A request before or after the documents fails: main reports the error.  *)
SetupFails ==
    /\ pc \in {"recreate", "ensure", "index", "count"}
    /\ \/ UNCHANGED <<storeVars, torn>>
       \/ pc = "recreate" /\ DeleteCollection /\ torn' = {}
       \/ /\ pc = "ensure" /\ collection = NoDimension
          /\ CreateCollection(opts.dimension)
          /\ UNCHANGED torn
       \/ pc = "index" /\ CreateIndexes /\ UNCHANGED torn
    /\ End("aborted")

-----------------------------------------------------------------------------
(* One document: IngestionPipeline._ingest_one.                            *)

(* The loop goes on to the next title.                                     *)
NextTitle ==
    /\ pc' = "fetch"
    /\ reference' = NoTitle
    /\ version' = NoVersion
    /\ start' = 0

(* A failure of this document alone: noted, and on to the next.            *)
Fail(t) ==
    /\ NextTitle
    /\ failures' = failures \union {t}
    /\ UNCHANGED <<counts, aborted>>

(* Mutant: the titles after the fatal error are forgotten.                 *)
AbortForgetting ==
    /\ pc' = "count"
    /\ failures' = failures \union {reference}
    /\ aborted' = TRUE
    /\ UNCHANGED counts
    /\ todo' = {}
    /\ reference' = NoTitle
    /\ version' = NoVersion
    /\ start' = 0

(* One of FATAL_ERRORS: this title and all that remain are failures.       *)
Abort ==
    /\ pc' = "count"
    /\ failures' = failures \union {reference} \union todo
    /\ aborted' = TRUE
    /\ UNCHANGED counts
    /\ todo' = {}
    /\ reference' = NoTitle
    /\ version' = NoVersion
    /\ start' = 0

(* The source fails or has no such article.                                *)
FetchFails(t) ==
    /\ pc = "fetch" /\ t \in todo
    /\ todo' = todo \ {t}
    /\ Fail(t)
    /\ UNCHANGED <<storeVars, opts, seen, exit, torn>>

(* Another title led to the same document before, whatever became of it.   *)
FetchDuplicate(t) ==
    /\ pc = "fetch" /\ t \in todo
    /\ Resolves[t] \in seen
    /\ todo' = todo \ {t}
    /\ duplicates' = duplicates + 1
    /\ NextTitle
    /\ UNCHANGED <<storeVars, opts, seen, ingested, unchanged, failures, aborted,
                   exit, torn>>

(* Nothing is left of the text after cleaning: EmptyDocumentError.         *)
FetchEmpty(t) ==
    /\ pc = "fetch" /\ t \in todo
    /\ Resolves[t] \notin seen
    /\ todo' = todo \ {t}
    /\ seen' = seen \union {Resolves[t]}
    /\ Fail(t)
    /\ UNCHANGED <<storeVars, opts, exit, torn>>

(* A dry run stops after chunking; --force skips the fingerprint.          *)
Fetch(t, v) ==
    /\ pc = "fetch" /\ t \in todo
    /\ Resolves[t] \notin seen
    /\ todo' = todo \ {t}
    /\ seen' = seen \union {Resolves[t]}
    /\ IF opts.dry
       THEN NextTitle
       ELSE /\ pc' = IF opts.force THEN "embed" ELSE "compare"
            /\ reference' = t
            /\ version' = v
            /\ start' = 0
    /\ UNCHANGED <<storeVars, opts, reportVars, exit, torn>>

(* Mutant: a document with any fingerprint counts as unchanged.            *)
CompareExists(fingerprint) ==
    /\ pc = "compare"
    /\ fingerprint \in Fingerprints(Doc)
    /\ IF fingerprint # NoVersion
       THEN unchanged' = unchanged + 1 /\ NextTitle
       ELSE pc' = "embed" /\ UNCHANGED <<unchanged, workVars>>
    /\ UNCHANGED <<storeVars, opts, todo, seen, ingested, duplicates, failures, aborted,
                   exit, torn>>

Compare(fingerprint) ==
    /\ pc = "compare"
    /\ fingerprint \in Fingerprints(Doc)
    /\ IF fingerprint = version
       THEN unchanged' = unchanged + 1 /\ NextTitle
       ELSE pc' = "embed" /\ UNCHANGED <<unchanged, workVars>>
    /\ UNCHANGED <<storeVars, opts, todo, seen, ingested, duplicates, failures, aborted,
                   exit, torn>>

(* All chunks are embedded, in as many requests as it takes, or none are.  *)
Embed ==
    /\ pc = "embed"
    /\ pc' = "upsert"
    /\ UNCHANGED <<storeVars, runVars, torn>>

(* Mutant: a document whose embedding failed is tried again.               *)
EmbedFailsRequeued ==
    /\ pc = "embed"
    /\ NextTitle
    /\ todo' = todo \union {reference}
    /\ seen' = seen \ {Doc}
    /\ UNCHANGED <<storeVars, opts, reportVars, exit, torn>>

(* EmbeddingProviderError and EmbeddingDimensionError: this document only. *)
EmbedFails ==
    /\ pc = "embed"
    /\ Fail(reference)
    /\ UNCHANGED <<storeVars, opts, todo, seen, exit, torn>>

(* EmbeddingConfigurationError: a missing or rejected key or model.        *)
EmbedFailsFatally ==
    /\ pc = "embed"
    /\ Abort
    /\ UNCHANGED <<storeVars, opts, seen, exit, torn>>

(* Mutant: the batches end one point too early.                           *)
UpsertButLast ==
    /\ pc = "upsert"
    /\ UpsertBatch(Doc, version, start)
    /\ torn' = torn \union {Doc}
    /\ IF start + BatchSize < ChunkCount[version] - 1
       THEN start' = start + BatchSize /\ UNCHANGED pc
       ELSE start' = 0 /\ pc' = "delete"
    /\ UNCHANGED <<opts, todo, reference, version, seen, reportVars, exit>>

Upsert ==
    /\ pc = "upsert"
    /\ UpsertBatch(Doc, version, start)
    /\ torn' = torn \union {Doc}
    /\ IF start + BatchSize < ChunkCount[version]
       THEN start' = start + BatchSize /\ UNCHANGED pc
       ELSE start' = 0 /\ pc' = "delete"
    /\ UNCHANGED <<opts, todo, reference, version, seen, reportVars, exit>>

Delete ==
    /\ pc = "delete"
    /\ DeleteTail(Doc, version)
    /\ torn' = torn \ {Doc}
    /\ ingested' = ingested + 1
    /\ NextTitle
    /\ UNCHANGED <<opts, todo, seen, unchanged, duplicates, failures, aborted, exit>>

(* A request about this document fails: VectorStoreUnavailableError.       *)
StoreFails ==
    /\ pc \in {"compare", "upsert", "delete"}
    /\ \/ UNCHANGED <<storeVars, torn>>
       \/ /\ pc = "upsert"
          /\ UpsertBatch(Doc, version, start)
          /\ torn' = torn \union {Doc}
       \/ /\ pc = "delete"
          /\ DeleteTail(Doc, version)
          /\ UNCHANGED torn
    /\ Abort
    /\ UNCHANGED <<opts, seen, exit>>

-----------------------------------------------------------------------------
(* The end of a run.                                                       *)

(* Mutant: documents that failed one by one do not count.                  *)
ExitCodeOfAborts == IF aborted THEN "aborted" ELSE "success"

(* main's exit codes 2, 1 and 0.                                           *)
ExitCode ==
    IF aborted THEN "aborted"
    ELSE IF failures # {} THEN "failures" ELSE "success"

(* The loop is over; a dry run has no store to count.                      *)
FinishDocuments ==
    /\ pc = "fetch"
    /\ todo = {}
    /\ IF opts.dry THEN End(ExitCode) ELSE pc' = "count" /\ UNCHANGED runVars
    /\ UNCHANGED <<storeVars, torn>>

Count ==
    /\ pc = "count"
    /\ End(ExitCode)
    /\ UNCHANGED <<storeVars, torn>>

(* The process dies, or an exception nobody handles ends it.               *)
Crash ==
    /\ pc # "off"
    /\ End("crashed")
    /\ UNCHANGED <<storeVars, torn>>

Progress ==
    \/ Recreate \/ EnsureCollection \/ IndexCollection \/ SetupFails
    \/ \E t \in Titles :
          \/ FetchFails(t) \/ FetchDuplicate(t) \/ FetchEmpty(t)
          \/ \E v \in Versions : Fetch(t, v)
    \/ \E f \in Versions \union {NoVersion} : Compare(f)
    \/ Embed \/ EmbedFails \/ EmbedFailsFatally
    \/ Upsert \/ Delete \/ StoreFails
    \/ FinishDocuments \/ Count

Next == StartRun \/ Progress \/ Crash

(* Every request has a timeout and a bounded number of retries, and main   *)
(* has nothing else to wait for. Nobody need start another run.            *)
Fairness == WF_vars(Progress)

Spec == Init /\ [][Next]_vars /\ Fairness
-----------------------------------------------------------------------------
(* Properties.                                                             *)

(* Types.                                                                  *)
TypeOK ==
    /\ StoreTypeOK
    /\ pc \in Steps
    /\ opts \in Options
    /\ todo \in SUBSET Titles
    /\ reference \in Titles \union {NoTitle}
    /\ version \in Versions \union {NoVersion}
    /\ start \in Nat
    /\ seen \in SUBSET Docs
    /\ ingested \in Nat /\ unchanged \in Nat /\ duplicates \in Nat
    /\ failures \in SUBSET Titles
    /\ aborted \in BOOLEAN
    /\ exit \in Exits
    /\ torn \in SUBSET Docs

(* A document whose last write ended (Delete) is stored in one version and *)
(* with no chunk of another, or not at all, whatever failed or died before *)
(* or since. The indexes of upsert_document and its filter must agree.     *)
FinishedDocumentsAreWhole ==
    \A d \in Docs \ torn :
        stored[d] = Nothing \/ \E v \in Versions : stored[d] = Whole(v)

(* Every requested title is accounted for once: ingested, unchanged, a     *)
(* duplicate, failed, in work, or still to do; at the end of a run nothing *)
(* is in work or to do, whether it went through or was aborted             *)
(* (IngestionReport; "not attempted" in run).                              *)
EveryTitleIsAccountedFor ==
    ~opts.dry /\ (pc # "off" \/ exit \in {"success", "failures"}) =>
        Cardinality(Titles) =
            ingested + unchanged + duplicates
            + Cardinality(failures) + Cardinality(todo)
            + (IF reference = NoTitle THEN 0 ELSE 1)

(* Exit code 0 means that the documents of all titles can be found in a    *)
(* collection of the size of the embedding model (ingest.py main).         *)
SuccessMeansStored ==
    exit = "success" /\ ~opts.dry =>
        /\ collection = opts.dimension
        /\ \A t \in Titles : stored[Resolves[t]][0] # NoVersion

(* Vectors are only written to a collection of their size, so that Qdrant  *)
(* never holds two kinds: ensure_collection checks what an earlier run,    *)
(* with other settings, may have left.                                     *)
WritesFitTheCollection == pc \in {"upsert", "delete"} => collection = opts.dimension

(* qdrant_store.py:103-104: "the document is never missing from search     *)
(* mid-update". Unless the collection is dropped, a chunk disappears only  *)
(* in the step that leaves its document whole in one version.              *)
NeverMissingMidUpdate ==
    [][\A d \in Docs, i \in Indexes :
         stored[d][i] # NoVersion /\ stored'[d][i] = NoVersion =>
             \/ collection' = NoDimension
             \/ \E v \in Versions : stored'[d] = Whole(v)]_vars

(* What a run counts is so: a document counted as ingested is stored in    *)
(* exactly the version that was fetched, and so is one counted as          *)
(* unchanged unless its last write was cut short.                          *)
CountedDocumentsAreCurrent ==
    [][/\ ingested' > ingested => stored'[Doc] = Whole(version)
       /\ unchanged' > unchanged /\ Doc \notin torn =>
             stored'[Doc] = Whole(version)]_vars

(* ingestion/README.md:48-49: "Stale trailing chunks are deleted", and it  *)
(* is "unchanged documents" that "are skipped": a document a run skips has *)
(* no chunks beyond its current ones. The code does not keep this: after a *)
(* stop between the last upsert and the delete of a document that shrank,  *)
(* its new fingerprint is there already and no later run deletes.          *)
SkippedDocumentsHaveNoStaleChunks ==
    [][unchanged' > unchanged =>
         \A i \in Indexes : i >= ChunkCount[version] => stored'[Doc][i] = NoVersion]_vars

(* Every run of the CLI ends.                                              *)
EveryRunEnds == (pc # "off") ~> (pc = "off")
-----------------------------------------------------------------------------
(* The inductive invariant behind the safety properties.                   *)

(* Steps at which a document is in work.                                   *)
DocumentSteps == {"compare", "embed", "upsert", "delete"}

(* A document is in work exactly at its steps, and it is not among those   *)
(* to do or failed.                                                        *)
WorkInv ==
    /\ pc \in DocumentSteps <=> reference # NoTitle
    /\ pc \in DocumentSteps => version \in Versions /\ ~opts.dry
    /\ reference \notin todo \union failures
    /\ todo \intersect failures = {}
    /\ pc \in {"recreate", "ensure", "index"} => todo = Titles /\ ~opts.dry
    /\ pc \in {"recreate", "ensure", "index"} =>
          failures = {} /\ ingested = 0 /\ unchanged = 0 /\ duplicates = 0
    /\ pc = "count" => todo = {} /\ ~opts.dry
    /\ exit \in {"success", "failures"} => pc = "off" /\ todo = {}

(* A run that works on documents has its collection.                       *)
CollectionInv ==
    pc \in DocumentSteps \union {"index", "fetch"} /\ ~opts.dry =>
        collection = opts.dimension

(* What the batches have written so far is there.                          *)
BatchInv ==
    /\ pc = "upsert" =>
          /\ start < ChunkCount[version]
          /\ \A i \in Indexes : i < start => stored[Doc][i] = version
    /\ pc \in {"compare", "embed"} => start = 0
    /\ pc = "delete" =>
          \A i \in Indexes : i < ChunkCount[version] => stored[Doc][i] = version

(* What the safety properties rest on. Without BatchInv, Delete could not  *)
(* be seen to leave a whole document; without WorkInv, a title could be    *)
(* counted twice.                                                          *)
IndInv ==
    /\ TypeOK
    /\ WorkInv
    /\ CollectionInv
    /\ BatchInv
    /\ FinishedDocumentsAreWhole
    /\ EveryTitleIsAccountedFor

(* The documents of a run that has not failed so far are there, but for    *)
(* the one in work. A document whose writing was cut short has its first   *)
(* chunk: without that, one counted as unchanged might not be found.       *)
StoredInv ==
    /\ \A d \in Docs : stored[d] = Nothing \/ stored[d][0] # NoVersion
    /\ pc \in {"recreate", "ensure", "index"} => seen = {}
    /\ pc = "count" => collection = opts.dimension
    /\ pc \in DocumentSteps \union {"fetch", "count"} /\ ~opts.dry /\ failures = {} =>
          /\ \A t \in Titles \ todo : Resolves[t] \in seen
          /\ \A d \in seen : stored[d][0] # NoVersion \/ (pc \in DocumentSteps /\ d = Doc)
    /\ SuccessMeansStored

(* Until its tail is deleted, a document that is written counts as torn.   *)
TornInv == pc = "delete" \/ (pc = "upsert" /\ start > 0) => Doc \in torn
-----------------------------------------------------------------------------
(* What a reader of the collection finds of a document.                    *)
Found == [d \in Docs |-> {stored[d][i] : i \in Indexes} \ {NoVersion}]

Complete == {d \in Docs : \E v \in Versions : stored[d] = Whole(v)}

Writing ==
    IF pc = "delete" \/ (pc = "upsert" /\ start > 0) THEN {<<Doc, version>>} ELSE {}

Index == INSTANCE DocumentIndex
         WITH size <- collection, found <- Found, complete <- Complete,
              writing <- Writing, unfinished <- torn

(* upsert_document: "deterministic IDs overwrite in place, then remove     *)
(* chunks beyond the new count" (qdrant_store.py:103-104). Request by      *)
(* request, with any of them failing before or after its effect, the runs  *)
(* replace one document after the other as DocumentIndex says: no third    *)
(* version turns up, nothing found is lost, and a document is left         *)
(* half-written only by a write that did not end.                          *)
ImplementsIndex == Index!IndexSpec
=============================================================================
