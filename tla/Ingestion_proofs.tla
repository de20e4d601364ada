-------------------------- MODULE Ingestion_proofs --------------------------
(***************************************************************************)
(* Theorems about Ingestion, for every set of documents, titles, versions, *)
(* chunk counts, batch size and options.                                   *)
(***************************************************************************)
EXTENDS Ingestion, FiniteSetTheorems, TLAPS

(* Chunk indexes are natural numbers.                                      *)
LEMMA IndexesAreNat == Indexes \subseteq Nat
  BY ChunksAssumption DEF Indexes

(***************************************************************************)
(* Types                                                                   *)
(***************************************************************************)
(* Every variable starts with a value of its type.                         *)
LEMMA TypeInit == Init => TypeOK
  <1>1. Init => StoreTypeOK
    BY DEF Init, StoreInit, StoreTypeOK, Nothing
  <1>2. Init => aborted \in BOOLEAN
    BY DEF Init
  <1>3. Init => exit \in Exits /\ pc \in Steps
    BY DEF Init, Exits, Steps
  <1> QED
    BY <1>1, <1>2, <1>3 DEF Init, TypeOK

(* The requests that set a collection up, and drop it, keep types.         *)
LEMMA SetupKeepsStoreType ==
  ASSUME StoreTypeOK, NEW dim \in Dimensions,
         DeleteCollection \/ CreateCollection(dim) \/ CreateIndexes \/ UNCHANGED storeVars
  PROVE  StoreTypeOK'
  <1> USE DEF StoreTypeOK, storeVars
  <1>1. CASE DeleteCollection
    BY <1>1 DEF DeleteCollection, Nothing
  <1>2. CASE CreateCollection(dim)
    BY <1>2 DEF CreateCollection
  <1>3. CASE CreateIndexes
    BY <1>3 DEF CreateIndexes
  <1>4. CASE UNCHANGED storeVars
    BY <1>4
  <1> QED
    BY <1>1, <1>2, <1>3, <1>4

(* No request, failure or crash takes a variable out of its type, provided *)
(* a document is in work where the code works on one.                      *)
LEMMA TypeStep == TypeOK /\ WorkInv /\ [Next]_vars => TypeOK'
  <1> SUFFICES ASSUME TypeOK, WorkInv, [Next]_vars PROVE TypeOK'
    OBVIOUS
  <1> USE ChunksAssumption, TitlesAssumption, IndexesAreNat
  <1>0. opts.dimension \in Dimensions
    BY OptionsAssumption DEF TypeOK
  <1> USE DEF TypeOK, StoreTypeOK, Steps, Exits, Nothing, vars, runVars, workVars, reportVars,
              counts, storeVars
  <1>1. ASSUME StartRun PROVE TypeOK'
    BY <1>1 DEF StartRun
  <1>2. ASSUME Recreate PROVE TypeOK'
    BY <1>2 DEF Recreate, DeleteCollection
  <1>3. ASSUME EnsureCollection PROVE TypeOK'
    <2>1. StoreTypeOK'
      BY <1>0, <1>3, SetupKeepsStoreType DEF EnsureCollection
    <2>2. aborted' \in BOOLEAN /\ exit' \in Exits /\ pc' \in Steps
      BY <1>3 DEF EnsureCollection, End
    <2>3. torn' \in SUBSET Docs
      BY <1>3 DEF EnsureCollection, End
    <2> QED
      BY <1>3, <2>1, <2>2, <2>3 DEF EnsureCollection, End
  <1>4. ASSUME IndexCollection PROVE TypeOK'
    BY <1>4 DEF IndexCollection, CreateIndexes
  <1>5. ASSUME SetupFails PROVE TypeOK'
    <2>1. StoreTypeOK'
      BY <1>0, <1>5, SetupKeepsStoreType DEF SetupFails
    <2>2. aborted' \in BOOLEAN /\ exit' \in Exits /\ pc' \in Steps
      BY <1>5 DEF SetupFails, End
    <2>3. torn' \in SUBSET Docs
      BY <1>5 DEF SetupFails, End
    <2> QED
      BY <1>5, <2>1, <2>2, <2>3 DEF SetupFails, End
  <1>6. ASSUME NEW t \in Titles, FetchFails(t) PROVE TypeOK'
    BY <1>6 DEF FetchFails, Fail, NextTitle
  <1>7. ASSUME NEW t \in Titles, FetchDuplicate(t) PROVE TypeOK'
    BY <1>7 DEF FetchDuplicate, NextTitle
  <1>8. ASSUME NEW t \in Titles, FetchEmpty(t) PROVE TypeOK'
    BY <1>8 DEF FetchEmpty, Fail, NextTitle
  <1>9. ASSUME NEW t \in Titles, NEW v \in Versions, Fetch(t, v) PROVE TypeOK'
    BY <1>9 DEF Fetch, NextTitle
  <1>10. ASSUME NEW f \in Versions \union {NoVersion}, Compare(f) PROVE TypeOK'
    BY <1>10 DEF Compare, NextTitle
  <1>11. ASSUME Embed PROVE TypeOK'
    BY <1>11 DEF Embed
  <1>12. ASSUME EmbedFails PROVE TypeOK'
    BY <1>12 DEF EmbedFails, Fail, NextTitle, WorkInv, DocumentSteps
  <1>13. ASSUME EmbedFailsFatally PROVE TypeOK'
    BY <1>13 DEF EmbedFailsFatally, Abort, WorkInv, DocumentSteps
  <1>14. ASSUME Upsert PROVE TypeOK'
    BY <1>14 DEF Upsert, UpsertBatch, WorkInv, DocumentSteps, Doc
  <1>15. ASSUME Delete PROVE TypeOK'
    BY <1>15 DEF Delete, DeleteTail, NextTitle, WorkInv, DocumentSteps, Doc
  <1>16. ASSUME StoreFails PROVE TypeOK'
    BY <1>16 DEF StoreFails, UpsertBatch, DeleteTail, Abort, WorkInv, DocumentSteps, Doc
  <1>17. ASSUME FinishDocuments PROVE TypeOK'
    BY <1>17 DEF FinishDocuments, End, ExitCode
  <1>18. ASSUME Count PROVE TypeOK'
    BY <1>18 DEF Count, End, ExitCode
  <1>19. ASSUME Crash PROVE TypeOK'
    BY <1>19 DEF Crash, End
  <1>20. CASE UNCHANGED vars
    BY <1>20
  <1> QED
    BY <1>1, <1>2, <1>3, <1>4, <1>5, <1>6, <1>7, <1>8, <1>9, <1>10, <1>11,
       <1>12, <1>13, <1>14, <1>15, <1>16, <1>17, <1>18, <1>19, <1>20 DEF Next, Progress

(***************************************************************************)
(* Which document is in work                                               *)
(***************************************************************************)
(* Nothing is in work, to do or failed before the first run.               *)
LEMMA WorkInit == Init => WorkInv
  BY TitlesAssumption DEF Init, WorkInv, DocumentSteps

(* Every step keeps the titles to do, in work and failed apart.            *)
LEMMA WorkStep == TypeOK /\ WorkInv /\ [Next]_vars => WorkInv'
  <1> SUFFICES ASSUME TypeOK, WorkInv, [Next]_vars PROVE WorkInv'
    OBVIOUS
  <1> USE TitlesAssumption, ChunksAssumption
  <1> USE DEF TypeOK, WorkInv, DocumentSteps, Steps, Exits, vars, runVars, workVars, reportVars,
              counts, storeVars
  <1>1. ASSUME StartRun PROVE WorkInv'
    BY <1>1 DEF StartRun
  <1>2. ASSUME Recreate PROVE WorkInv'
    BY <1>2 DEF Recreate, DeleteCollection
  <1>3. ASSUME EnsureCollection PROVE WorkInv'
    BY <1>3 DEF EnsureCollection, CreateCollection, End
  <1>4. ASSUME IndexCollection PROVE WorkInv'
    BY <1>4 DEF IndexCollection, CreateIndexes
  <1>5. ASSUME SetupFails PROVE WorkInv'
    BY <1>5 DEF SetupFails, DeleteCollection, CreateCollection, CreateIndexes, End
  <1>6. ASSUME NEW t \in Titles, FetchFails(t) PROVE WorkInv'
    BY <1>6 DEF FetchFails, Fail, NextTitle
  <1>7. ASSUME NEW t \in Titles, FetchDuplicate(t) PROVE WorkInv'
    BY <1>7 DEF FetchDuplicate, NextTitle
  <1>8. ASSUME NEW t \in Titles, FetchEmpty(t) PROVE WorkInv'
    BY <1>8 DEF FetchEmpty, Fail, NextTitle
  <1>9. ASSUME NEW t \in Titles, NEW v \in Versions, Fetch(t, v) PROVE WorkInv'
    BY <1>9 DEF Fetch, NextTitle
  <1>10. ASSUME NEW f \in Versions \union {NoVersion}, Compare(f) PROVE WorkInv'
    BY <1>10 DEF Compare, NextTitle
  <1>11. ASSUME Embed PROVE WorkInv'
    BY <1>11 DEF Embed
  <1>12. ASSUME EmbedFails PROVE WorkInv'
    BY <1>12 DEF EmbedFails, Fail, NextTitle
  <1>13. ASSUME EmbedFailsFatally PROVE WorkInv'
    BY <1>13 DEF EmbedFailsFatally, Abort
  <1>14. ASSUME Upsert PROVE WorkInv'
    BY <1>14 DEF Upsert, UpsertBatch
  <1>15. ASSUME Delete PROVE WorkInv'
    BY <1>15 DEF Delete, DeleteTail, NextTitle
  <1>16. ASSUME StoreFails PROVE WorkInv'
    BY <1>16 DEF StoreFails, UpsertBatch, DeleteTail, Abort
  <1>17. ASSUME FinishDocuments PROVE WorkInv'
    BY <1>17 DEF FinishDocuments, End, ExitCode
  <1>18. ASSUME Count PROVE WorkInv'
    BY <1>18 DEF Count, End, ExitCode
  <1>19. ASSUME Crash PROVE WorkInv'
    BY <1>19 DEF Crash, End
  <1>20. CASE UNCHANGED vars
    BY <1>20
  <1> QED
    BY <1>1, <1>2, <1>3, <1>4, <1>5, <1>6, <1>7, <1>8, <1>9, <1>10, <1>11,
       <1>12, <1>13, <1>14, <1>15, <1>16, <1>17, <1>18, <1>19, <1>20 DEF Next, Progress

(***************************************************************************)
(* The collection of a run                                                 *)
(***************************************************************************)
(* There is no run yet.                                                    *)
LEMMA CollectionInit == Init => CollectionInv
  BY DEF Init, CollectionInv, DocumentSteps

(* A run goes on to the documents only with a collection of its size.      *)
LEMMA CollectionStep == TypeOK /\ WorkInv /\ CollectionInv /\ [Next]_vars => CollectionInv'
  <1> SUFFICES ASSUME TypeOK, WorkInv, CollectionInv, [Next]_vars PROVE CollectionInv'
    OBVIOUS
  <1> USE DEF CollectionInv, WorkInv, DocumentSteps, vars, runVars, workVars, reportVars,
              counts, storeVars
  <1>1. ASSUME StartRun PROVE CollectionInv'
    BY <1>1 DEF StartRun
  <1>2. ASSUME Recreate PROVE CollectionInv'
    BY <1>2 DEF Recreate, DeleteCollection
  <1>3. ASSUME EnsureCollection PROVE CollectionInv'
    BY <1>3 DEF EnsureCollection, CreateCollection, End
  <1>4. ASSUME IndexCollection PROVE CollectionInv'
    BY <1>4 DEF IndexCollection, CreateIndexes
  <1>5. ASSUME SetupFails PROVE CollectionInv'
    BY <1>5 DEF SetupFails, DeleteCollection, CreateCollection, CreateIndexes, End
  <1>6. ASSUME NEW t \in Titles, FetchFails(t) PROVE CollectionInv'
    BY <1>6 DEF FetchFails, Fail, NextTitle
  <1>7. ASSUME NEW t \in Titles, FetchDuplicate(t) PROVE CollectionInv'
    BY <1>7 DEF FetchDuplicate, NextTitle
  <1>8. ASSUME NEW t \in Titles, FetchEmpty(t) PROVE CollectionInv'
    BY <1>8 DEF FetchEmpty, Fail, NextTitle
  <1>9. ASSUME NEW t \in Titles, NEW v \in Versions, Fetch(t, v) PROVE CollectionInv'
    BY <1>9 DEF Fetch, NextTitle
  <1>10. ASSUME NEW f \in Versions \union {NoVersion}, Compare(f) PROVE CollectionInv'
    BY <1>10 DEF Compare, NextTitle
  <1>11. ASSUME Embed PROVE CollectionInv'
    BY <1>11 DEF Embed
  <1>12. ASSUME EmbedFails PROVE CollectionInv'
    BY <1>12 DEF EmbedFails, Fail, NextTitle
  <1>13. ASSUME EmbedFailsFatally PROVE CollectionInv'
    BY <1>13 DEF EmbedFailsFatally, Abort
  <1>14. ASSUME Upsert PROVE CollectionInv'
    BY <1>14 DEF Upsert, UpsertBatch
  <1>15. ASSUME Delete PROVE CollectionInv'
    BY <1>15 DEF Delete, DeleteTail, NextTitle
  <1>16. ASSUME StoreFails PROVE CollectionInv'
    BY <1>16 DEF StoreFails, UpsertBatch, DeleteTail, Abort
  <1>17. ASSUME FinishDocuments PROVE CollectionInv'
    BY <1>17 DEF FinishDocuments, End, ExitCode
  <1>18. ASSUME Count PROVE CollectionInv'
    BY <1>18 DEF Count, End, ExitCode
  <1>19. ASSUME Crash PROVE CollectionInv'
    BY <1>19 DEF Crash, End
  <1>20. CASE UNCHANGED vars
    BY <1>20
  <1> QED
    BY <1>1, <1>2, <1>3, <1>4, <1>5, <1>6, <1>7, <1>8, <1>9, <1>10, <1>11,
       <1>12, <1>13, <1>14, <1>15, <1>16, <1>17, <1>18, <1>19, <1>20 DEF Next, Progress

(***************************************************************************)
(* Batches                                                                 *)
(***************************************************************************)
(* No batch is being written.                                              *)
LEMMA BatchInit == Init => BatchInv
  BY DEF Init, BatchInv

(* What the batches before this one wrote is still there.                  *)
LEMMA BatchStep == TypeOK /\ WorkInv /\ BatchInv /\ [Next]_vars => BatchInv'
  <1> SUFFICES ASSUME TypeOK, WorkInv, BatchInv, [Next]_vars PROVE BatchInv'
    OBVIOUS
  <1> USE ChunksAssumption, TitlesAssumption, IndexesAreNat
  <1> USE DEF BatchInv, TypeOK, StoreTypeOK, WorkInv, DocumentSteps, Doc, vars, runVars, workVars, reportVars,
              counts, storeVars
  <1>1. ASSUME StartRun PROVE BatchInv'
    BY <1>1 DEF StartRun
  <1>2. ASSUME Recreate PROVE BatchInv'
    BY <1>2 DEF Recreate, DeleteCollection
  <1>3. ASSUME EnsureCollection PROVE BatchInv'
    BY <1>3 DEF EnsureCollection, CreateCollection, End
  <1>4. ASSUME IndexCollection PROVE BatchInv'
    BY <1>4 DEF IndexCollection, CreateIndexes
  <1>5. ASSUME SetupFails PROVE BatchInv'
    BY <1>5 DEF SetupFails, DeleteCollection, CreateCollection, CreateIndexes, End
  <1>6. ASSUME NEW t \in Titles, FetchFails(t) PROVE BatchInv'
    BY <1>6 DEF FetchFails, Fail, NextTitle
  <1>7. ASSUME NEW t \in Titles, FetchDuplicate(t) PROVE BatchInv'
    BY <1>7 DEF FetchDuplicate, NextTitle
  <1>8. ASSUME NEW t \in Titles, FetchEmpty(t) PROVE BatchInv'
    BY <1>8 DEF FetchEmpty, Fail, NextTitle
  <1>9. ASSUME NEW t \in Titles, NEW v \in Versions, Fetch(t, v) PROVE BatchInv'
    BY <1>9 DEF Fetch, NextTitle
  <1>10. ASSUME NEW f \in Versions \union {NoVersion}, Compare(f) PROVE BatchInv'
    BY <1>10 DEF Compare, NextTitle
  <1>11. ASSUME Embed PROVE BatchInv'
    BY <1>11 DEF Embed
  <1>12. ASSUME EmbedFails PROVE BatchInv'
    BY <1>12 DEF EmbedFails, Fail, NextTitle
  <1>13. ASSUME EmbedFailsFatally PROVE BatchInv'
    BY <1>13 DEF EmbedFailsFatally, Abort
  <1>14. ASSUME Upsert PROVE BatchInv'
    BY <1>14 DEF Upsert, UpsertBatch
  <1>15. ASSUME Delete PROVE BatchInv'
    BY <1>15 DEF Delete, DeleteTail, NextTitle
  <1>16. ASSUME StoreFails PROVE BatchInv'
    BY <1>16 DEF StoreFails, UpsertBatch, DeleteTail, Abort
  <1>17. ASSUME FinishDocuments PROVE BatchInv'
    BY <1>17 DEF FinishDocuments, End, ExitCode
  <1>18. ASSUME Count PROVE BatchInv'
    BY <1>18 DEF Count, End, ExitCode
  <1>19. ASSUME Crash PROVE BatchInv'
    BY <1>19 DEF Crash, End
  <1>20. CASE UNCHANGED vars
    BY <1>20
  <1> QED
    BY <1>1, <1>2, <1>3, <1>4, <1>5, <1>6, <1>7, <1>8, <1>9, <1>10, <1>11,
       <1>12, <1>13, <1>14, <1>15, <1>16, <1>17, <1>18, <1>19, <1>20 DEF Next, Progress

(***************************************************************************)
(* Finished documents are whole                                            *)
(***************************************************************************)
(* After all batches, deleting the tail leaves the document in the one     *)
(* version, and the others as they were.                                   *)
LEMMA DeleteLeavesWhole ==
  ASSUME TypeOK, WorkInv, BatchInv, pc = "delete", DeleteTail(Doc, version)
  PROVE  /\ Doc \in Docs
         /\ version \in Versions
         /\ stored' = [stored EXCEPT ![Doc] = Whole(version)]
  <1>1. Doc \in Docs /\ version \in Versions
    BY TitlesAssumption DEF TypeOK, WorkInv, DocumentSteps, Doc
  <1>2. \A i \in Indexes : i < ChunkCount[version] => stored[Doc][i] = version
    BY DEF BatchInv
  <1>3. [i \in Indexes |-> IF i >= ChunkCount[version] THEN NoVersion ELSE stored[Doc][i]]
          = Whole(version)
    BY <1>1, <1>2, ChunksAssumption, IndexesAreNat DEF Whole
  <1> QED
    BY <1>1, <1>3 DEF DeleteTail

(* An upsert touches its document only.                                    *)
LEMMA UpsertTouchesOne ==
  ASSUME TypeOK, WorkInv, pc = "upsert", UpsertBatch(Doc, version, start)
  PROVE  \A d \in Docs : d # Doc => stored'[d] = stored[d]
  BY DEF TypeOK, StoreTypeOK, UpsertBatch

(* There are no documents at first.                                        *)
LEMMA FinishedInit == Init => FinishedDocumentsAreWhole
  BY DEF Init, StoreInit, FinishedDocumentsAreWhole

(* Dropping the collection leaves no document; a write that is cut short   *)
(* leaves a torn one; one that ends leaves a whole one.                    *)
LEMMA FinishedStep ==
  TypeOK /\ WorkInv /\ BatchInv /\ FinishedDocumentsAreWhole /\ [Next]_vars
    => FinishedDocumentsAreWhole'
  <1> SUFFICES ASSUME TypeOK, WorkInv, BatchInv, FinishedDocumentsAreWhole, [Next]_vars
               PROVE FinishedDocumentsAreWhole'
    OBVIOUS
  <1>0. ASSUME UNCHANGED <<storeVars, torn>> PROVE FinishedDocumentsAreWhole'
    BY <1>0 DEF FinishedDocumentsAreWhole, storeVars, Nothing, Whole
  <1>a. ASSUME DeleteCollection PROVE FinishedDocumentsAreWhole'
    BY <1>a DEF FinishedDocumentsAreWhole, DeleteCollection, Nothing
  <1>b. ASSUME stored' = stored, torn' = torn PROVE FinishedDocumentsAreWhole'
    BY <1>b DEF FinishedDocumentsAreWhole, Nothing, Whole
  <1>c. ASSUME pc = "upsert", UpsertBatch(Doc, version, start), torn' = torn \union {Doc}
        PROVE FinishedDocumentsAreWhole'
    BY <1>c, UpsertTouchesOne DEF FinishedDocumentsAreWhole, Nothing, Whole
  <1>d. ASSUME pc = "delete", DeleteTail(Doc, version), torn' \in {torn, torn \ {Doc}}
        PROVE FinishedDocumentsAreWhole'
    <2>1. ASSUME NEW d \in Docs \ torn'
          PROVE stored'[d] = Nothing \/ \E v \in Versions : stored'[d] = Whole(v)
      <3>1. CASE d = Doc
        BY <1>d, <3>1, DeleteLeavesWhole DEF TypeOK, StoreTypeOK
      <3>2. CASE d # Doc
        BY <1>d, <2>1, <3>2, DeleteLeavesWhole
        DEF TypeOK, StoreTypeOK, FinishedDocumentsAreWhole
      <3> QED
        BY <3>1, <3>2
    <2> QED
      BY <2>1 DEF FinishedDocumentsAreWhole, Nothing, Whole
  <1>1. ASSUME StartRun PROVE FinishedDocumentsAreWhole'
    BY <1>1, <1>0 DEF StartRun
  <1>2. ASSUME Recreate PROVE FinishedDocumentsAreWhole'
    BY <1>2, <1>a DEF Recreate
  <1>3. ASSUME EnsureCollection PROVE FinishedDocumentsAreWhole'
    BY <1>3, <1>b DEF EnsureCollection, CreateCollection, storeVars
  <1>4. ASSUME IndexCollection PROVE FinishedDocumentsAreWhole'
    BY <1>4, <1>b DEF IndexCollection, CreateIndexes
  <1>5. ASSUME SetupFails PROVE FinishedDocumentsAreWhole'
    BY <1>5, <1>a, <1>b DEF SetupFails, CreateCollection, CreateIndexes, storeVars
  <1>6. ASSUME NEW t \in Titles, FetchFails(t) PROVE FinishedDocumentsAreWhole'
    BY <1>6, <1>0 DEF FetchFails
  <1>7. ASSUME NEW t \in Titles, FetchDuplicate(t) PROVE FinishedDocumentsAreWhole'
    BY <1>7, <1>0 DEF FetchDuplicate
  <1>8. ASSUME NEW t \in Titles, FetchEmpty(t) PROVE FinishedDocumentsAreWhole'
    BY <1>8, <1>0 DEF FetchEmpty
  <1>9. ASSUME NEW t \in Titles, NEW v \in Versions, Fetch(t, v) PROVE FinishedDocumentsAreWhole'
    BY <1>9, <1>0 DEF Fetch
  <1>10. ASSUME NEW f \in Versions \union {NoVersion}, Compare(f) PROVE FinishedDocumentsAreWhole'
    BY <1>10, <1>0 DEF Compare
  <1>11. ASSUME Embed PROVE FinishedDocumentsAreWhole'
    BY <1>11, <1>0 DEF Embed
  <1>12. ASSUME EmbedFails PROVE FinishedDocumentsAreWhole'
    BY <1>12, <1>0 DEF EmbedFails
  <1>13. ASSUME EmbedFailsFatally PROVE FinishedDocumentsAreWhole'
    BY <1>13, <1>0 DEF EmbedFailsFatally
  <1>14. ASSUME Upsert PROVE FinishedDocumentsAreWhole'
    BY <1>14, <1>c DEF Upsert
  <1>15. ASSUME Delete PROVE FinishedDocumentsAreWhole'
    BY <1>15, <1>d DEF Delete
  <1>16. ASSUME StoreFails PROVE FinishedDocumentsAreWhole'
    BY <1>16, <1>b, <1>c, <1>d DEF StoreFails, storeVars
  <1>17. ASSUME FinishDocuments PROVE FinishedDocumentsAreWhole'
    BY <1>17, <1>0 DEF FinishDocuments
  <1>18. ASSUME Count PROVE FinishedDocumentsAreWhole'
    BY <1>18, <1>0 DEF Count
  <1>19. ASSUME Crash PROVE FinishedDocumentsAreWhole'
    BY <1>19, <1>0 DEF Crash
  <1>20. CASE UNCHANGED vars
    BY <1>20, <1>0 DEF vars
  <1> QED
    BY <1>1, <1>2, <1>3, <1>4, <1>5, <1>6, <1>7, <1>8, <1>9, <1>10, <1>11,
       <1>12, <1>13, <1>14, <1>15, <1>16, <1>17, <1>18, <1>19, <1>20 DEF Next, Progress

(***************************************************************************)
(* Every title is accounted for                                            *)
(***************************************************************************)
(* The sets of titles are finite, so that they can be counted.             *)
LEMMA TitleSetsFinite ==
  ASSUME TypeOK
  PROVE  /\ IsFiniteSet(todo) /\ IsFiniteSet(failures)
         /\ Cardinality(todo) \in Nat /\ Cardinality(failures) \in Nat
         /\ Cardinality(Titles) \in Nat
  BY TitlesAssumption, FS_Subset, FS_CardinalityType DEF TypeOK

(* Taking a title up leaves one less to do.                                *)
LEMMA TakeTitle ==
  ASSUME TypeOK, NEW t \in todo
  PROVE  Cardinality(todo \ {t}) = Cardinality(todo) - 1
  BY TitleSetsFinite, FS_RemoveElement

(* A title fails once.                                                     *)
LEMMA AddFailure ==
  ASSUME TypeOK, NEW t, t \notin failures
  PROVE  Cardinality(failures \union {t}) = Cardinality(failures) + 1
  BY TitleSetsFinite, FS_AddElement

(* Disjoint finite sets are counted apart.                                 *)
LEMMA DisjointUnion ==
  ASSUME NEW S, IsFiniteSet(S), NEW T, IsFiniteSet(T), S \intersect T = {}
  PROVE  Cardinality(S \union T) = Cardinality(S) + Cardinality(T)
  <1>1. Cardinality(S) \in Nat /\ Cardinality(T) \in Nat
    BY FS_CardinalityType
  <1>2. Cardinality(S \union T) = Cardinality(S) + Cardinality(T) - Cardinality(S \intersect T)
    BY FS_Union
  <1> QED
    BY <1>1, <1>2, FS_EmptySet

(* An abort makes the title in work and all titles to do failures.         *)
LEMMA AbortFailures ==
  ASSUME TypeOK, WorkInv
  PROVE  Cardinality(failures \union {reference} \union todo)
           = Cardinality(failures) + 1 + Cardinality(todo)
  <1>1. /\ IsFiniteSet(failures \union {reference})
        /\ Cardinality(failures \union {reference}) = Cardinality(failures) + 1
    BY TitleSetsFinite, FS_AddElement DEF WorkInv
  <1>2. (failures \union {reference}) \intersect todo = {}
    BY DEF WorkInv
  <1>3. Cardinality((failures \union {reference}) \union todo)
          = Cardinality(failures \union {reference}) + Cardinality(todo)
    BY <1>1, <1>2, TitleSetsFinite, DisjointUnion
  <1> QED
    BY <1>1, <1>3

(* No run has ended yet.                                                   *)
LEMMA AccountInit == Init => EveryTitleIsAccountedFor
  BY DEF Init, EveryTitleIsAccountedFor

(* Each step moves one title from one place to another, an abort moves all *)
(* that are left.                                                          *)
LEMMA AccountStep ==
  TypeOK /\ WorkInv /\ EveryTitleIsAccountedFor /\ [Next]_vars => EveryTitleIsAccountedFor'
  <1> SUFFICES ASSUME TypeOK, WorkInv, EveryTitleIsAccountedFor, [Next]_vars
               PROVE EveryTitleIsAccountedFor'
    OBVIOUS
  <1> USE TitlesAssumption, TitleSetsFinite, FS_EmptySet
  <1> USE DEF TypeOK, WorkInv, DocumentSteps, EveryTitleIsAccountedFor, vars, runVars, workVars, reportVars,
              counts, storeVars
  <1>1. ASSUME StartRun PROVE EveryTitleIsAccountedFor'
    BY <1>1 DEF StartRun
  <1>2. ASSUME Recreate PROVE EveryTitleIsAccountedFor'
    BY <1>2 DEF Recreate, DeleteCollection
  <1>3. ASSUME EnsureCollection PROVE EveryTitleIsAccountedFor'
    BY <1>3 DEF EnsureCollection, CreateCollection, End
  <1>4. ASSUME IndexCollection PROVE EveryTitleIsAccountedFor'
    BY <1>4 DEF IndexCollection, CreateIndexes
  <1>5. ASSUME SetupFails PROVE EveryTitleIsAccountedFor'
    BY <1>5 DEF SetupFails, DeleteCollection, CreateCollection, CreateIndexes, End
  <1>6. ASSUME NEW t \in Titles, FetchFails(t) PROVE EveryTitleIsAccountedFor'
    BY <1>6, TakeTitle, AddFailure DEF FetchFails, Fail, NextTitle
  <1>7. ASSUME NEW t \in Titles, FetchDuplicate(t) PROVE EveryTitleIsAccountedFor'
    BY <1>7, TakeTitle DEF FetchDuplicate, NextTitle
  <1>8. ASSUME NEW t \in Titles, FetchEmpty(t) PROVE EveryTitleIsAccountedFor'
    BY <1>8, TakeTitle, AddFailure DEF FetchEmpty, Fail, NextTitle
  <1>9. ASSUME NEW t \in Titles, NEW v \in Versions, Fetch(t, v) PROVE EveryTitleIsAccountedFor'
    BY <1>9, TakeTitle DEF Fetch, NextTitle
  <1>10. ASSUME NEW f \in Versions \union {NoVersion}, Compare(f) PROVE EveryTitleIsAccountedFor'
    BY <1>10 DEF Compare, NextTitle
  <1>11. ASSUME Embed PROVE EveryTitleIsAccountedFor'
    BY <1>11 DEF Embed
  <1>12. ASSUME EmbedFails PROVE EveryTitleIsAccountedFor'
    BY <1>12, AddFailure DEF EmbedFails, Fail, NextTitle
  <1>13. ASSUME EmbedFailsFatally PROVE EveryTitleIsAccountedFor'
    BY <1>13, AbortFailures DEF EmbedFailsFatally, Abort
  <1>14. ASSUME Upsert PROVE EveryTitleIsAccountedFor'
    BY <1>14 DEF Upsert, UpsertBatch
  <1>15. ASSUME Delete PROVE EveryTitleIsAccountedFor'
    BY <1>15 DEF Delete, DeleteTail, NextTitle
  <1>16. ASSUME StoreFails PROVE EveryTitleIsAccountedFor'
    BY <1>16, AbortFailures DEF StoreFails, Abort
  <1>17. ASSUME FinishDocuments PROVE EveryTitleIsAccountedFor'
    BY <1>17 DEF FinishDocuments, End, ExitCode
  <1>18. ASSUME Count PROVE EveryTitleIsAccountedFor'
    BY <1>18 DEF Count, End, ExitCode
  <1>19. ASSUME Crash PROVE EveryTitleIsAccountedFor'
    BY <1>19 DEF Crash, End
  <1>20. CASE UNCHANGED vars
    BY <1>20
  <1> QED
    BY <1>1, <1>2, <1>3, <1>4, <1>5, <1>6, <1>7, <1>8, <1>9, <1>10, <1>11,
       <1>12, <1>13, <1>14, <1>15, <1>16, <1>17, <1>18, <1>19, <1>20 DEF Next, Progress

(***************************************************************************)
(* Theorems                                                                *)
(***************************************************************************)
(* The conjunction of the parts is an invariant.                           *)
THEOREM Inductive == Spec => []IndInv
  <1>1. Init => IndInv
    BY TypeInit, WorkInit, CollectionInit, BatchInit, FinishedInit, AccountInit DEF IndInv
  <1>2. IndInv /\ [Next]_vars => IndInv'
    BY TypeStep, WorkStep, CollectionStep, BatchStep, FinishedStep, AccountStep DEF IndInv
  <1> QED
    BY <1>1, <1>2, PTL DEF Spec

(* Type correctness of the ingestion runs.                                 *)
THEOREM TypeCorrect == Spec => []TypeOK
  <1>1. IndInv => TypeOK
    BY DEF IndInv
  <1> QED
    BY <1>1, Inductive, PTL

(* A document whose last write ended is stored in exactly one version,     *)
(* whatever failed before or since (upsert_document).                      *)
THEOREM FinishedDocuments == Spec => []FinishedDocumentsAreWhole
  <1>1. IndInv => FinishedDocumentsAreWhole
    BY DEF IndInv
  <1> QED
    BY <1>1, Inductive, PTL

(* The counts of the IngestionReport add up to the titles requested.       *)
THEOREM ReportAddsUp == Spec => []EveryTitleIsAccountedFor
  <1>1. IndInv => EveryTitleIsAccountedFor
    BY DEF IndInv
  <1> QED
    BY <1>1, Inductive, PTL

(* Vectors are written to a collection of their size only                  *)
(* (ensure_collection).                                                    *)
THEOREM WritesFit == Spec => []WritesFitTheCollection
  <1>1. IndInv => WritesFitTheCollection
    BY DEF IndInv, CollectionInv, WorkInv, DocumentSteps, WritesFitTheCollection
  <1> QED
    BY <1>1, Inductive, PTL

(* Unless the collection is dropped, chunks disappear only in the step     *)
(* that leaves their document whole (qdrant_store.py:103-104).             *)
THEOREM NeverMissing == Spec => NeverMissingMidUpdate
  <1> DEFINE Kept ==
        \A d \in Docs, i \in Indexes :
          stored[d][i] # NoVersion /\ stored'[d][i] = NoVersion =>
             \/ collection' = NoDimension
             \/ \E v \in Versions : stored'[d] = Whole(v)
  <1>1. ASSUME IndInv, [Next]_vars PROVE Kept
    <2> USE <1>1 DEF IndInv
    <2>1. ASSUME UNCHANGED stored PROVE Kept
      BY <2>1
    <2>2. ASSUME DeleteCollection PROVE Kept
      BY <2>2 DEF DeleteCollection
    <2>3. ASSUME pc = "upsert", UpsertBatch(Doc, version, start) PROVE Kept
      <3>1. Doc \in Docs /\ version \in Versions
        BY <2>3, TitlesAssumption DEF TypeOK, WorkInv, DocumentSteps, Doc
      <3>2. \A d \in Docs, i \in Indexes : stored'[d][i] \in {version, stored[d][i]}
        BY <2>3, <3>1 DEF TypeOK, StoreTypeOK, UpsertBatch
      <3> QED
        BY <3>1, <3>2, ChunksAssumption
    <2>4. ASSUME pc = "delete", DeleteTail(Doc, version) PROVE Kept
      BY <2>4, DeleteLeavesWhole DEF TypeOK, StoreTypeOK
    <2>5. Recreate \/ SetupFails => Kept
      BY <2>1, <2>2 DEF Recreate, SetupFails, CreateCollection, CreateIndexes, storeVars
    <2>6. Upsert \/ Delete \/ StoreFails => Kept
      BY <2>1, <2>3, <2>4 DEF Upsert, Delete, StoreFails, storeVars
    <2>7. EnsureCollection \/ IndexCollection => Kept
      BY <2>1 DEF EnsureCollection, IndexCollection, CreateCollection, CreateIndexes, storeVars
    <2>8. ASSUME NEW t \in Titles,
                 \/ FetchFails(t) \/ FetchDuplicate(t) \/ FetchEmpty(t)
                 \/ \E v \in Versions : Fetch(t, v)
          PROVE  Kept
      BY <2>1, <2>8 DEF FetchFails, FetchDuplicate, FetchEmpty, Fetch, storeVars
    <2>9. ASSUME NEW f \in Versions \union {NoVersion}, Compare(f) PROVE Kept
      BY <2>1, <2>9 DEF Compare, storeVars
    <2>10. StartRun \/ Embed \/ EmbedFails \/ EmbedFailsFatally \/ FinishDocuments
             \/ Count \/ Crash \/ UNCHANGED vars => Kept
      BY <2>1
      DEF StartRun, Embed, EmbedFails, EmbedFailsFatally, FinishDocuments, Count, Crash,
          storeVars, vars
    <2> HIDE DEF Kept
    <2> QED
      BY <2>5, <2>6, <2>7, <2>8, <2>9, <2>10 DEF Next, Progress
  <1>2. IndInv /\ [Next]_vars => [Kept]_vars
    BY <1>1
  <1> QED
    BY <1>2, Inductive, PTL DEF Spec, NeverMissingMidUpdate

(* A fingerprint found of a finished document is the version it is stored  *)
(* in.                                                                     *)
LEMMA FingerprintTells ==
  ASSUME FinishedDocumentsAreWhole, NEW d \in Docs \ torn, NEW v \in Versions,
         v \in Fingerprints(d)
  PROVE  stored[d] = Whole(v)
  <1>1. stored[d] # Nothing
    BY ChunksAssumption DEF Fingerprints
  <1>2. PICK w \in Versions : stored[d] = Whole(w)
    BY <1>1 DEF FinishedDocumentsAreWhole
  <1>3. PICK i \in Indexes : stored[d][i] = v
    BY <1>1 DEF Fingerprints
  <1>4. v = w
    BY <1>2, <1>3, ChunksAssumption DEF Whole
  <1> QED
    BY <1>2, <1>4

(* A document counted as ingested is stored as fetched, and so is one      *)
(* counted as unchanged unless its last write was cut short (_ingest_one). *)
THEOREM CountedAreCurrent == Spec => CountedDocumentsAreCurrent
  <1> DEFINE Current ==
        /\ ingested' > ingested => stored'[Doc] = Whole(version)
        /\ unchanged' > unchanged /\ Doc \notin torn => stored'[Doc] = Whole(version)
  <1>1. ASSUME IndInv, [Next]_vars PROVE Current
    <2>0. ingested \in Nat /\ unchanged \in Nat
      BY <1>1 DEF IndInv, TypeOK
    <2>1. ASSUME UNCHANGED <<ingested, unchanged>> PROVE Current
      BY <2>0, <2>1
    <2>2. ASSUME NEW f \in Versions \union {NoVersion}, Compare(f) PROVE Current
      <3>1. Doc \in Docs /\ version \in Versions
        BY <1>1, <2>2, TitlesAssumption DEF IndInv, TypeOK, WorkInv, DocumentSteps, Compare, Doc
      <3>2. UNCHANGED <<ingested, stored>>
        BY <2>2 DEF Compare, storeVars
      <3>3. unchanged' > unchanged => version \in Fingerprints(Doc)
        BY <2>0, <2>2 DEF Compare
      <3>4. FinishedDocumentsAreWhole
        BY <1>1 DEF IndInv
      <3>5. unchanged' > unchanged /\ Doc \notin torn => stored[Doc] = Whole(version)
        BY <3>1, <3>3, <3>4, FingerprintTells
      <3> QED
        BY <2>0, <3>2, <3>5
    <2>3. ASSUME Delete PROVE Current
      <3>1. UNCHANGED unchanged
        BY <2>3 DEF Delete
      <3>2. stored' = [stored EXCEPT ![Doc] = Whole(version)] /\ Doc \in Docs
        BY <1>1, <2>3, DeleteLeavesWhole DEF Delete, IndInv
      <3>3. stored'[Doc] = Whole(version)
        BY <1>1, <3>2 DEF IndInv, TypeOK, StoreTypeOK
      <3> QED
        BY <2>0, <3>1, <3>3
    <2>4. StartRun => Current
      BY <2>0 DEF StartRun
    <2>5. ASSUME \/ Recreate \/ EnsureCollection \/ IndexCollection \/ SetupFails
                 \/ Embed \/ EmbedFails \/ EmbedFailsFatally \/ Upsert \/ StoreFails
                 \/ FinishDocuments \/ Count \/ Crash \/ UNCHANGED vars
          PROVE  Current
      BY <2>1, <2>5
      DEF Recreate, EnsureCollection, IndexCollection, SetupFails, Embed, EmbedFails,
          EmbedFailsFatally, Upsert, StoreFails, FinishDocuments, Count, Crash, End, Fail,
          Abort, counts, reportVars, runVars, vars
    <2>6. ASSUME NEW t \in Titles,
                 \/ FetchFails(t) \/ FetchDuplicate(t) \/ FetchEmpty(t)
                 \/ \E v \in Versions : Fetch(t, v)
          PROVE  Current
      BY <2>1, <2>6 DEF FetchFails, FetchDuplicate, FetchEmpty, Fetch, Fail, counts, reportVars
    <2> HIDE DEF Current
    <2> QED
      BY <1>1, <2>2, <2>3, <2>4, <2>5, <2>6 DEF Next, Progress
  <1>2. IndInv /\ [Next]_vars => [Current]_vars
    BY <1>1
  <1> QED
    BY <1>2, Inductive, PTL DEF Spec, CountedDocumentsAreCurrent

(***************************************************************************)
(* A successful run has stored its documents                               *)
(***************************************************************************)
(* Where the documents of a run are not touched, what is stored stays so.  *)
LEMMA SameDocuments ==
  ASSUME StoredInv, UNCHANGED <<stored, seen, todo, failures>>, UNCHANGED opts,
         pc' \in DocumentSteps \union {"fetch"}, pc \in DocumentSteps \union {"fetch"},
         pc' = "fetch" => pc = "fetch" \/ opts.dry \/ stored[Doc][0] # NoVersion,
         pc' \in DocumentSteps => reference' = reference /\ pc \in DocumentSteps,
         exit' \notin {"success"}
  PROVE  StoredInv'
<1>1. Nothing' = Nothing
  BY DEF Nothing
<1>2. pc' \in DocumentSteps => Doc' = Doc
  BY DEF Doc
<1>3. "fetch" \notin DocumentSteps /\ "count" \notin DocumentSteps
  BY DEF DocumentSteps
<1>4. SuccessMeansStored'
  BY DEF SuccessMeansStored
<1> QED
  BY <1>1, <1>2, <1>3, <1>4 DEF StoredInv, DocumentSteps

(* A run that has a failure to report is not a success.                    *)
LEMMA FailedRun ==
  ASSUME StoredInv, pc' \in {"fetch", "count", "off"}, failures' # {} \/ pc' = "off",
         pc' = "count" => collection' = opts'.dimension,
         exit' # "success",
         \A d \in Docs : stored'[d] = Nothing \/ stored'[d][0] # NoVersion
  PROVE  StoredInv'
<1>1. Nothing' = Nothing
  BY DEF Nothing
<1>2. SuccessMeansStored'
  BY DEF SuccessMeansStored
<1> QED
  BY <1>1, <1>2 DEF StoredInv, DocumentSteps

(* The first chunk of a document is written first and never removed alone. *)
LEMMA FirstChunkStays ==
  ASSUME TypeOK, WorkInv, BatchInv, StoredInv,
         \/ stored' = stored
         \/ pc = "upsert" /\ UpsertBatch(Doc, version, start)
         \/ pc = "delete" /\ DeleteTail(Doc, version)
  PROVE  /\ \A d \in Docs : stored'[d] = Nothing \/ stored'[d][0] # NoVersion
         /\ \A d \in Docs : d # Doc => stored'[d] = stored[d]
         /\ pc = "delete" /\ stored' # stored => stored'[Doc][0] # NoVersion
<1>1. CASE stored' = stored
  BY <1>1 DEF StoredInv
<1>2. CASE pc = "upsert" /\ UpsertBatch(Doc, version, start)
  <2>1. /\ Doc \in Docs /\ version \in Versions /\ start \in Nat
        /\ stored \in [Docs -> [Indexes -> Versions \union {NoVersion}]]
    BY <1>2, TitlesAssumption DEF TypeOK, StoreTypeOK, WorkInv, DocumentSteps, Doc
  <2>2. ChunkCount[version] \in Nat \ {0} /\ BatchSize \in Nat \ {0} /\ 0 \in Indexes
    BY <2>1, ChunksAssumption DEF Indexes
  <2>3. stored'[Doc][0] =
           IF 0 \in start..(start + BatchSize - 1) /\ 0 < ChunkCount[version]
           THEN version ELSE stored[Doc][0]
    BY <1>2, <2>1, <2>2 DEF UpsertBatch
  <2>4. stored'[Doc][0] = version
    <3>1. CASE start = 0
      BY <2>2, <2>3, <3>1
    <3>2. CASE start # 0
      BY <1>2, <2>1, <2>2, <2>3, <3>2 DEF BatchInv
    <3> QED
      BY <3>1, <3>2
  <2>5. \A d \in Docs : d # Doc => stored'[d] = stored[d]
    BY <1>2, <2>1 DEF UpsertBatch
  <2>6. version # NoVersion
    BY <2>1, ChunksAssumption
  <2> QED
    BY <1>2, <2>4, <2>5, <2>6 DEF StoredInv
<1>3. CASE pc = "delete" /\ DeleteTail(Doc, version)
  <2>1. /\ Doc \in Docs /\ version \in Versions
        /\ stored \in [Docs -> [Indexes -> Versions \union {NoVersion}]]
    BY <1>3, TitlesAssumption DEF TypeOK, StoreTypeOK, WorkInv, DocumentSteps, Doc
  <2>2. ChunkCount[version] \in Nat \ {0} /\ 0 \in Indexes
    BY <2>1, ChunksAssumption DEF Indexes
  <2>3. stored'[Doc][0] = stored[Doc][0] /\ stored[Doc][0] = version
    BY <1>3, <2>1, <2>2 DEF DeleteTail, BatchInv
  <2>4. \A d \in Docs : d # Doc => stored'[d] = stored[d]
    BY <1>3, <2>1 DEF DeleteTail
  <2>5. version # NoVersion
    BY <2>1, ChunksAssumption
  <2> QED
    BY <2>3, <2>4, <2>5 DEF StoredInv
<1> QED
  BY <1>1, <1>2, <1>3

LEMMA StoredInit == Init => StoredInv
  BY DEF Init, StoreInit, StoredInv, SuccessMeansStored, DocumentSteps

LEMMA StoredStep == IndInv /\ StoredInv /\ [Next]_vars => StoredInv'
<1> SUFFICES ASSUME IndInv, StoredInv, [Next]_vars PROVE StoredInv'
  OBVIOUS
<1>0. TypeOK /\ WorkInv /\ CollectionInv /\ BatchInv
  BY DEF IndInv
<1>1. ASSUME StartRun PROVE StoredInv'
  BY <1>1 DEF StartRun, StoredInv, SuccessMeansStored, DocumentSteps, storeVars, Nothing
<1>2. ASSUME Recreate PROVE StoredInv'
  BY <1>2, <1>0
  DEF Recreate, DeleteCollection, runVars, StoredInv, SuccessMeansStored, DocumentSteps,
      Nothing, WorkInv
<1>3. ASSUME EnsureCollection PROVE StoredInv'
  BY <1>3, <1>0
  DEF EnsureCollection, CreateCollection, End, reportVars, storeVars, runVars, workVars, StoredInv,
      SuccessMeansStored, DocumentSteps, Nothing, WorkInv
<1>4. ASSUME IndexCollection PROVE StoredInv'
  BY <1>4, <1>0
  DEF IndexCollection, CreateIndexes, runVars, workVars, StoredInv, SuccessMeansStored, DocumentSteps,
      Nothing, WorkInv
<1>5. ASSUME SetupFails PROVE StoredInv'
  <2>1. pc' = "off" /\ exit' = "aborted"
    BY <1>5 DEF SetupFails, End
  <2>2. stored' = stored \/ DeleteCollection
    BY <1>5 DEF SetupFails, CreateCollection, CreateIndexes, storeVars
  <2>3. \A d \in Docs : stored'[d] = Nothing \/ stored'[d][0] # NoVersion
    BY <2>2 DEF DeleteCollection, StoredInv
  <2> QED
    BY <2>1, <2>3, FailedRun
<1>6. ASSUME NEW t \in Titles, FetchFails(t) \/ FetchEmpty(t) PROVE StoredInv'
  <2>1. pc' = "fetch" /\ failures' # {} /\ exit' = exit /\ stored' = stored /\ pc = "fetch"
    BY <1>6 DEF FetchFails, FetchEmpty, Fail, NextTitle, storeVars
  <2>2. exit' # "success"
    BY <1>0, <2>1 DEF WorkInv
  <2> QED
    BY <2>1, <2>2, FailedRun DEF StoredInv
<1>7. ASSUME NEW t \in Titles, FetchDuplicate(t) PROVE StoredInv'
  <2>1. /\ pc = "fetch" /\ pc' = "fetch" /\ todo' = todo \ {t} /\ Resolves[t] \in seen
        /\ UNCHANGED <<stored, collection, seen, failures, opts, exit>>
    BY <1>7 DEF FetchDuplicate, NextTitle, storeVars
  <2>2. SuccessMeansStored'
    BY <1>0, <2>1 DEF WorkInv, SuccessMeansStored
  <2> QED
    BY <2>1, <2>2 DEF StoredInv, DocumentSteps, Nothing
<1>8. ASSUME NEW t \in Titles, NEW v \in Versions, Fetch(t, v) PROVE StoredInv'
  <2>1. /\ pc = "fetch" /\ todo' = todo \ {t} /\ seen' = seen \union {Resolves[t]}
        /\ UNCHANGED <<stored, collection, failures, opts, exit>>
        /\ pc' \in {"fetch", "compare", "embed"}
        /\ opts.dry \/ (pc' \in DocumentSteps /\ reference' = t)
    BY <1>8 DEF Fetch, NextTitle, storeVars, reportVars, DocumentSteps
  <2>2. SuccessMeansStored'
    BY <1>0, <2>1 DEF WorkInv, SuccessMeansStored
  <2>3. opts.dry \/ Doc' = Resolves[t]
    BY <2>1 DEF Doc
  <2> QED
    BY <2>1, <2>2, <2>3 DEF StoredInv, DocumentSteps, Nothing
<1>9. ASSUME NEW f \in Versions \union {NoVersion}, Compare(f) PROVE StoredInv'
  <2>1. /\ pc = "compare" /\ f \in Fingerprints(Doc)
        /\ UNCHANGED <<stored, collection, seen, todo, failures, opts, exit>>
        /\ \/ f = version /\ pc' = "fetch"
           \/ pc' = "embed" /\ reference' = reference
    BY <1>9 DEF Compare, NextTitle, storeVars, workVars
  <2>2. Doc \in Docs /\ version \in Versions /\ NoVersion \notin Versions /\ exit # "success"
    BY <1>0, <2>1, TitlesAssumption, ChunksAssumption DEF WorkInv, TypeOK, DocumentSteps, Doc
  <2>3. f = version => stored[Doc] # Nothing
    BY <2>1, <2>2 DEF Fingerprints
  <2>4. f = version => stored[Doc][0] # NoVersion
    BY <2>2, <2>3 DEF StoredInv
  <2> QED
    BY <2>1, <2>2, <2>4, SameDocuments DEF DocumentSteps
<1>10. ASSUME Embed PROVE StoredInv'
  <2>1. /\ pc = "embed" /\ pc' = "upsert" /\ reference' = reference
        /\ UNCHANGED <<stored, seen, todo, failures, opts, exit>>
    BY <1>10 DEF Embed, storeVars, runVars, workVars, reportVars
  <2>2. exit # "success"
    BY <1>0, <2>1 DEF WorkInv
  <2> QED
    BY <2>1, <2>2, SameDocuments DEF DocumentSteps
<1>11. ASSUME EmbedFails PROVE StoredInv'
  <2>1. pc = "embed" /\ pc' = "fetch" /\ failures' # {} /\ exit' = exit /\ stored' = stored
    BY <1>11 DEF EmbedFails, Fail, NextTitle, storeVars
  <2>2. exit' # "success"
    BY <1>0, <2>1 DEF WorkInv
  <2> QED
    BY <2>1, <2>2, FailedRun DEF StoredInv
<1>12. ASSUME EmbedFailsFatally \/ StoreFails PROVE StoredInv'
  <2>1. /\ pc \in DocumentSteps /\ pc' = "count" /\ failures' # {} /\ exit' = exit
        /\ opts' = opts /\ collection' = collection
        /\ \/ stored' = stored
           \/ pc = "upsert" /\ UpsertBatch(Doc, version, start)
           \/ pc = "delete" /\ DeleteTail(Doc, version)
    BY <1>12
    DEF EmbedFailsFatally, StoreFails, Abort, storeVars, DocumentSteps, UpsertBatch, DeleteTail
  <2>2. exit' # "success" /\ collection = opts.dimension
    BY <1>0, <2>1 DEF WorkInv, CollectionInv, DocumentSteps
  <2>3. \A d \in Docs : stored'[d] = Nothing \/ stored'[d][0] # NoVersion
    BY <1>0, <2>1, FirstChunkStays
  <2> QED
    BY <2>1, <2>2, <2>3, FailedRun
<1>13. ASSUME Upsert PROVE StoredInv'
  <2>1. /\ pc = "upsert" /\ UpsertBatch(Doc, version, start) /\ pc' \in {"upsert", "delete"}
        /\ reference' = reference /\ UNCHANGED <<seen, todo, failures, opts, exit>>
    BY <1>13 DEF Upsert, reportVars
  <2>2. /\ \A d \in Docs : stored'[d] = Nothing \/ stored'[d][0] # NoVersion
        /\ \A d \in Docs : d # Doc => stored'[d] = stored[d]
    BY <1>0, <2>1, FirstChunkStays
  <2>3. exit # "success" /\ seen \subseteq Docs
    BY <1>0, <2>1 DEF WorkInv, TypeOK
  <2>4. Doc' = Doc /\ SuccessMeansStored'
    BY <2>1, <2>3 DEF Doc, SuccessMeansStored
  <2> QED
    BY <2>1, <2>2, <2>3, <2>4 DEF StoredInv, DocumentSteps, Nothing
<1>14. ASSUME Delete PROVE StoredInv'
  <2>1. /\ pc = "delete" /\ DeleteTail(Doc, version) /\ pc' = "fetch"
        /\ UNCHANGED <<seen, todo, failures, opts, exit>>
    BY <1>14 DEF Delete, NextTitle
  <2>2. /\ \A d \in Docs : stored'[d] = Nothing \/ stored'[d][0] # NoVersion
        /\ \A d \in Docs : d # Doc => stored'[d] = stored[d]
    BY <1>0, <2>1, FirstChunkStays
  <2>3. exit # "success" /\ seen \subseteq Docs /\ Doc \in Docs /\ version \in Versions
    BY <1>0, <2>1, TitlesAssumption DEF WorkInv, TypeOK, DocumentSteps, Doc
  <2>4. stored'[Doc][0] # NoVersion
    <3>1. CASE stored' # stored
      BY <1>0, <2>1, <3>1, FirstChunkStays
    <3>2. CASE stored' = stored
      <4>1. ChunkCount[version] \in Nat \ {0} /\ 0 \in Indexes /\ NoVersion \notin Versions
        BY <2>3, ChunksAssumption DEF Indexes
      <4>2. stored[Doc][0] = version
        BY <1>0, <2>1, <4>1 DEF BatchInv
      <4> QED
        BY <2>3, <3>2, <4>1, <4>2
    <3> QED
      BY <3>1, <3>2
  <2>5. SuccessMeansStored'
    BY <2>1, <2>3 DEF SuccessMeansStored
  <2> QED
    BY <2>1, <2>2, <2>3, <2>4, <2>5 DEF StoredInv, DocumentSteps, Nothing
<1>15. ASSUME FinishDocuments \/ Count PROVE StoredInv'
  <2>1. /\ pc \in {"fetch", "count"} /\ todo = {}
        /\ UNCHANGED <<stored, collection, opts, failures>>
        /\ \/ opts.dry /\ pc' = "off"
           \/ ~opts.dry /\ pc' = "off" /\ pc = "count" /\ exit' = ExitCode
           \/ ~opts.dry /\ pc' = "count" /\ pc = "fetch" /\ UNCHANGED <<seen, todo, exit>>
    BY <1>15, <1>0
    DEF FinishDocuments, Count, End, storeVars, runVars, reportVars, WorkInv
  <2>2. exit # "success"
    BY <1>0, <2>1 DEF WorkInv
  <2>3. CASE opts.dry /\ pc' = "off"
    BY <2>1, <2>3 DEF StoredInv, SuccessMeansStored, DocumentSteps, Nothing
  <2>4. CASE ~opts.dry /\ pc' = "off" /\ pc = "count" /\ exit' = ExitCode
    <3>1. exit' = "success" => failures = {}
      BY <2>4 DEF ExitCode
    <3>2. SuccessMeansStored'
      BY <2>1, <2>4, <3>1 DEF StoredInv, SuccessMeansStored, DocumentSteps
    <3> QED
      BY <2>1, <2>4, <3>2 DEF StoredInv, DocumentSteps, Nothing
  <2>5. CASE ~opts.dry /\ pc' = "count" /\ pc = "fetch" /\ UNCHANGED <<seen, todo, exit>>
    <3>1. collection = opts.dimension
      BY <1>0, <2>5 DEF CollectionInv
    <3> QED
      BY <2>1, <2>2, <2>5, <3>1 DEF StoredInv, SuccessMeansStored, DocumentSteps, Nothing
  <2> QED
    BY <2>1, <2>3, <2>4, <2>5
<1>16. ASSUME Crash PROVE StoredInv'
  BY <1>16, FailedRun DEF Crash, End, storeVars, StoredInv
<1>17. CASE UNCHANGED vars
  BY <1>17
  DEF vars, storeVars, runVars, workVars, reportVars, StoredInv, SuccessMeansStored, Nothing, Doc
<1> QED
  BY <1>1, <1>2, <1>3, <1>4, <1>5, <1>6, <1>7, <1>8, <1>9, <1>10, <1>11, <1>12, <1>13,
     <1>14, <1>15, <1>16, <1>17 DEF Next, Progress

(* Exit code 0 means that the documents of all titles can be found in a    *)
(* collection of the right size.                                           *)
THEOREM SuccessIsStored == Spec => []SuccessMeansStored
<1>1. Init => StoredInv
  BY StoredInit
<1>2. IndInv /\ StoredInv /\ [Next]_vars => StoredInv'
  BY StoredStep
<1>3. StoredInv => SuccessMeansStored
  BY DEF StoredInv
<1> QED
  BY <1>1, <1>2, <1>3, Inductive, PTL DEF Spec

(***************************************************************************)
(* The runs implement the abstract index                                   *)
(***************************************************************************)
LEMMA TornInit == Init => TornInv
  BY DEF Init, TornInv

(* A write begins by tearing its document, and only its end mends it.      *)
LEMMA TornStep == IndInv /\ TornInv /\ [Next]_vars => TornInv'
<1> SUFFICES ASSUME IndInv, TornInv, [Next]_vars PROVE TornInv'
  OBVIOUS
<1>1. ASSUME Upsert PROVE TornInv'
  <2>1. Doc \in torn' /\ reference' = reference
    BY <1>1 DEF Upsert
  <2> QED
    BY <2>1 DEF TornInv, Doc
<1>2. ASSUME pc' \notin {"upsert", "delete"} PROVE TornInv'
  BY <1>2 DEF TornInv
<1>3. ASSUME Embed PROVE TornInv'
  BY <1>3 DEF Embed, runVars, workVars, IndInv, BatchInv, TornInv
<1>4. StartRun \/ Recreate \/ EnsureCollection \/ IndexCollection \/ SetupFails
        => pc' \notin {"upsert", "delete"}
  BY DEF StartRun, Recreate, EnsureCollection, IndexCollection, SetupFails, End
<1>5. ASSUME NEW t \in Titles,
             \/ FetchFails(t) \/ FetchDuplicate(t) \/ FetchEmpty(t)
             \/ \E v \in Versions : Fetch(t, v)
      PROVE  pc' \notin {"upsert", "delete"}
  BY <1>5 DEF FetchFails, FetchDuplicate, FetchEmpty, Fetch, Fail, NextTitle
<1>6. ASSUME NEW f \in Versions \union {NoVersion}, Compare(f)
      PROVE  pc' \notin {"upsert", "delete"}
  BY <1>6 DEF Compare, NextTitle
<1>7. EmbedFails \/ EmbedFailsFatally \/ Delete \/ StoreFails
        => pc' \notin {"upsert", "delete"}
  BY DEF EmbedFails, EmbedFailsFatally, Delete, StoreFails, Fail, Abort, NextTitle
<1>8. ASSUME FinishDocuments \/ Count \/ Crash PROVE pc' \notin {"upsert", "delete"}
  BY <1>8 DEF FinishDocuments, Count, Crash, End
<1>9. CASE UNCHANGED vars
  BY <1>9 DEF vars, runVars, workVars, TornInv, Doc
<1> QED
  BY <1>1, <1>2, <1>3, <1>4, <1>5, <1>6, <1>7, <1>8, <1>9 DEF Next, Progress

(* What a reader finds of one document after a request that wrote to it.   *)
LEMMA UpsertOverwrites ==
  ASSUME IndInv, TornInv, pc = "upsert", UpsertBatch(Doc, version, start),
         torn' = torn \union {Doc}
  PROVE  Index!Overwrite(Doc, version)
<1>1. /\ Doc \in Docs /\ version \in Versions /\ start \in Nat
      /\ stored \in [Docs -> [Indexes -> Versions \union {NoVersion}]]
      /\ start < ChunkCount[version]
  BY TitlesAssumption DEF IndInv, TypeOK, StoreTypeOK, WorkInv, BatchInv, DocumentSteps, Doc
<1>2. ChunkCount[version] \in Nat \ {0} /\ BatchSize \in Nat \ {0} /\ NoVersion \notin Versions
      /\ start \in Indexes
  BY <1>1, ChunksAssumption DEF Indexes
<1> DEFINE new == [i \in Indexes |->
                     IF i \in start..(start + BatchSize - 1) /\ i < ChunkCount[version]
                     THEN version ELSE stored[Doc][i]]
           S == {new[i] : i \in Indexes} \ {NoVersion}
<1>3. stored' = [stored EXCEPT ![Doc] = new] /\ collection' = collection
  BY <1>1 DEF UpsertBatch
<1>4. new[start] = version
  BY <1>1, <1>2
<1>5. version \in S
  BY <1>1, <1>2, <1>4
<1>6. \A i \in Indexes : new[i] = version \/ new[i] = stored[Doc][i]
  OBVIOUS
<1> HIDE DEF new
<1>7. S \in SUBSET (Found[Doc] \union {version})
  BY <1>1, <1>6 DEF Found
<1>8. stored'[Doc] = new /\ \A d \in Docs : d # Doc => stored'[d] = stored[d]
  BY <1>1, <1>3
<1>9. Found' = [Found EXCEPT ![Doc] = S]
  <2>1. {stored'[Doc][i] : i \in Indexes} \ {NoVersion} = S
    BY <1>8
  <2> HIDE DEF S
  <2>2. Found'[Doc] = S
    BY <1>1, <2>1 DEF Found
  <2>3. \A d \in Docs : d # Doc => Found'[d] = Found[d]
    BY <1>8 DEF Found
  <2>4. Found' = [d \in Docs |-> Found'[d]] /\ Found = [d \in Docs |-> Found[d]]
    BY DEF Found
  <2>5. [Found EXCEPT ![Doc] = S] = [d \in Docs |-> IF d = Doc THEN S ELSE Found[d]]
    BY <1>1, <2>4
  <2> QED
    BY <2>2, <2>3, <2>4, <2>5
<1>10. ASSUME NEW v \in Versions, new = Whole(v) PROVE S = {version}
  <2>1. v = version
    BY <1>1, <1>2, <1>4, <1>10 DEF Whole
  <2> QED
    BY <1>1, <1>2, <1>5, <1>10, <2>1 DEF Whole
<1>11. \A d \in Docs : d # Doc => (d \in Complete' <=> d \in Complete)
  BY <1>8 DEF Complete, Whole
<1>12. Doc \in Complete' => S = {version}
  BY <1>8, <1>10 DEF Complete, Whole
<1>13. \/ Complete' = Complete \ {Doc}
       \/ S = {version} /\ Complete' = Complete \union {Doc}
  <2>1. Complete \subseteq Docs /\ Complete' \subseteq Docs
    BY DEF Complete
  <2> HIDE DEF S
  <2> QED
    BY <1>1, <1>11, <1>12, <2>1
<1>14. Writing \subseteq {<<Doc, version>>}
  BY DEF Writing
<1>15. collection # NoDimension
  BY ChunksAssumption, OptionsAssumption
  DEF IndInv, TypeOK, CollectionInv, WorkInv, DocumentSteps
<1> HIDE DEF S
<1> QED
  BY <1>3, <1>5, <1>7, <1>9, <1>13, <1>14, <1>15 DEF Index!Overwrite

(* The delete leaves the document whole, whether its answer arrives or not.*)
LEMMA DeleteCompletes ==
  ASSUME IndInv, pc = "delete", DeleteTail(Doc, version)
  PROVE  /\ Doc \in Docs /\ version \in Versions
         /\ Found' = [Found EXCEPT ![Doc] = {version}]
         /\ Complete' = Complete \union {Doc}
         /\ version \in Found[Doc]
<1>1. /\ Doc \in Docs /\ version \in Versions
      /\ stored' = [stored EXCEPT ![Doc] = Whole(version)]
      /\ stored \in [Docs -> [Indexes -> Versions \union {NoVersion}]]
  BY DeleteLeavesWhole DEF IndInv, TypeOK, StoreTypeOK
<1>2. stored'[Doc] = Whole(version) /\ \A d \in Docs : d # Doc => stored'[d] = stored[d]
  BY <1>1
<1>3. ChunkCount[version] \in Nat \ {0} /\ NoVersion \notin Versions /\ 0 \in Indexes
  BY <1>1, ChunksAssumption DEF Indexes
<1>4. Whole(version)[0] = version
  BY <1>3 DEF Whole
<1>5. {Whole(version)[i] : i \in Indexes} \ {NoVersion} = {version}
  <2>1. \A i \in Indexes : Whole(version)[i] \in {version, NoVersion}
    BY DEF Whole
  <2> QED
    BY <1>1, <1>3, <1>4, <2>1
<1>6. Found' = [Found EXCEPT ![Doc] = {version}]
  <2>1. Found'[Doc] = {version}
    BY <1>1, <1>2, <1>5 DEF Found
  <2>2. \A d \in Docs : d # Doc => Found'[d] = Found[d]
    BY <1>2 DEF Found
  <2>3. Found' = [d \in Docs |-> Found'[d]] /\ Found = [d \in Docs |-> Found[d]]
    BY DEF Found
  <2>4. [Found EXCEPT ![Doc] = {version}]
          = [d \in Docs |-> IF d = Doc THEN {version} ELSE Found[d]]
    BY <1>1, <2>3
  <2> QED
    BY <2>1, <2>2, <2>3, <2>4
<1>7. Complete' = Complete \union {Doc}
  <2>1. Doc \in Complete'
    BY <1>1, <1>2 DEF Complete, Whole
  <2>2. \A d \in Docs : d # Doc => (d \in Complete' <=> d \in Complete)
    BY <1>2 DEF Complete, Whole
  <2>3. Complete \subseteq Docs /\ Complete' \subseteq Docs
    BY DEF Complete
  <2> QED
    BY <1>1, <2>1, <2>2, <2>3
<1>8. stored[Doc][0] = version
  BY <1>3 DEF IndInv, BatchInv
<1>9. version \in Found[Doc]
  BY <1>1, <1>3, <1>8 DEF Found
<1> QED
  BY <1>1, <1>6, <1>7, <1>9

LEMMA IndexInitially == Init => Index!IndexInit
<1>1. Init => Found = [d \in Docs |-> {}]
  BY DEF Init, StoreInit, Nothing, Found
<1>2. Init => Complete = {}
  <2> SUFFICES ASSUME Init, NEW d \in Docs, NEW v \in Versions, stored[d] = Whole(v)
               PROVE  FALSE
    BY DEF Complete
  <2>1. 0 \in Indexes /\ 0 < ChunkCount[v] /\ NoVersion \notin Versions
    BY ChunksAssumption DEF Indexes
  <2> QED
    BY <2>1 DEF Init, StoreInit, Nothing, Whole
<1> QED
  BY <1>1, <1>2 DEF Init, StoreInit, Writing, Index!IndexInit

(* Every step of a run is a step of the index, or hidden from a reader.    *)
LEMMA IndexStep ==
  IndInv /\ TornInv /\ [Next]_vars => [Index!IndexNext]_(Index!indexVars)
<1> SUFFICES ASSUME IndInv, TornInv, [Next]_vars
             PROVE  Index!IndexNext \/ UNCHANGED Index!indexVars
  OBVIOUS
<1> DEFINE Same == stored' = stored /\ collection' = collection /\ torn' = torn
<1>1. ASSUME stored' = stored PROVE Found' = Found /\ Complete' = Complete
  BY <1>1 DEF Found, Complete, Whole
<1>2. ASSUME DeleteCollection, torn' = {}, pc = "recreate", pc' \notin {"upsert", "delete"}
      PROVE  Index!Drop
  <2>1. Found' = [d \in Docs |-> {}]
    BY <1>2 DEF DeleteCollection, Nothing, Found
  <2>2. Complete' = {}
    <3> SUFFICES ASSUME NEW d \in Docs, NEW v \in Versions, Nothing = Whole(v)
                 PROVE  FALSE
      BY <1>2 DEF DeleteCollection, Complete, Nothing, Whole
    <3>1. 0 \in Indexes /\ 0 < ChunkCount[v] /\ NoVersion \notin Versions
      BY ChunksAssumption DEF Indexes
    <3> QED
      BY <3>1 DEF Nothing, Whole
  <2>3. Writing = {} /\ Writing' = {}
    BY <1>2 DEF Writing
  <2> QED
    BY <1>2, <2>1, <2>2, <2>3 DEF DeleteCollection, Index!Drop
<1>3. ASSUME CreateCollection(opts.dimension), collection = NoDimension, torn' = torn,
             pc = "ensure", pc' \notin {"upsert", "delete"}
      PROVE  Index!IndexNext
  <2>1. opts.dimension \in Dimensions
    BY OptionsAssumption DEF IndInv, TypeOK
  <2>2. Writing = {} /\ Writing' = {}
    BY <1>3 DEF Writing
  <2>3. Index!Create(opts.dimension)
    BY <1>1, <1>3, <2>2 DEF CreateCollection, Index!Create
  <2> QED
    BY <2>1, <2>3 DEF Index!IndexNext
<1>4. ASSUME Same, pc' \notin {"upsert", "delete"}
      PROVE  Index!IndexNext
  <2>1. Writing' = {}
    BY <1>4 DEF Writing
  <2> QED
    BY <1>1, <1>4, <2>1 DEF Index!BreakOff, Index!IndexNext
<1>5. ASSUME Recreate PROVE Index!IndexNext
  BY <1>2, <1>5 DEF Recreate, Index!IndexNext
<1>6. ASSUME EnsureCollection PROVE Index!IndexNext
  BY <1>3, <1>4, <1>6 DEF EnsureCollection, End, storeVars
<1>7. ASSUME SetupFails PROVE Index!IndexNext
  <2>1. pc' = "off"
    BY <1>7 DEF SetupFails, End
  <2>2. CASE pc = "recreate" /\ DeleteCollection /\ torn' = {}
    BY <1>2, <2>1, <2>2 DEF Index!IndexNext
  <2>3. CASE /\ pc = "ensure" /\ collection = NoDimension
             /\ CreateCollection(opts.dimension) /\ UNCHANGED torn
    BY <1>3, <2>1, <2>3
  <2>4. CASE UNCHANGED <<storeVars, torn>> \/ (CreateIndexes /\ UNCHANGED torn)
    BY <1>4, <2>1, <2>4 DEF CreateIndexes, storeVars
  <2> QED
    BY <1>7, <2>2, <2>3, <2>4 DEF SetupFails
<1>8. ASSUME StartRun \/ IndexCollection PROVE Index!IndexNext
  BY <1>4, <1>8 DEF StartRun, IndexCollection, CreateIndexes, storeVars
<1>9. ASSUME NEW t \in Titles,
             \/ FetchFails(t) \/ FetchDuplicate(t) \/ FetchEmpty(t)
             \/ \E v \in Versions : Fetch(t, v)
      PROVE  Index!IndexNext
  BY <1>4, <1>9 DEF FetchFails, FetchDuplicate, FetchEmpty, Fetch, Fail, NextTitle, storeVars
<1>10. ASSUME NEW f \in Versions \union {NoVersion}, Compare(f) PROVE Index!IndexNext
  BY <1>4, <1>10 DEF Compare, NextTitle, storeVars
<1>11. ASSUME Embed PROVE Index!IndexNext
  <2>1. Writing' = {} /\ Same
    BY <1>11 DEF Embed, runVars, workVars, storeVars, IndInv, BatchInv, Writing
  <2> QED
    BY <1>1, <2>1 DEF Index!BreakOff, Index!IndexNext
<1>12. ASSUME EmbedFails \/ EmbedFailsFatally PROVE Index!IndexNext
  BY <1>4, <1>12 DEF EmbedFails, EmbedFailsFatally, Fail, Abort, NextTitle, storeVars
<1>13. ASSUME FinishDocuments \/ Count \/ Crash PROVE Index!IndexNext
  BY <1>4, <1>13 DEF FinishDocuments, Count, Crash, End, storeVars
<1>14. ASSUME pc \in {"upsert", "delete"} PROVE Doc \in Docs /\ version \in Versions
  BY <1>14, TitlesAssumption DEF IndInv, TypeOK, WorkInv, DocumentSteps, Doc
<1>15. ASSUME Upsert PROVE Index!IndexNext
  <2>1. Index!Overwrite(Doc, version)
    BY <1>15, UpsertOverwrites DEF Upsert
  <2>2. Doc' = Doc /\ version' = version
    BY <1>15 DEF Upsert, Doc
  <2>3. pc' = "delete" \/ (pc' = "upsert" /\ start' > 0)
    BY <1>15, ChunksAssumption DEF Upsert, IndInv, TypeOK
  <2>4. Writing' = {<<Doc, version>>}
    BY <2>2, <2>3 DEF Writing
  <2>5. Index!Write(Doc, version)
    BY <2>1, <2>4 DEF Index!Write
  <2> QED
    BY <1>14, <1>15, <2>5 DEF Upsert, Index!IndexNext
<1>16. ASSUME Delete PROVE Index!IndexNext
  <2>1. pc = "delete" /\ DeleteTail(Doc, version) /\ torn' = torn \ {Doc} /\ pc' = "fetch"
    BY <1>16 DEF Delete, NextTitle
  <2>2. Writing = {<<Doc, version>>} /\ Writing' = {} /\ collection' = collection
    BY <2>1 DEF Writing, DeleteTail
  <2>3. Index!Finish(Doc, version)
    BY <2>1, <2>2, DeleteCompletes DEF Index!Finish
  <2> QED
    BY <1>14, <2>1, <2>3 DEF Index!IndexNext
<1>17. ASSUME StoreFails PROVE Index!IndexNext
  <2>1. pc' = "count" /\ Writing' = {}
    BY <1>17 DEF StoreFails, Abort, Writing
  <2>2. CASE UNCHANGED <<storeVars, torn>>
    BY <1>4, <2>1, <2>2 DEF storeVars
  <2>3. CASE pc = "upsert" /\ UpsertBatch(Doc, version, start) /\ torn' = torn \union {Doc}
    <3>1. Index!Overwrite(Doc, version)
      BY <2>3, UpsertOverwrites
    <3> QED
      BY <1>14, <2>1, <2>3, <3>1 DEF Index!BreakOff, Index!IndexNext
  <2>4. CASE pc = "delete" /\ DeleteTail(Doc, version) /\ UNCHANGED torn
    <3>1. Index!Overwrite(Doc, version)
      <4>1. Writing \subseteq {<<Doc, version>>} /\ torn' = torn \union {Doc}
            /\ collection' = collection
        BY <2>4 DEF Writing, TornInv, DeleteTail
      <4>2. collection # NoDimension
        BY <2>4, ChunksAssumption, OptionsAssumption
        DEF IndInv, TypeOK, CollectionInv, WorkInv, DocumentSteps
      <4>3. {version} \in SUBSET (Found[Doc] \union {version}) /\ version \in {version}
        OBVIOUS
      <4> QED
        BY <2>4, <4>1, <4>2, <4>3, DeleteCompletes DEF Index!Overwrite
    <3> QED
      BY <1>14, <2>1, <2>4, <3>1 DEF Index!BreakOff, Index!IndexNext
  <2> QED
    BY <1>17, <2>2, <2>3, <2>4 DEF StoreFails
<1>18. CASE UNCHANGED vars
  <2>1. Found' = Found /\ Complete' = Complete
    BY <1>1, <1>18 DEF vars, storeVars
  <2>2. Writing' = Writing
    BY <1>18 DEF vars, runVars, workVars, Writing, Doc
  <2> QED
    BY <1>18, <2>1, <2>2 DEF vars, storeVars, Index!indexVars
<1> QED
  BY <1>5, <1>6, <1>7, <1>8, <1>9, <1>10, <1>11, <1>12, <1>13, <1>15, <1>16, <1>17, <1>18
  DEF Next, Progress

(* Runs of the CLI, failing anywhere, keep the promises of the index.      *)
THEOREM Refinement == Spec => ImplementsIndex
<1>1. Init => TornInv
  BY TornInit
<1>2. IndInv /\ TornInv /\ [Next]_vars => TornInv'
  BY TornStep
<1>3. Init => Index!IndexInit
  BY IndexInitially
<1>4. IndInv /\ TornInv /\ [Next]_vars => [Index!IndexNext]_(Index!indexVars)
  BY IndexStep
<1> QED
  BY <1>1, <1>2, <1>3, <1>4, Inductive, PTL DEF Spec, ImplementsIndex, Index!IndexSpec
=============================================================================
