------------------------ MODULE KnowledgeBase_proofs ------------------------
(***************************************************************************)
(* For any number of searches and whatever the ingestion does: errors tell *)
(* what happened, and a restart cures a stale size.                        *)
(***************************************************************************)
EXTENDS KnowledgeBase, Ingestion_proofs

(* How a collection looks is one of three.                                 *)
LEMMA Looks ==
  ASSUME NEW size, NEW wanted
  PROVE  /\ Look(size, wanted) \in {"none", "same", "other"}
         /\ Look(size, wanted) = "none" <=> size = NoDimension
         /\ wanted # NoDimension => (Look(size, wanted) = "same" <=> size = wanted)
  BY DEF Look

LEMMA Sizes == NoDimension \notin Dimensions /\ ModelSizes \subseteq Dimensions
  BY ChunksAssumption, ModelSizesAssumption

(* A search that goes on with its own state unchanged but for its place.   *)
LEMMA GoesInv ==
  ASSUME KBInv, NEW s \in Searches, NEW to, Goes(s, to),
         search[s] \in Requests,
         to \in Requests \union Outcomes,
         cachedSize' = cachedSize \/ cachedSize' = collection,
         cachedSize' \in Dimensions \union {NoDimension},
         cachedSize' = NoDimension => cachedSize = NoDimension,
         to = "compare" => cachedSize' # NoDimension,
         to = "not_ready" => collection = NoDimension,
         to = "unavailable" => Look(collection, modelSize) = "other",
         to = "answered" => collection = modelSize,
         to = "misconfigured" => cachedSize \notin {NoDimension, modelSize}
  PROVE  KBInv'
<1>1. /\ search' = [search EXCEPT ![s] = to] /\ modelSize' = modelSize /\ met' = met
      /\ changed' = changed /\ collection' = collection
  BY DEF Goes, vars, storeVars
<1>2. /\ KBTypeOK /\ search \in [Searches -> {"idle"} \union Requests \union Outcomes]
      /\ met \in [Searches -> SUBSET {"none", "same", "other", "failure"}]
      /\ modelSize \in ModelSizes /\ modelSize # NoDimension
  BY Sizes DEF KBInv, KBTypeOK
<1>3. KBTypeOK'
  BY <1>1, <1>2 DEF KBTypeOK
<1>4. Look(collection, modelSize)' = Look(collection, modelSize)
  BY <1>1 DEF Look
<1>5. Look(collection, modelSize) \in met[s]
  BY DEF KBInv
<1>6. Look(collection, modelSize)' = "other" \/ cachedSize' \notin {NoDimension, modelSize'} => changed'
  <2>1. collection \notin {NoDimension, modelSize} => Look(collection, modelSize) = "other"
    BY DEF Look
  <2> QED
    BY <1>1, <1>4, <2>1 DEF KBInv
<1>7. ASSUME NEW u \in Searches
      PROVE  /\ search'[u] \in Requests => Look(collection, modelSize)' \in met'[u]
             /\ search'[u] = "compare" => cachedSize' # NoDimension
             /\ search'[u] = "not_ready" => "none" \in met'[u]
             /\ search'[u] = "unavailable" => met'[u] \intersect {"failure", "other"} # {}
             /\ search'[u] = "answered" => "same" \in met'[u]
             /\ search'[u] = "misconfigured" => changed'
  <2>1. CASE u = s
    <3>1. search'[u] = to /\ met'[u] = met[s]
      BY <1>1, <1>2, <2>1
    <3>2. to = "answered" => Look(collection, modelSize) = "same"
      BY <1>2, Looks
    <3>3. to = "not_ready" => Look(collection, modelSize) = "none"
      BY Looks
    <3>4. to = "misconfigured" => changed
      BY DEF KBInv
    <3> QED
      BY <1>1, <1>4, <1>5, <3>1, <3>2, <3>3, <3>4
  <2>2. CASE u # s
    <3>1. search'[u] = search[u] /\ met'[u] = met[u]
      BY <1>1, <1>2, <2>2
    <3> QED
      BY <1>1, <1>4, <3>1
      DEF KBInv, ErrorsTellWhatHappened, RestartCuresStaleSizes, Ended
  <2> QED
    BY <2>1, <2>2
<1>8. ErrorsTellWhatHappened' /\ RestartCuresStaleSizes'
  BY <1>7 DEF ErrorsTellWhatHappened, RestartCuresStaleSizes, Ended
<1> QED
  BY <1>3, <1>6, <1>7, <1>8 DEF KBInv

LEMMA SearchStepInv ==
  ASSUME TypeOK, KBInv, NEW s \in Searches, SearchStep(s)
  PROVE  KBInv'
<1>1. /\ modelSize \in ModelSizes /\ modelSize # NoDimension
      /\ cachedSize \in Dimensions \union {NoDimension}
  BY Sizes DEF KBInv, KBTypeOK
<1>2. CASE EmbedQuery(s)
  <2>1. search[s] = "embed" /\ cachedSize' = cachedSize
    BY <1>2 DEF EmbedQuery
  <2>2. CASE Goes(s, IF cachedSize = NoDimension THEN "exists" ELSE "compare")
    <3>1. CASE cachedSize = NoDimension
      BY <1>1, <2>1, <2>2, <3>1, GoesInv DEF Requests, Outcomes
    <3>2. CASE cachedSize # NoDimension
      BY <1>1, <2>1, <2>2, <3>2, GoesInv DEF Requests, Outcomes
    <3> QED
      BY <3>1, <3>2
  <2>3. CASE Goes(s, "no_embedding")
    BY <1>1, <2>1, <2>3, GoesInv DEF Requests, Outcomes
  <2> QED
    BY <1>2, <2>2, <2>3 DEF EmbedQuery
<1>3. CASE FindCollection(s)
  <2>1. search[s] = "exists" /\ cachedSize' = cachedSize
    BY <1>3 DEF FindCollection
  <2>2. CASE collection = NoDimension
    <3>1. Goes(s, "not_ready")
      BY <1>3, <2>2 DEF FindCollection
    <3> QED
      BY <1>1, <2>1, <2>2, <3>1, GoesInv DEF Requests, Outcomes
  <2>3. CASE collection # NoDimension
    <3>1. Goes(s, "get")
      BY <1>3, <2>3 DEF FindCollection
    <3> QED
      BY <1>1, <2>1, <3>1, GoesInv DEF Requests, Outcomes
  <2> QED
    BY <2>2, <2>3
<1>4. CASE CheckDimension(s)
  <2>1. search[s] = "compare" /\ cachedSize' = cachedSize /\ cachedSize # NoDimension
    BY <1>4 DEF CheckDimension, KBInv
  <2>2. CASE cachedSize = modelSize
    <3>1. Goes(s, "query")
      BY <1>4, <2>2 DEF CheckDimension
    <3> QED
      BY <1>1, <2>1, <3>1, GoesInv DEF Requests, Outcomes
  <2>3. CASE cachedSize # modelSize
    <3>1. Goes(s, "misconfigured")
      BY <1>4, <2>3 DEF CheckDimension
    <3> QED
      BY <1>1, <2>1, <2>3, <3>1, GoesInv DEF Requests, Outcomes
  <2> QED
    BY <2>2, <2>3
<1>5. CASE QueryPoints(s)
  <2>1. search[s] = "query" /\ cachedSize' = cachedSize
    BY <1>5 DEF QueryPoints
  <2>2. CASE collection = NoDimension
    <3>1. Goes(s, "not_ready")
      BY <1>5, <2>2 DEF QueryPoints
    <3> QED
      BY <1>1, <2>1, <2>2, <3>1, GoesInv DEF Requests, Outcomes
  <2>3. CASE collection # NoDimension /\ collection = modelSize
    <3>1. Goes(s, "answered")
      BY <1>5, <2>3 DEF QueryPoints
    <3> QED
      BY <1>1, <2>1, <2>3, <3>1, GoesInv DEF Requests, Outcomes
  <2>4. CASE collection # NoDimension /\ collection # modelSize
    <3>1. Goes(s, "unavailable") /\ Look(collection, modelSize) = "other"
      BY <1>5, <2>4 DEF QueryPoints, Look
    <3> QED
      BY <1>1, <2>1, <3>1, GoesInv DEF Requests, Outcomes
  <2> QED
    BY <2>2, <2>3, <2>4
<1>6. CASE GetCollection(s)
  <2>1. search[s] = "get" /\ collection \in Dimensions \union {NoDimension}
    BY <1>6 DEF GetCollection, TypeOK, StoreTypeOK
  <2>2. CASE collection = NoDimension
    <3>1. Goes(s, "not_ready") /\ cachedSize' = cachedSize
      BY <1>6, <2>2 DEF GetCollection
    <3> QED
      BY <1>1, <2>1, <2>2, <3>1, GoesInv DEF Requests, Outcomes
  <2>3. CASE collection # NoDimension
    <3>1. Goes(s, "compare") /\ cachedSize' = collection
      BY <1>6, <2>3 DEF GetCollection
    <3> QED
      BY <1>1, <2>1, <2>3, <3>1, GoesInv DEF Requests, Outcomes
  <2> QED
    BY <2>2, <2>3
<1>7. CASE RequestFails(s)
  <2>1. /\ search' = [search EXCEPT ![s] = "unavailable"]
        /\ met' = [met EXCEPT ![s] = met[s] \union {"failure"}]
        /\ modelSize' = modelSize /\ cachedSize' = cachedSize /\ changed' = changed
        /\ collection' = collection
    BY <1>7 DEF RequestFails, vars, storeVars
  <2>2. /\ search \in [Searches -> {"idle"} \union Requests \union Outcomes]
        /\ met \in [Searches -> SUBSET {"none", "same", "other", "failure"}]
    BY DEF KBInv, KBTypeOK
  <2>3. KBTypeOK'
    <3>1. search' \in [Searches -> {"idle"} \union Requests \union Outcomes]
      BY <2>1, <2>2 DEF Outcomes
    <3>2. met' \in [Searches -> SUBSET {"none", "same", "other", "failure"}]
      BY <2>1, <2>2
    <3> QED
      BY <2>1, <3>1, <3>2 DEF KBInv, KBTypeOK
  <2>4. Look(collection, modelSize)' = Look(collection, modelSize)
    BY <2>1 DEF Look
  <2>5. ASSUME NEW u \in Searches
        PROVE  /\ search'[u] \in Requests => Look(collection, modelSize)' \in met'[u]
               /\ search'[u] = "compare" => cachedSize' # NoDimension
               /\ search'[u] = "not_ready" => "none" \in met'[u]
               /\ search'[u] = "unavailable" => met'[u] \intersect {"failure", "other"} # {}
               /\ search'[u] = "answered" => "same" \in met'[u]
               /\ search'[u] = "misconfigured" => changed'
    <3>1. CASE u = s
      BY <2>1, <2>2, <3>1 DEF Requests
    <3>2. CASE u # s
      <4>1. search'[u] = search[u] /\ met'[u] = met[u]
        BY <2>1, <2>2, <3>2
      <4> QED
        BY <2>1, <2>4, <4>1
        DEF KBInv, ErrorsTellWhatHappened, RestartCuresStaleSizes, Ended
    <3> QED
      BY <3>1, <3>2
  <2>6. ErrorsTellWhatHappened' /\ RestartCuresStaleSizes'
    BY <2>5 DEF ErrorsTellWhatHappened, RestartCuresStaleSizes, Ended
  <2> QED
    BY <2>1, <2>3, <2>4, <2>5, <2>6 DEF KBInv
<1> QED
  BY <1>2, <1>3, <1>4, <1>5, <1>6, <1>7 DEF SearchStep

(* A search begins by meeting the collection as it is.                     *)
LEMMA BeginSearchInv ==
  ASSUME KBInv, NEW s \in Searches, BeginSearch(s)
  PROVE  KBInv'
<1>1. /\ search' = [search EXCEPT ![s] = "embed"]
      /\ met' = [met EXCEPT ![s] = {Look(collection, modelSize)}]
      /\ modelSize' = modelSize /\ cachedSize' = cachedSize /\ changed' = changed
      /\ collection' = collection
  BY DEF BeginSearch, vars, storeVars
<1>2. /\ search \in [Searches -> {"idle"} \union Requests \union Outcomes]
      /\ met \in [Searches -> SUBSET {"none", "same", "other", "failure"}]
  BY DEF KBInv, KBTypeOK
<1>3. KBTypeOK'
  <2>1. search' \in [Searches -> {"idle"} \union Requests \union Outcomes]
    BY <1>1, <1>2 DEF Requests
  <2>2. met' \in [Searches -> SUBSET {"none", "same", "other", "failure"}]
    BY <1>1, <1>2, Looks
  <2> QED
    BY <1>1, <2>1, <2>2 DEF KBInv, KBTypeOK
<1>4. Look(collection, modelSize)' = Look(collection, modelSize)
  BY <1>1 DEF Look
<1>5. ASSUME NEW u \in Searches
      PROVE  /\ search'[u] \in Requests => Look(collection, modelSize)' \in met'[u]
             /\ search'[u] = "compare" => cachedSize' # NoDimension
             /\ search'[u] = "not_ready" => "none" \in met'[u]
             /\ search'[u] = "unavailable" => met'[u] \intersect {"failure", "other"} # {}
             /\ search'[u] = "answered" => "same" \in met'[u]
             /\ search'[u] = "misconfigured" => changed'
  <2>1. CASE u = s
    BY <1>1, <1>2, <1>4, <2>1
  <2>2. CASE u # s
    <3>1. search'[u] = search[u] /\ met'[u] = met[u]
      BY <1>1, <1>2, <2>2
    <3> QED
      BY <1>1, <1>4, <3>1
      DEF KBInv, ErrorsTellWhatHappened, RestartCuresStaleSizes, Ended
  <2> QED
    BY <2>1, <2>2
<1>6. ErrorsTellWhatHappened' /\ RestartCuresStaleSizes'
  BY <1>5 DEF ErrorsTellWhatHappened, RestartCuresStaleSizes, Ended
<1> QED
  BY <1>1, <1>3, <1>4, <1>5, <1>6 DEF KBInv

LEMMA StartBackendInv == ASSUME RestartBackend PROVE KBInv'
<1>1. /\ modelSize' \in ModelSizes /\ cachedSize' = NoDimension
      /\ search' = [s \in Searches |-> "idle"]
      /\ met' = [s \in Searches |-> {}]
      /\ changed' = (Look(collection, modelSize') = "other")
      /\ collection' = collection
  BY DEF RestartBackend, StartBackend, vars, storeVars
<1>2. Look(collection, modelSize)' = Look(collection, modelSize') /\ changed' \in BOOLEAN
  BY <1>1 DEF Look
<1>3. KBTypeOK'
  BY <1>1, <1>2 DEF KBTypeOK
<1>4. ErrorsTellWhatHappened' /\ RestartCuresStaleSizes'
  BY <1>1 DEF ErrorsTellWhatHappened, RestartCuresStaleSizes, Ended
<1> QED
  BY <1>1, <1>2, <1>3, <1>4 DEF KBInv, Requests

LEMMA IngestInv ==
  ASSUME KBInv, Ingest
  PROVE  KBInv'
<1> DEFINE look == Look(collection, modelSize)'
<1>1. /\ met' = [s \in Searches |->
                   IF search[s] \in Requests THEN met[s] \union {look} ELSE met[s]]
      /\ changed' = (changed \/ look = "other")
      /\ modelSize' = modelSize /\ cachedSize' = cachedSize /\ search' = search
  BY DEF Ingest, Look
<1>2. look \in {"none", "same", "other"}
  BY DEF Look
<1> HIDE DEF look
<1>3. /\ met \in [Searches -> SUBSET {"none", "same", "other", "failure"}]
      /\ search \in [Searches -> {"idle"} \union Requests \union Outcomes]
      /\ changed \in BOOLEAN
  BY DEF KBInv, KBTypeOK
<1>4. KBTypeOK'
  <2>1. met' \in [Searches -> SUBSET {"none", "same", "other", "failure"}]
    BY <1>1, <1>2, <1>3
  <2>2. changed' \in BOOLEAN
    BY <1>1
  <2> QED
    BY <1>1, <2>1, <2>2 DEF KBInv, KBTypeOK
<1>5. changed => changed'
  BY <1>1
<1>6. ASSUME NEW u \in Searches
      PROVE  /\ search'[u] \in Requests => look \in met'[u]
             /\ search'[u] = "compare" => cachedSize' # NoDimension
             /\ search'[u] = "not_ready" => "none" \in met'[u]
             /\ search'[u] = "unavailable" => met'[u] \intersect {"failure", "other"} # {}
             /\ search'[u] = "answered" => "same" \in met'[u]
             /\ search'[u] = "misconfigured" => changed'
  <2>1. met[u] \subseteq met'[u] /\ (search[u] \in Requests => look \in met'[u])
    BY <1>1, <1>3
  <2> QED
    BY <1>1, <1>5, <2>1
    DEF KBInv, ErrorsTellWhatHappened, RestartCuresStaleSizes, Ended
<1>7. ErrorsTellWhatHappened' /\ RestartCuresStaleSizes'
  BY <1>6 DEF ErrorsTellWhatHappened, RestartCuresStaleSizes, Ended
<1>8. look = "other" \/ cachedSize' \notin {NoDimension, modelSize'} => changed'
  BY <1>1, <1>5 DEF KBInv
<1> QED
  BY <1>4, <1>6, <1>7, <1>8 DEF KBInv, look

(* Nothing happens.                                                        *)
LEMMA KBStutters == ASSUME KBInv, UNCHANGED kbVars PROVE KBInv'
<1>1. /\ collection' = collection /\ modelSize' = modelSize /\ cachedSize' = cachedSize
      /\ search' = search /\ met' = met /\ changed' = changed
  BY DEF kbVars, backendVars, vars, storeVars
<1> QED
  BY <1>1
  DEF KBInv, KBTypeOK, Look, ErrorsTellWhatHappened, RestartCuresStaleSizes, Ended

(* Searches leave the ingestion alone: what is proved of its runs holds    *)
(* with searches between their steps.                                      *)
LEMMA SearchesOnlyRead == KBNext => [Next]_vars
  BY DEF KBNext, RestartBackend, Ingest, BeginSearch, SearchStep, EmbedQuery, FindCollection,
         GetCollection, CheckDimension, QueryPoints, RequestFails, Goes, Next

THEOREM IngestionUndisturbed == KBSpec => [](TypeOK /\ FinishedDocumentsAreWhole)
<1>1. KBInit => IndInv
  BY TypeInit, WorkInit, CollectionInit, BatchInit, FinishedInit, AccountInit
  DEF KBInit, IndInv
<1>2. IndInv /\ [KBNext]_kbVars => IndInv'
  <2>1. [KBNext]_kbVars => [Next]_vars
    BY SearchesOnlyRead DEF kbVars
  <2> QED
    BY <2>1, TypeStep, WorkStep, CollectionStep, BatchStep, FinishedStep, AccountStep DEF IndInv
<1>3. IndInv => TypeOK /\ FinishedDocumentsAreWhole
  BY DEF IndInv
<1> QED
  BY <1>1, <1>2, <1>3, PTL DEF KBSpec

THEOREM KBInductive == KBSpec => []KBInv
<1>1. KBInit => KBInv
  <2> SUFFICES ASSUME KBInit PROVE KBInv
    OBVIOUS
  <2>1. /\ collection = NoDimension /\ modelSize \in ModelSizes /\ cachedSize = NoDimension
        /\ search = [s \in Searches |-> "idle"] /\ met = [s \in Searches |-> {}]
        /\ changed = FALSE
    BY DEF KBInit, Init, StoreInit
  <2>2. KBTypeOK
    BY <2>1 DEF KBTypeOK
  <2>3. Look(collection, modelSize) # "other"
    BY <2>1 DEF Look
  <2>4. ErrorsTellWhatHappened /\ RestartCuresStaleSizes
    BY <2>1 DEF ErrorsTellWhatHappened, RestartCuresStaleSizes, Ended
  <2> QED
    BY <2>1, <2>2, <2>3, <2>4 DEF KBInv, Requests
<1>2. TypeOK /\ KBInv /\ [KBNext]_kbVars => KBInv'
  <2> SUFFICES ASSUME TypeOK, KBInv, [KBNext]_kbVars PROVE KBInv'
    OBVIOUS
  <2>1. CASE RestartBackend
    BY <2>1, StartBackendInv
  <2>2. CASE Ingest
    BY <2>2, IngestInv
  <2>3. CASE \E s \in Searches : BeginSearch(s) \/ SearchStep(s)
    BY <2>3, BeginSearchInv, SearchStepInv
  <2>4. CASE UNCHANGED kbVars
    BY <2>4, KBStutters
  <2> QED
    BY <2>1, <2>2, <2>3, <2>4 DEF KBNext
<1> QED
  BY <1>1, <1>2, IngestionUndisturbed, PTL DEF KBSpec

(* The error of a search says what it met, for any number of searches.     *)
THEOREM SearchErrors == KBSpec => []ErrorsTellWhatHappened
<1>1. KBInv => ErrorsTellWhatHappened
  BY DEF KBInv
<1> QED
  BY <1>1, KBInductive, PTL

(* Only a collection of another size, seen since the backend started, lets *)
(* a search blame the configuration.                                       *)
THEOREM RestartCures == KBSpec => []RestartCuresStaleSizes
<1>1. KBInv => RestartCuresStaleSizes
  BY DEF KBInv
<1> QED
  BY <1>1, KBInductive, PTL
=============================================================================
