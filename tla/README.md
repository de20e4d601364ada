# A TLA+ model of LLM Cost & Context Lab

This directory specifies LLM Cost & Context Lab: chat turns that answer questions
from a knowledge base with an LLM, a credit balance that pays for them, the
ingestion that builds the knowledge base, and the page that shows it all. The
modules are written from the source (paths below are relative to `src/`),
model-checked with TLC, and every safety and action property that the runs check
is proved with TLAPS for all values of the constants.

- [Inventory](#inventory) · [Modules](#modules) · [Runs](#runs) ·
  [Bounds](#bounds) · [Fairness](#fairness) · [Proofs](#proofs) ·
  [Where code and documentation disagree](#where-code-and-documentation-disagree) ·
  [Not modelled](#not-modelled) · [Plan](#plan)

## Inventory

| Component | State it keeps | Operations | What is hard about it |
|---|---|---|---|
| Chat turn: `app/graph`, `services/chat_service.py` | one `ChatState` per request, a database session with its connection | eight graph nodes, four routes, `reply` | turns run in parallel threads; every node can fail; errors leave through different handlers |
| Credit accounting: `services/usage_service.py`, `services/metering.py` | `users.credits_used`, `usage_records` | check, record, read back, summary, `ensure_user` | check and deduction are far apart; commit may fail, or succeed unnoticed; two-query reads |
| Pricing and credits: `services/pricing.py`, `services/credits.py`, `core/money.py`, `db/types.py` | none (a catalogue) | `calculate`, `credits_for_cost`, `estimate_prompt_tokens` | rounding three times on the way from tokens to credits; a charge must not exceed the check |
| LLM provider: `services/llm` | a lazily created client | `generate` | timeouts, errors, answers without text or usage, model names without a price |
| Retrieval: `knowledge/retriever.py`, `knowledge/openai_embeddings.py`, `knowledge/qdrant_store.py` | the cached collection dimension | `search`, `embed` | cache against a collection the CLI may recreate; embedding batches in order |
| Vector store, write side: `knowledge/qdrant_store.py` | the Qdrant collection | `ensure_collection`, `upsert_document`, `recreate`, fingerprints | several calls make one update; a stop between two of them |
| Ingestion: `ingestion/pipeline.py`, `ingestion/ingest.py` | report, set of seen documents | `run`, `_ingest_one` | fatal and per-document errors, duplicates, skipping unchanged documents after a partial run |
| Wikipedia source: `ingestion/sources/wikipedia.py` | time of the last request | `fetch` with backoff | retries, `Retry-After`, minimum interval |
| Chunking, cleaning: `ingestion/chunking.py`, `ingestion/cleaning.py` | none | `split_text`, `clean_text` | boundaries: overlap, over-long words, nested excluded sections |
| Prompt and sources: `app/rag` | none | `build*`, `group_by_document` | stable order and best score per document |
| Startup: `main.py`, `backend/migrations` | schema, revision, the user row | `_startup`, migrations, `ensure_user` | processes starting at once, migrations that die half way, restarts |
| Frontend: `frontend/src` | messages, pending flag, last usage summary | mount, send, refresh | refresh after success only, answers lost or out of order |

How they interact: a `POST /chat` runs in a worker thread with a session of its
own. The graph calls the meter (balance reads and the ledger write) and the
retriever and the LLM in between. All turns act as one development user, so they
meet at one balance row, and at the connection pool of the one engine. `GET
/usage` reads what the turns commit. The ingestion CLI is a process of its own
that shares only the Qdrant collection with the backend.

What makes them correct:

- **Balance and ledger.** One ledger row and one deduction of the same amount,
  in one transaction, at most once a turn; nothing else moves the balance. A
  reply with an LLM answer implies the row, a rejection implies none.
- **The overdraft.** The documentation grants that concurrent turns can push the
  balance "slightly negative" (`docs/architecture.md:198`). How far must be
  bounded, and it is.
- **No silent loss.** A priced answer whose charge could not be written has a
  log event to reconcile by.
- **Order.** Replies may overtake each other after their balances were read, but
  the balances that clients are told add up; a summary asked for after an answer
  includes it.
- **Progress.** A turn ends, though it waits for a connection and for the row; a
  run of the ingestion CLI ends, whatever fails.
- **The index.** What ingestion reports is what is stored: a document in exactly
  one version, never missing while it is replaced, every requested title
  accounted for.
- **Searches.** Whatever the CLI does to the collection meanwhile, a search ends,
  and its error says what happened; a restart cures a remembered size.
- **The text.** Exactly the excluded sections are left out, no chunk is too long,
  nothing of the text is lost or altered, and each vector belongs to its chunk.
- **Wikipedia.** The request rate is bounded, `Retry-After` is waited for, and a
  fetch takes bounded time.
- **Starting.** Nobody serves over half a schema, a start fails only for a reason
  outside of it, and no restart changes the balance.
- **The page.** It never stays pending, and its figures go back only in the one
  race the code leaves open.
- **Arithmetic.** The check is on the safe side of the charge, and credits follow
  dollars through every rounding.

## Modules

**`CreditAccount`** is the abstract account: `used`, `ledger`, and a verdict per
turn (open, served, declined, broken). `Charge` moves balance and ledger
together; `Serve` needs a charge; `Decline` needs that there is none; `Break` and
`ChargeAndBreak` are the two ways a turn can be cut short. It says nothing of
nodes, threads, connections or transactions.

**`ChatTurn`** is the detailed module. One action per graph node, under the
node's name in the code:

| Action | Code |
|---|---|
| `StartTurn` | `ChatService.reply` up to the stream |
| `AnalyzeQuestion` | `analyze_question`, `route_after_analysis` |
| `PrecheckCredits`, `CheckCredits` | `_credit_check`, `UsageMeter.ensure_can_afford`, `UsageService.ensure_can_afford`, the routes after them |
| `RetrieveKnowledge`, `NoKnowledge`, `BuildContext` | the nodes; retrieval is its three outcomes: something relevant, nothing relevant, an error |
| `GenerateAnswer` | `OpenAIProvider.generate`: an error, an answer under a priced model name, one under an unpriced name |
| `UsageAccounting` | `UsageMeter.record` up to the flushed `UPDATE` |
| `CommitUsage` | `db.commit()` of `record_usage` |
| `ReadBack` | `get_remaining_credits` after the commit |
| `Respond` | the end of the graph and `_to_response`: the reply with the balance that was read before |
| `DatabaseFails` | a `SQLAlchemyError` in any of the queries, in the commit, or in the wait for a connection |
| `CommitUnacknowledged` | the commit took effect, its answer was lost |
| `Crash` | the process dies: running turns are lost, open transactions roll back |

A node that makes several database calls is split exactly where another turn can
run in between and notice: `usage_accounting` into update, commit, read-back. The
reply is a step of its own too: the balance in it was read by `ReadBack` or
`NoKnowledge` (`ReadBalance`), and until `Respond` hands it out other turns commit,
read and reply. The credit checks make one query and are one step.

State: `at` is the node; `ask`, `prompt` the two worst-case estimates in credits;
`llm`, `charge` what the provider reported; `newUsed` the value of
`credits_used` the uncommitted `UPDATE` produced; `reply` what the client got,
`shown` the balance read for it (`credits_remaining` of the graph's state); `recLog`
the turns with a `usage_record_failed` event; `used`,
`ledger` the committed database. `earlier` is not in the code: it remembers which
turns' clients had been told a balance when a turn was sent.

Two shared resources are modelled as they are used:

- *The pool.* A session takes its connection at its first query
  (`precheck_credits`) and gives it back at the commit, and takes one again for
  the read-back, which it holds until the session is closed with the reply.
  `FreeConnection` guards both. The pool is SQLAlchemy's default
  queue of 5 with 10 overflow; `PoolSize` is their sum. Requests to `/usage` use
  the pool too but only make turns wait longer, so they are not counted.
- *The row.* On PostgreSQL a second `UPDATE` of a row waits for the first
  transaction; on SQLite the write lock of the database does the same.
  `RowUnlocked` says so. Plain reads never wait and see what is committed (READ
  COMMITTED; the SQLite driver opens no transaction for a SELECT).

**`UsageSummary`** extends `ChatTurn` with requests for `GET /usage`:
`UsageService.get_summary` makes two queries (`ReadUser`, `ReadLedger`) between
which turns may commit. **`UsagePage`** extends it with the chat page
(`ChatPage.tsx`): `Mount` and `Refresh` are the two requests a page can have on
their way at once, `Send`, `ReplyArrives`, `SendFails` follow `handleSend`,
`ShowSummary` and `KeepLast` are the two ends of `refreshUsage`. A reply may be
lost while its turn goes on in the backend (`SendFails` at any moment), so turns
of one page may overlap after all. `raced` is not in the code: it remembers that
the last refresh overlapped with the mount's request.

**`Metering`** is the arithmetic: half-even rounding to the quantum
(`Quantize`), cost of the two directions, credits, the token estimate, and a
small machine that meters call after call.

**`VectorStore`** is the Qdrant collection: its vector size, whether its payload
indexes exist, and for each document and chunk index the *version* whose chunk is
stored. A version stands for everything the fingerprint is computed from: text,
chunking settings, embedding model. The operators are the effects of the single
requests `QdrantVectorStore` makes.

**`Ingestion`** extends it with runs of the CLI, any number one after the other.
One action per request that touches the collection, and per outcome of a fetch
or an embedding:

| Action | Code |
|---|---|
| `StartRun` | `main` up to the first request, with `--dry-run`, `--force`, `--recreate` and the embedding dimension of this run |
| `Recreate`, `EnsureCollection`, `IndexCollection` | `recreate`, `ensure_collection`; the three index requests are one step |
| `FetchFails`, `FetchDuplicate`, `FetchEmpty`, `Fetch` | `_ingest_one` up to the chunks |
| `Compare` | `get_document_fingerprint`, which reads one point and does not say which |
| `Embed`, `EmbedFails`, `EmbedFailsFatally` | `embed`: done, an error of this document, one of `FATAL_ERRORS` |
| `Upsert`, `Delete` | `upsert_document`: one batch, and the delete of the tail |
| `StoreFails`, `SetupFails` | a request fails, before or after it took effect, inside the loop (abort, with the rest "not attempted") or outside (`main` reports) |
| `FinishDocuments`, `Count` | the end of `run`, `count`, the exit code |
| `Crash` | the process dies, or an exception nobody handles ends it |

`pc` is the next request, `reference`, `version`, `start` the document in work,
`seen` and the counters those of `run` and `IngestionReport` (those that are only
printed are left out). `torn` is not in the code: the documents whose last write
did not come to its end. The collection is changed by one CLI at a time.

**`DocumentIndex`** is what the index promises to a reader, without titles, requests
and batches: for each document the versions that chunks are `found` of, the
documents that are `complete`, the one that is being written, and those that a write
left `unfinished`. `Ingestion` implements it (`ImplementsIndex`): `Found` and
`Complete` are read off the stored chunks, `Writing` off `pc`, `unfinished` is `torn`.
It shows what the single invariants do not: no third version turns up while a document
is replaced, and what was found of it is not lost, even when the request that fails
is one whose effect the CLI never hears of.

**`KnowledgeBase`** extends `Ingestion` with the backend that searches while the
CLI works: `BeginSearch`, `EmbedQuery`, then the requests of
`QdrantVectorStore.search` one by one (`FindCollection` and `GetCollection` only
while no size is remembered, `CheckDimension`, `QueryPoints`), each of which may
fail (`RequestFails`), and `RestartBackend`. `cachedSize` is `_dimension`, shared
by all searches because `get_vector_store` is cached. `met` and `changed` are not
in the code: what a search met while it ran, and whether a collection of another
size was there since the backend started.

**`WikipediaSource`** has `fetch` with its attempts against `clock`
(`time.monotonic`): `SendRequest` sleeps for the rest of the minimum interval,
`BackOff` for `Retry-After` or the exponential delay, up to the cap; a request
takes up to `Timeout`, a sleep up to `Late` longer than asked. Two corners of the
code are kept as they are: a `Retry-After` of 0 counts as none, and a negative one
makes `time.sleep` raise a `ValueError`, which `fetch` reports as invalid JSON.

**`Startup`** has backend processes that start, serve, fail and die over one
database (`_startup`): the migration object by object, its revision, then
`ensure_user` as a read and an insert. `transactional` tells PostgreSQL, where a
migration is a transaction others wait for, from SQLite, where every DDL statement
takes effect at once. `undisturbed` is not in the code: the start in question had
no other start beside it, no failure, and found no half-done migration, nor a
database without the schema while it was not to migrate.

**`Cleaning`** is `TextCleaner.clean_text` line by line: `skipBelow` is
`skip_below`, `kept` the lines that stay. **`Chunking`** is
`TextChunker.split_text`: `SplitParagraph`, `SplitSentence`, `FlushBeforeCut`,
`CutWord`, `AddWord` and `EndSentence` make the pieces (`_pieces`, `_split_long`,
`_split_words`), `PackPiece` and `EndPacking` the chunks. A word is its place in
the text, a piece two places, and `at` where the piece would be if all pieces were
joined, so the length of any join is a difference. **`Embedding`** is
`OpenAIEmbeddingProvider.embed`: batches, answered in any order. **`TextPipeline`**
composes the three as `_ingest_one` does; `CleanedText` hands the words of the
kept lines to the chunker. The four share no state with `Ingestion`, which needs
only how many chunks a version has.

**`MC*`** are the instances TLC checks, **`*_proofs`** hold the theorems.
Definitions whose comment begins with "Mutant:" are variants of a definition after
them with a plausible bug; nothing in the specifications uses them, they are there
to see that each property notices.

## Runs

| Run | What it shows |
|---|---|
| `chat_balance` | Three turns race with two connections. `LedgerMatchesBalance`: the balance is the sum of the ledger in every state. `OverdraftBounded`: see below. `ReplyMatchesLedger`: an answered turn has exactly its row, a declined turn none. `LostChargesAreLogged`. `ImplementsAccount`: the turns refine `CreditAccount`. `BalanceMovesWithLedger`: every step that moves the balance adds the one row of that amount. `ShownBalancesAddUp`: no client is told less than is left, and the balances told can be put in an order in which each has all turns up to it, and itself, deducted, and which no client can tell from the real one. (Balances handed out later *can* be higher: a reply may be overtaken after its balance was read.) `SpendsOnlyOnGroundedAnswers`. |
| `usage_page` | `SummaryCoversBalance`: a torn summary errs on one side only, since the user row is read first; the ledger half may count a turn more, never a turn less. `SummaryIncludesAnsweredTurns`: what was answered before the request is in both halves. `DisplayGoesBackOnRaceOnly`: the page's figures go back only when the mount's request and the refresh overlap. `EverySendSettles`: the input is enabled again. `EveryTurnEnds`: no deadlock between pool and row lock; it would be one if a transaction stayed open across the read-back, as the mutant of this property shows. Runs under three settings: retrieval off, an unpriced model, the LLM without knowledge. |
| `metering` | `ChargeWithinCheck`, `CreditsFollowCost` over every rounding case. |
| `ingestion` | Three titles of two articles, any number of runs. `FinishedDocumentsAreWhole`: a document whose last write ended is stored in one version. `NeverMissingMidUpdate`: chunks disappear only in the step that leaves their document whole. `CountedDocumentsAreCurrent`: what is counted as ingested is stored as fetched, and what is counted as unchanged too, unless its last write was cut short. `EveryTitleIsAccountedFor`, `SuccessMeansStored`: the report and exit code 0. `WritesFitTheCollection`: no vectors of two sizes. `ImplementsIndex`: the runs refine `DocumentIndex`. `EveryRunEnds`. |
| `search` | Two searches while the CLI recreates the collection, in two sizes. `ErrorsTellWhatHappened`: "not built" only if the collection was missing, "unavailable" only if a request failed or a collection of another size rejected the query, an answer only from a collection of the model's size. `RestartCuresStaleSizes`: a backend that has seen no collection of another size since it started never blames the configuration. `EverySearchEnds`. |
| `wikipedia` | `RateIsBounded`: the average since the first request; the space between two in a row is a guard of `SendRequest`. `RetriesWaitAsAsked`: a `Retry-After` in seconds, up to the cap. `FetchIsTimely`: a fetch is over after its attempts' time, if a request takes `Timeout` at most. Two fetches of four attempts, with `Retry-After` negative, 0, below and above the interval, above the cap, and missing. |
| `text` | Every article of up to four lines. `SkipsExcludedSectionsOnly`: the one-number memory agrees with the section tree. `ChunksFit`, `ChunksAdvance` (each chunk brings something new and repeats at most the overlap), `ChunksAreVerbatim` (no space is put into a word that was cut), `EveryCharacterIsInAChunk`, `VectorsInInputOrder`. |
| `startup` | `ServingMeansReady`, `UndisturbedStartsSucceed` (exempt are other starts, failures, a half-done migration, and a start without `DB_AUTO_MIGRATE` over a database without the schema), `RestartsKeepTheBalance` with three processes, both kinds of database, with and without `DB_AUTO_MIGRATE`. |
| `doc_*` | Four statements of the documentation that the code does not keep, see below. |

Deadlock is checked in every run but three: a page that has sent all its turns,
a source that has made its fetches and an article that is embedded are at rest.

The overdraft bound is `Total + Excess + (PoolSize - 1) * MaxCharge`. `Excess` is
by how much the reported usage can exceed the estimate of the very prompt: 0 when
the estimate of 3 characters a token holds (then `Metering` proves the charge is
within the check), more for "unusually tokenized input"
(`docs/architecture.md:202`). `TLC` finds states that attain the bound, so it
cannot be lowered.

## Bounds

`Turns`, `Total`, `PoolSize`, `Estimates`, `MaxCharge`, `Excess` and the error
codes are constants; the runs give them the smallest values at which the cases
differ. Three turns and two connections: one turn waits for the pool, one for
the row, one holds it. `Total = 3` with estimates 1 and 2 and charges up to 3:
enough for two turns to pass the check together and one to fail it, and for the
precheck to pass where the check on the full prompt does not. One error code
per source: the code tells errors apart by nothing but their code. A turn is one request; a client that asks again is
another turn. `Metering` bounds the prompt to `MaxChars` and the number of calls
to `MaxCalls`: prices 3 and 7 over a unit of 6 tokens and a rate of 3/4 produce
ties and both directions of rounding in each of the three roundings.

`ingestion` bounds neither the runs nor the failures, its states are finite by
themselves. An article has a version of three chunks and one of one, with two
points to an upsert request: a write of two batches, a tail to delete, and a
single point that already looks like the whole. Two titles lead to one article
(redirects), one to another. Two dimensions: a collection that fits and one that
does not.

`usage_page` has one page, two turns and one connection: two turns of one page
overlap when a reply is lost, and wait for each other. `search` has two searches
(one may set the remembered size under the other) and one article; two sizes of
collections, and a backend whose model has one of them. `wikipedia` has the
attempts and the cap of the code, two fetches (so that the pacing between fetches
counts), and an interval, timeout and lateness of 1 or 2. `text` has chunks of 5
characters with an overlap of 2, words of 1, 2, 7 and 12 (shorter than the
overlap, longer than a chunk, longer than two), headings of two levels, and
batches of two. `startup` has three processes: two that start at once and one that
serves, and two values of the initial credits. `MaxFetches` and `MaxUsed` are the
only bounds on what would otherwise go on for ever.

## Fairness

`Ingestion` has weak fairness on `Progress` as a whole: the CLI is one thread,
and each of its requests (Wikipedia, OpenAI, Qdrant) has a timeout and a bounded
number of retries. Nothing is assumed of starting runs, of failures or crashes.

`FairPageSpec` (and `FairSpec` for turns alone) gives each turn weak fairness on its
own next step (`Progress`): every call it makes returns or times out (LLM and
embeddings: SDK timeout with bounded retries; Qdrant: client timeout; the pool:
30 s), and the threads of the server's pool are scheduled. It assumes nothing of
failures: `DatabaseFails`, `CommitUnacknowledged` and `Crash` may happen at any
time or never. Weak fairness on the waits for connection and row needs no more
than that the turns are finitely many: each wait is passed over only finitely
often. Besides, a summary that was asked for is answered or fails, and what the
backend answered or broke off reaches the page (`fetch` settles); nobody need send.

`KBSpec` has weak fairness on the next step of each search: its requests have
timeouts. Nothing is assumed of the CLI, which may change the collection for ever.

## Proofs

`ChatTurn_proofs` proves for every set of turns, every pool size and every amount:

- `Inductive`: `Spec => []IndInv`;
- from it `TypeCorrect`, `Overdraft`, `RepliesAgree`, `NoSilentLoss`, `Grounded`;
- the action property `BalanceFollowsLedger`, and from it `BalanceIsTheSum`;
- `ShownBalances`: the balances clients are told add up, whatever the order of replies;
- `Refinement`: `Spec => ImplementsAccount`, step by step.

The assumptions are those of the module: amounts are natural numbers, the pool
is not empty, error codes of providers are none of the backend's own.

None of the safety properties is inductive by itself. `IndInv` joins them with
what the code relies on: at most `PoolSize` turns hold a connection (`PoolInv`);
where a turn is determines what it has done (`TurnInv`) and whether it has its
row (`RowInv`); the holder of the balance row works with the committed balance
(`LockInv`); a charge is within its prompt's estimate and `Excess` (`ChargeInv`);
no balance that was read is below what is left (`ShownInv`); nobody knows of a
balance that has not been told (`EarlierInv`).

`ShownBalances` rests on `BalancesInv`, `AddUp` of all turns that have *read* a
balance, told or not (`Informed`). The turn that reads can be put last: its balance is
`Total` less everything deducted, the others' rows included, and no other turn was
sent knowing it. Any set without it keeps the last it had, as the rows of turns that
have read their balance no longer change (`InformedRows`). The replies only tell what
was read, so they disturb nothing.

The overdraft needs `BudgetInv`, a disjunction. Call *spending* the turns past
the second check and before their deduction. Either all spending turns still fit
in the budget at the full `MaxCharge` each, or all but one witness do and the
witness fits at its own estimate. A turn that passes the check becomes the
witness: its estimate is covered by the balance, and the others hold a connection
each, so there are at most `PoolSize - 1`. A turn that is charged leaves the
budget as it was, whether it was the witness or not.

`Metering_proofs` proves `ChargeWithinCheck` and `CreditsFollowCost` for every
price, rate and bound. The lemmas are about `Quantize`: its result is within half
a quantum (`QuantizeNear`), and it keeps the order (`QuantizeMonotone`), where
the tie rule is the delicate case.

`Ingestion_proofs` proves for all documents, titles, versions, chunk counts,
batch sizes and options: `FinishedDocuments`, `ReportAddsUp`, `WritesFit`,
`NeverMissing`, `CountedAreCurrent` and `TypeCorrect`, from the inductive
invariant `IndInv`. `BatchInv` says what the batches so far have written, without
which the delete could not be seen to leave a whole document (`DeleteLeavesWhole`);
`WorkInv` keeps the title in work, those to do and those that failed apart, so
that an abort counts each once (`AbortFailures`); `CollectionInv` carries the
check of `ensure_collection` on to the writes. The assumptions: titles are
finitely many, every version has at least one chunk (a text that is not blank has
a piece), and a batch at least one point. That unchanged documents are current
rests on `FingerprintTells`: any point of a whole document tells its version.

`Refinement`, `Spec => ImplementsIndex`, has one lemma for the step that is hard to
place: a batch (`UpsertOverwrites`) puts the new version beside what is there, and
completes the document or leaves it mixed; the delete (`DeleteCompletes`) finishes it.
`TornInv`, which the steps preserve beside `IndInv`, says that the document of a
write in progress is already among the torn ones, so that wherever the write is
broken off the index knows it is unfinished.
`IndexStep` then takes the actions one by one; a request that fails after its effect
is a `BreakOff` of the index with an `Overwrite` in it.

`SuccessIsStored` (exit code 0 means stored) needs `StoredInv`: while a document is
written its first point stays, and every title taken so far is stored unless it is
among the failures.

`KnowledgeBase_proofs` extends them: searches only read, so an invariant of
`Ingestion` holds beside them too (`IngestionUndisturbed`); `SearchErrors` and
`RestartCures` follow from `KBInv`, whose point is that `met` holds how the
collection looks now for every search under way, and that a remembered size other
than the model's was seen since the start.

`WikipediaSource_proofs` proves `Etiquette`, `RetryAfterHonoured` and
`FetchEndsInTime` for every interval, cap, timeout, number of attempts and numeric header.
`TimeInv` gives each attempt its share of time. `Startup_proofs` proves
`ServersAreReady`, `BalanceSurvives` and `UndisturbedSucceed` for any number of processes;
what carries the first two is that the revision is stamped only over the whole schema, on either kind of
database.

`UndisturbedSucceed` needs `UndisturbedInv`: a start that nothing has disturbed so
far is the only one, so the objects that are there are those it made itself, and
the user is missing until it inserts it.

`ChatTurn_proofs` also has `BalanceIsTheSum`. `CreditsOf` counts quanta, the pairs
of a row and a number up to its credits, so that a sum over rows is the cardinality
of a set: one more row adds a disjoint set of pairs (`CreditsOfOneMore`), and no recursion is
needed. `UsagePage_proofs` begins with `PageRunsTurns`: every step of `PageSpec` is
a step of `Spec` or leaves the turns alone, so `IndInv` and `LedgerInv` hold beside
any number of pages. `PageInv` then says what a request has read (`SummaryInv`: an
account that only grows, so what was read first is covered by what is read
afterwards), and which request a page in each phase is waiting for. `DisplayAdvances`
needs that a page which has not raced shows nothing newer than what its refresh has
read, or nothing at all while the mount's request is on its way (`DisplayInv`).

`TextPipeline_proofs` follows the text. *Cleaning*, for articles of any length and any
nesting: the pass agrees with the section tree (`CleanedAsTheSectionsSay`). The
invariant `SkipInv` says that `skip_below` is the level of the *outermost* excluded
section that is open, and every other open one is below it. *Chunking*, for every
text, size and overlap: chunks fit, advance, are verbatim (`ChunksOfEveryText`,
`ChunksGoForward`, `ChunksQuoteTheText`) and lose nothing (`ChunksCoverTheText`).
`PieceInv` says that two pieces are as far apart in the join as in the text, or too
far apart for one chunk: parts of a cut word are `ChunkSize` long, so no join can hold
two of them. `CoverInv` says of every character that it is still to be split or in a
piece, and of every piece that it is still to be packed or in a chunk. *Embedding*, for
every number of texts, batch size and order of the answers: `VectorsInOrder`. An
increasing map of `1 .. n` into itself is the identity (`IncreasingIsIdentity`, by a least
and a last counterexample), so sorting the indexes of a whole batch puts each item in
its text's place.

The composition is proved too. `PipelineInductive` joins the invariants of the three
components; what it adds is `CleanedTextIsWellFormed`: the words of the lines that
are kept follow each other as `split_text` expects, and the first of them begins a
paragraph even when headings and blank lines before it were dropped. `CleanedText` is
built by functions that refer to their own values (`FlattenSeq`, `Begins`); that such
a function exists, and what it returns, is proved by a least counterexample
(`FlattenIs`, `BeginsIs`). `PipelineKeepsTheText` states all six properties of the `text`
run for `PipeSpec`.

The inductive invariants are formulas of the modules themselves (`IndInv`, `PageInv`,
`CoverInv`, `BatchInv`, `UndisturbedInv`, ...), so that TLC can be pointed at them.

Model-checked only: liveness (`EveryTurnEnds`, `EveryRunEnds`, `EverySearchEnds`,
`EverySendSettles`), since the prover has no rules for fairness and ENABLED. Of
`search` and `usage_page` TLC sees only the settings of their configurations with
several turns, while the theorems hold for all settings.

## Where code and documentation disagree

1. `doc_one_row`. An LLM request can succeed without a ledger row:
   `UsageMeter.record` prices the model name the provider reports
   (`services/metering.py:60`) before its `try`, so a name without a price raises
   with no row and not even the reconciliation event.
   (`db/models.py:28`: "One row per successful LLM request".)
2. `doc_reconcile_log`. `usage_record_failed` (`services/metering.py:80`, "log
   enough to reconcile the ledger manually") is also logged when only the
   read-back after the commit failed (`services/usage_service.py:84`) or the
   acknowledgement was lost; the row is there, and reconciling adds a second.
3. `doc_stale_chunks`. `ingestion/README.md:48`: "Stale trailing chunks are
   deleted." `upsert_document` writes the new fingerprint with the points and
   deletes the old tail in a later request (`knowledge/qdrant_store.py:112`). A
   run that stops in between leaves the tail of a document that shrank, and the
   next run finds the new fingerprint and skips the document as unchanged. Only
   `--force`, `--recreate` or another change of the text repairs it. A
   document of more than one batch is left incomplete the same way.
4. `doc_dimension`. `docs/architecture.md:327` maps a mismatch of collection and
   model to `vector_store_misconfigured`. The backend remembers the collection's
   size (`knowledge/qdrant_store.py:144`); after a `--recreate` with another model
   the remembered size passes the check, Qdrant rejects the query, and the client
   is told `vector_store_unavailable`. The other way round, an operator who
   follows the hint of the error ("re-ingest with --recreate",
   `knowledge/qdrant_store.py:158`) sees the same error until the backend is
   restarted; `RestartCuresStaleSizes` says that a restart is enough.

Smaller ones, seen while modelling and not stated as runs: a database error ends a
turn without a `chat_graph_end` event (`services/chat_service.py:50`,
`README.md:91`); with retrieval on, chat is not "unaffected" by a missing Qdrant
(`graph/nodes.py:87`, `README.md:161`); backoff "honours `Retry-After`"
(`ingestion/README.md:40`) as a number only, up to 60 s, and within one title only: a
`Retry-After` that is a date counts as none (`ingestion/sources/wikipedia.py:104`);
after the last attempt the next title is fetched after the minimum interval, whatever the server
asked for, and a negative `Retry-After` is reported as invalid JSON
(`ingestion/sources/wikipedia.py:75`); on SQLite a first start that dies inside the
migration leaves tables without a revision, and no later start succeeds until they
are removed by hand (`Startup`: `HalfMigrated`).

## Not modelled

Deleting the user row (no operation does), exceptions nobody expects (they become
a 500 like an `AppError` without its log events), `UserNotFoundError`, retries
inside the SDKs and the HTTP transport (part of a call), decimals of more than 28
digits, the 40 threads of the server's pool (they delay turns before `StartTurn`),
more than one backend process serving turns (the overdraft bound then holds with
the sum of the pools; the balance properties do not depend on it), more than one
CLI at a time. `Timeout` of a Wikipedia request is the length of a whole request;
httpx bounds each operation on the connection, so a body that trickles in for ever is
not modelled. A turn that failed keeps its connection for the moment until its
session is closed; the model returns it with the reply, which admits more
interleavings and not fewer.

Of the components, what is left out and why:

- the BIGINT width of amounts on SQLite (`db/types.py:33`): an amount that does not
  fit is an error of the driver, which `ChatTurn` has as `DatabaseFails`;
- the lookup of dated model names and `group_by_document`: pure functions of one
  expression without state, which unit tests reach;
- which SDK error becomes which error code: a table, and no property depends on it;
- scores and contents of hits, the relevance threshold: `RetrieveKnowledge` has its
  two outcomes;
- regular expressions of cleaning and chunking: the model begins with what they find;
- configuration, schemas, logging, request ids, prompts, rendering and deployment
  files: no state of their own.

## Plan

Done, in this order: `CreditAccount`, `ChatTurn`, `UsageSummary`, `Metering`;
`VectorStore`, `DocumentIndex`, `Ingestion`; `UsagePage`; `WikipediaSource`; `Startup`; `Cleaning`,
`Chunking`, `Embedding`, `TextPipeline`; `KnowledgeBase`; each with its proofs
where the prover reaches. Worth adding when the code changes:

1. a stronger index, in which a document that is counted as unchanged is complete,
   once stale chunks of a write that was cut short are dealt with;
2. a second CLI beside the first (`recreate` against `recreate`);
3. a guarded `UPDATE` or a reserve-then-settle hold (`docs/architecture.md:198`):
   `ChatTurn` with another `UsageAccounting`, and an overdraft bound of `Total`.
