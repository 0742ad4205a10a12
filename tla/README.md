# Formal model of the paper ingestion and retrieval system

This directory holds TLA+ modules for the program in `src/` (package
`paper_curator`), the TLC configurations that check them on small instances and
TLAPS proofs about them. Paths below are relative to
`src/src/paper_curator/` unless they start with `src/`.

## 1. Inventory

### Components

| Component | Code | State it keeps | Operations |
|---|---|---|---|
| Retry bookkeeping | `db/models/pipeline.py`, `db/repositories/pipeline.py`, `db/enums.py` | a `document_processing_status` row per paper version, `dead_letters` | `get_or_create_status`, `needs_work`, `advance_stage`, `record_attempt_failure`, `record_dead_letter` |
| Processing of one paper | `ingestion/pipeline.py`, `db/repositories/papers.py`, `search/indexer.py` | `papers`, `document_texts`, `paper_chunks` (with `indexed_at`) in PostgreSQL, chunk documents in OpenSearch | `_process_paper`, `_process_content`, `_record_failure`, `save_document_text`, `replace_chunks`, `mark_chunks_indexed`, `index_documents` |
| Ingestion run and checkpoint | `ingestion/pipeline.py`, `db/repositories/pipeline.py` | `ingestion_runs`, `ingestion_checkpoints` | `run`, `run_incremental`, `run_backfill`, `start_run`, `finish_run`, `advance_checkpoint` |
| arXiv client | `ingestion/arxiv_client/` | last request time and lock of the rate limiter, offset of `iter_papers` | `fetch_page`, `iter_papers`, `retry_async`, `AsyncRateLimiter.acquire`, `parse_feed` |
| Versions of a paper | `db/repositories/papers.py` | `papers.is_latest`, `authors`, `paper_authors` | `upsert_paper`, `get_or_create_authors` |
| PDF extraction | `ingestion/extraction/` | jobs in the event loop's thread pool; whether Tesseract is installed | `download`, `extract_from_bytes`, `should_attempt_ocr`, `_run_ocr_fallback`, quality score |
| Chunking | `ingestion/chunking/` | loop variables of one call | `split_into_sections`, `_pack_section` with overlap, `_consolidate` |
| Index management | `search/index_manager.py` | indices and one alias in OpenSearch | `ensure_ready`, `create_index`, `switch_alias`, `delete_index` |
| Retrieval | `retrieval/fusion.py`, `hybrid.py`, `keyword.py`, `vector.py` | none between queries | keyword, vector and hybrid retriever, fusion, de-duplication, cap per paper |
| Reranking and context | `retrieval/reranking.py`, `retrieval/context.py` | the loaded model; loop variables of one call | `rerank` with its fallbacks, `build` with labels and citations |
| Embedding providers | `embedding/` | the loaded model | `embed_query`, `embed_documents` |
| Evaluation | `evaluation/`, `src/scripts/evaluate_retrieval.py` | none | `chunks_to_paper_ranking`, the metrics of a query |
| Configuration, logging, exceptions, scripts | `core/`, `src/scripts/` | none | declarations, printing |

`api/`, `generation/` and `observability/` are empty packages in this commit.

### How they interact

A script starts a process that calls `run_incremental` or `run_backfill`. The
run reads the checkpoint in its own transaction, opens an `ingestion_runs` row
in another, and iterates over `ArxivClient.iter_papers`, which asks the arXiv
API for pages of a query sorted by update time, oldest first. Each paper goes
through `_process_paper`: one transaction stores its metadata and a status row,
a second one stores text and chunk rows, writes the chunks to OpenSearch and
sets the stage, and a failure of either is recorded in a third. The run closes
in a `finally` block that, in one transaction, finishes the run's row and
advances the checkpoint. Processes share PostgreSQL (READ COMMITTED, the
default) and OpenSearch and nothing else: no lock keeps two runs apart.

Inside `_process_content` the PDF is downloaded (with the same `retry_async` as
the feed), extracted in threads of the event loop's pool, with OCR as a fallback
under a timeout, split into chunks, embedded and handed to the indexer, which
writes through an alias. A question takes the way back: one or two searches of
the alias side by side, fusion, re-ranking under a timeout, and a context of
passages within a token budget. The evaluation script runs labelled questions
through the same retriever and re-ranker and scores the papers they return.

### What is hard

* Two stores are written without a common transaction. The OpenSearch write
  happens inside a PostgreSQL transaction that can still roll back.
* Every decision is taken on rows read in an earlier statement or transaction:
  `needs_work`, the chunk rows that `replace_chunks` deletes, the counter that
  `record_attempt_failure` increments, the mark `advance_checkpoint` compares.
* A process can die, be cancelled or lose the database between any two
  statements. Only the status row and the checkpoint bring a paper back.
* The listing grows and is re-ordered (a revised paper moves to its end) while
  a run pages through it by offset. Entries share minutes, the query's
  resolution; entries that cannot be parsed vanish from a page.
* Tasks of one process share the rate limiter of the arXiv client and can be
  cancelled at any await, while they hold its lock or wait for it.
* Two transactions can store versions of one paper, or papers with the same new
  authors, and meet in two unique indexes, in row locks and in a deadlock.
* The operations on the alias are two to four requests each, and each decides on
  the alias it resolved in an earlier one.
* A thread cannot be cancelled: OCR that timed out keeps its place in the pool
  that the next document needs.
* Chunking is a chain of decisions at limits: what overlaps still has to fit,
  what is too small is merged, kept or dropped by what stands around it.
* A result is cut several times (near-duplicates, places per paper, `top_k`,
  re-ranking, budget), and each cut changes what the next one sees.

PROJECT.json lists these hazards one by one with the line where each bites and
the properties that cover it.

### What makes the components correct

* The two stores agree on what is marked as indexed; chunk rows of one paper
  never mix two passes; a settled paper is frozen.
* A paper is settled in the end, INDEXED or FAILED; FAILED comes with a dead
  letter; no more attempts are spent than the budget and the concurrency allow.
* The checkpoint never passes an entry the pipeline did not see; a backfill
  does not move it; every entry is seen in the end.
* A stored paper has exactly one latest version and all its authors; a version
  that is fetched again and again is stored in the end.
* Requests to arXiv keep their distance whoever shares the limiter, stop after
  their budget, and every call ends.
* The alias points to one existing index, unless a switch or a deletion acted on
  an alias that changed after it was resolved.
* Every document is answered, whatever threads earlier ones left behind; no text
  is kept when a better one was read; the OCR timeout measures OCR.
* A chunk fits the embedding model; overlap is the end of the chunk before;
  text is lost only to the cap, as noise or below four tokens.
* A chunk is passed over only for a better one, for its paper's cap or as a near
  duplicate; re-ranking loses nothing; citations name the sources of the
  passages; scores are comparable between questions.

## 2. Modules

| Module | Stands for |
|---|---|
| `ProcessingStatus` | One row of `document_processing_status` and the functions that read and write it, as operators. `PaperProcessing` and `IncrementalSync` extend it. |
| `PaperLifecycle` | Abstract specification: what a single run at a time promises about the fate of a paper. |
| `PaperProcessing` | `_process_paper` by concurrent runs, statement by statement, with PostgreSQL and OpenSearch. Refines `PaperLifecycle` for one run. |
| `IncrementalSync` | `run` with paging, checkpoint, limits and a changing listing; one paper is two steps. Refines `PaperLifecycle` for one process. |
| `PaperVersions` | `upsert_paper` and `get_or_create_authors` by concurrent transactions: which version is the latest, and who wrote it. |
| `Pacing` | Abstract specification: requests to a service keep their distance. |
| `RequestPacing` | `retry_async` and `AsyncRateLimiter` as the arXiv client and the PDF downloader use them. Refines `Pacing`. |
| `IndexAlias` | `ensure_ready`, `create_index`, `switch_alias`, `delete_index` by concurrent processes, request by request. |
| `TextQuality`, `Extraction` | The score of a text; `extract_from_bytes` for the documents of a run, with the thread pool and the OCR fallback. |
| `Sections`, `Chunking` | Headings and the filter on sections; `StructureAwareChunker.chunk` with its three loops. |
| `Fusion`, `Retrieval` | Fusing and shaping result lists; a question from its searches to the context with citations. Extends `Fusion`. |
| `Evaluation` | The scores of the papers that `Retrieval`, which it extends, hands over. |
| `Lists` | `Only` and `Sum`: a comprehension with a condition and Python's `sum`, as folds that proofs can open. |
| `PaperProcessingProofs`, `IncrementalSyncProofs`, `PaperVersionsProofs`, `IndexAliasProofs`, `ChunkingProofs`, `RetrievalProofs`, `EventLoopProofs` | Theorems of the modules they extend; `EventLoopProofs` of `RequestPacing` and `Extraction`. |
| `SequenceLemmas` | Induction and folds over sequences, used by four of them. |
| `MCPaperProcessing`, `MCIncrementalSync`, `MCPaperVersions`, `MCRequestPacing`, `MCIndexAlias`, `MCExtraction`, `MCChunking`, `MCRetrieval` | Instances for TLC. |

Two modules describe the pipeline at two grains because their questions are
separate: `PaperProcessing` asks what interleaved sessions do to the rows of
one paper and knows no listing; `IncrementalSync` asks which papers are ever
reached and treats each transaction of a paper as one step. They share the
status row (`ProcessingStatus`) and the abstract specification.

### ProcessingStatus

The pipeline stores only the stages PENDING, INDEXED and FAILED (the other
members of the enum are never assigned). `next_retry_at` becomes `retry`: no
time set, a time in the future, a time that passed. The two writers take the
row as the session loaded it (`seen`) and the row the UPDATE meets (`row`): the
ORM sends only the columns whose value changed, so a column that the session
left alone keeps what another session committed.

### PaperProcessing

| Code | Action |
|---|---|
| SELECTs of `upsert_paper` and `get_or_create_status` | `Fetch` |
| INSERT of a new paper and its commit; its unique violation | `InsertPaper`, `InsertConflict` |
| skip on `needs_work` false; go on otherwise | `SkipPaper`, `RetryPaper` |
| download, extraction, chunking, SELECTs of the second transaction | `Extract` |
| flushes of `save_document_text` and `replace_chunks` | `WriteRows` |
| `index_documents` | `IndexDocuments` |
| `mark_chunks_indexed`, SELECT of the status row | `LoadStatus` |
| `advance_stage` and the commit | `CommitContent` |
| `_record_failure` | `LetterWithoutPaper`, `LoadFailedStatus`, `RecordFailure`, `RecordingFails` |
| exceptions, process death, time | `MetadataFails`, `ContentFails`, `Crash`, `BackoffElapses` |

`rows`, `marked` and `docs` record, for each chunk number, which pass wrote the
chunk row, whether its `indexed_at` is set, and which pass OpenSearch holds; a
pass is one `WriteRows`. Chunk documents have ids that depend on the paper and
the chunk number only, so a later pass overwrites an earlier one. A flush takes
row locks: another session waits (`NoOtherHolder`) and then meets the unique
constraint or the committed rows. `WriteRows` deletes the rows the session
loaded in `Extract`, by id; rows committed since then survive it and collide.
In OpenSearch any subset of a bulk request may be applied and any subset of the
applied documents acknowledged: an answer can be lost, a refusal cannot have
been applied.

### IncrementalSync

| Code | Action |
|---|---|
| `run_incremental`: read the checkpoint | `ReadCheckpoint` |
| `start_run` | `StartRun` |
| `fetch_page` inside `iter_papers` | `FetchPage`, `ShortPage`, `FeedError` |
| `_process_paper`, first and second transaction | `StorePaper`, `SkipPaper`, `IndexPaper`, `FailPaper`, `FailMetadata`, `FailUnrecorded` |
| loop body of `run` after a paper | `Yield` (part of the five actions that end a paper) |
| `except` / cancellation / `finally` | `FeedError`, `Cancel`, `LoadCheckpoint`, `CloseRun` |
| arXiv (external) | `Publish`, `Revise` |
| process death, time | `Crash`, `BackoffElapses` |

A paper is its number in the listing's order. `UpdatedAt` counts minutes,
because `ArxivQuery` formats its bound to the minute; the checkpoint column
stores the full timestamp, but the only use of it is that bound. The offset of
the next page counts parsed papers (`len(self.papers)`), so pages overlap when
entries were dropped; a page without papers ends the iteration.
`displaced` and `unrecorded` are history variables: which entries a revision
moved between two pages of a run, and which failures `_record_failure` could not
store. No guard reads them.

Assumptions about arXiv: the answer is sorted by update time; a new entry
appears at the end; a revision removes the old entry and appears at the end; a
page may be short or empty without reason (counted as a fault).

### PaperVersions

| Code | Action |
|---|---|
| SELECT of the versions of a paper | `Upsert` |
| UPDATE that clears `is_latest`: its snapshot, then its rows | `Demote`, `Update` |
| no UPDATE for a first or an older version | `KeepFlags` |
| INSERT of the paper; its unique violation | `Insert`, `InsertConflict` |
| `INSERT ... ON CONFLICT DO NOTHING`, a row at a time | `AddAuthor`, `AuthorsAdded` |
| SELECT of the authors and INSERT of `paper_authors` | `Credit` |
| `session_scope`: commit, rollback, deadlock victim, process death | `Commit`, `DeadlockAbort`, `Crash` |

`PaperProcessing` knows a version of a paper as one element of `Papers` and
stores it in one step; this module opens that step, and leaves out everything
after it. PostgreSQL appears by what it does at READ COMMITTED: each statement
sees what is committed when it starts; an UPDATE waits for a transaction that
changed its row and then checks its condition again (`Update` drops the targets
that lost the flag); an INSERT waits for a transaction that may take or leave
its place in a unique index (`InsertBlockers`) and fails if the place is taken
(`Conflicts`). `Blockers` is the wait-for relation and `Deadlocked` its cycles.
`tx` is what `upsert_paper` has read and changed, `byline` the authors' part.
Author names are atoms with a normalised key (`KeyOf`); `AuthorKeys` drops empty
and repeated keys. A call that finds its exact version stored (SKIPPED) writes
nothing and is no step.

### RequestPacing

| Code | Action |
|---|---|
| `fetch_page`, `fetch_by_ids`, `download` are called | `Call` |
| `AsyncRateLimiter.acquire`: up to the first suspension | `Acquire`, `Enter` (inside `Call`, `Retry` and `GetLock`) |
| the lock is handed to the first waiter | `GetLock` |
| the sleep of the limiter ends | `WakeUp` |
| a request ends; `is_retryable`; last attempt or backoff | `Answer` |
| the backoff ends, the next attempt | `Retry` |
| the task is cancelled | `Cancel` |
| time | `Tick` |

Callers are tasks of one event loop, so a step is what runs between two
suspensions: reading `_last_call`, comparing and storing it is one step, unless
the limiter sleeps in between. The clock is kept as the time since the last
call, up to the interval, and as the rest of each sleep; both move with `Tick`,
and a task may wake up any time after its sleep is over. `quiet` is a history
variable, the time since a request was handed to the HTTP client; no guard
reads it, and it is what `Pacing` talks about. Jitter is a choice between 0 and
the backoff. Downloads have no limiter; they share `retry_async`.

### IndexAlias

| Code | Action |
|---|---|
| `ensure_ready`: `resolve_alias`, the branch on its answer | `Boot`, `ResolveToBoot`, `Branch` |
| `create_index` | `CreateIndex` |
| `switch_alias`: `resolve_alias`, `update_aliases` | `ResolveToSwitch`, `UpdateAliases` |
| `delete_index`: `resolve_alias`, the refusal, `delete` | `ResolveToDelete`, `Decide`, `DeleteIndex` |
| an operator re-indexes, switches back, cleans up | `Rebuild`, `SwitchBack`, `CleanUp` |
| `OpenSearchError`, process death | `Fail` |

A step is one request. OpenSearch is external: an `update_aliases` request is
atomic and fails when it names an index that is gone, `remove` of an alias that
is not there does nothing, deleting an index takes its alias along. A request
that was applied may be answered by an error (`Answered`). `resolve_alias`
raises for an alias over two indices, so that every operation stops there.

### TextQuality and Extraction

| Code | Action |
|---|---|
| the run turns to its next document; `extract_text` is submitted | `Begin` |
| `extract_text` ends: assessment, `should_attempt_ocr`, `is_tesseract_available` | `ParseEnds`, `ParseFails` |
| `render_pages` ends | `RenderEnds`, `RenderFails` |
| `ocr_images` ends, or `wait_for` gives up on it | `OcrEnds`, `OcrTimesOut` |
| `ocr_images` raises `OcrUnavailableError`, or anything else | `OcrFails`, `OcrBreaks` |
| a thread that nobody awaits ends (external) | `AbandonedEnds` |

A page is what the score measures of it (`Page`): characters, letters, failed
characters, words, space. The pool (external) gives a job to an idle thread at once and
queues it otherwise; cancelling a job removes it from the queue and leaves a
running one alone. Documents are extracted one after the other, as
`_process_paper` awaits each. `reading` is what OCR made of the first
`OcrMaxPages` pages.

### Sections and Chunking

| Code | Action |
|---|---|
| `split_into_sections`, per line; last flush and `_keep` | `ReadText`, `ReadHeading`, `EndOfText` |
| `_units_for` of a section | `StartSection` (`Units`, `Pieces`) |
| `_pack_section`, per unit; `emit` and the overlap | `AddUnit`, `EmitAndCarry` (`Seed`) |
| last `emit`, the cap on chunks | `EmitLast`, `EndOfPacking` |
| `_consolidate`, per chunk; the fallback to the largest | `Judge` (`Merges`, `KeepsSmall`), `Return` |

A line is the signals that `detect_heading` combines (`Sections` names them) and
the cost of its words in hundredths of a token. The token estimate is computed
as the code does it, rounding half to even; joining units adds nothing to the
sum of their costs. `secs` in a chunk remembers which sections it came from:
the code knows only their names.

### Fusion, Retrieval and Evaluation

| Code | Action |
|---|---|
| `build_retriever`; the limit of the caller | `Init` (`Wanted`, `limit`) |
| `embed_query`; the two searches of `gather`, their errors | `Embed`, `Search`, `SearchFails` |
| keyword or vector retriever alone | `Alone` |
| `HybridRetriever.retrieve` after `gather` | `Fuse` (`Fused`, `Shaped`, `Result`) |
| `rerank`: scored; disabled, empty, no model, error, timeout | `Rerank`, `RerankSkipped` |
| `ContextBuilder.build`, per chunk; relabelling | `Place`, `Relabel` |
| `chunks_to_paper_ranking`, `evaluate_query` | `PaperRanking`, `Scores` |

The searches return any lists of distinct chunks, as long as was asked for: they
run at different moments over an index that changes. Scores fall evenly or are
all equal. A chunk is an id with the paper, version, words and cost that
constants give it. Fused scores are compared as exact fractions. `Relabelled`
replaces one label after the other, as `text.replace` does.
`Evaluation` adds no step: its operators score what re-ranking handed over, in
ten thousandths, for every set of relevant papers. The gain of a rank,
`1 / log2(rank + 1)`, is a constant: any strictly falling positive numbers; the
instance has the code's values to four digits.

### Planted definitions

A definition introduced by a comment starting with `Planted:` is a mistake that
the code could have made: an exclusive lower bound, a budget compared before
the increment, a mark that follows failed papers. No specification uses it.
Replacing the definition that follows by it makes TLC refute the property named
with it in PROJECT.json (`mutants`), which shows that each property depends on
the code it is about and that the instance is large enough to tell.

## 3. Runs

| Run | Instance | Shows |
|---|---|---|
| `ProcessingSingle` | 1 run, 1 paper, 3 attempts, up to 2 chunks, 3 faults | With one run at a time: a marked chunk is in OpenSearch in the same version (`MarkedIsCurrent`), a settled paper is never touched (`SettledIsFrozen`), the lifecycle is implemented (`LifecycleSpec`), the paper is settled in the end (`EventuallySettled`). |
| `ProcessingConcurrent` | 2 runs, 1 paper, 2 attempts, up to 2 chunks, 1 fault | With interleaved runs: a marked chunk is searchable, if perhaps in a later version (`MarkedIsSearchable`), chunk rows come from one pass (`RowsOfOnePass`), a paper with text is settled (`StoredIsSettled`), FAILED has a letter (`FailedIsLettered`), the budget is overspent by at most one failure per further run and one per database error (`BudgetOverspend`). |
| `SyncSingle` | 1 process, 4 entries in minutes 1, 2, 2, 3, one malformed, one that is revised, page 2, limit 3, 1 fault | The checkpoint rests on a stored paper (`CheckpointIsBacked`), every entry is handed over in the end (`EventuallyTraced`), the lifecycle is implemented. |
| `SyncBackfill` | an incremental process and a backfill over the first two of 4 entries in minutes 1, 2, 2, 3, page 2, limit 3, 1 fault | The backfill neither moves the checkpoint back (`CheckpointNeverRewinds`) nor past an entry (`NothingSkipped`). |
| `PacingShared` | 3 callers of the arXiv client and 1 download, interval 2, 2 attempts, backoff up to 1 tick | The lock belongs to the sleeper and its queue holds exactly the callers that wait (`LockIsSound`), requests keep their distance (`PacedRequests`, the refinement of `Pacing`), every call ends (`EveryCallEnds`). |
| `VersionsConcurrent` | 2 transactions, 3 versions of one paper, another paper with the same two authors in the other order, 1 crash | One latest version per paper (`OneLatest`), complete authors (`AuthorsComplete`), a new highest version becomes the latest (`NewestBecomesLatest`), only a transaction that looked too early takes the flag from a newer version (`OnlyStaleDemotes`), a version that is taken up again and again is stored in the end (`StoredIfRefetched`). |
| `AliasConcurrent` | 2 processes that boot, 1 operator, 3 index names | The alias gets a second index only from an overtaken switch (`SplitNeedsStaleSwitch`), is emptied only by an overtaken deletion (`GapNeedsStaleCheck`), and once it is split no operation heals it (`SplitStays`). |
| `Extraction` | 3 documents, 2 threads, 4 text layers, 3 readings, OCR of 2 pages | No better text is lost (`NothingBetterIsLost`), rendering and OCR never wait for a thread (`TimerMeasuresOcr`), every document is answered (`EveryDocumentAnswered`). |
| `Chunking` | papers of up to 5 lines of 8 kinds; at most 32 tokens a chunk, 16 to be undersized, overlap 10, at most 5 chunks | Chunks fit (`ChunksFit`), overlap is the end of the chunk before (`OverlapIsTail`), merging joins only different sections (`MergesCrossSections`), text is lost only as stated (`LostToCapOrNoise`). |
| `Retrieval` | 5 chunks of 3 papers, lists of up to 3, three retrievers, both fusion methods, with and without a limit | Nothing is passed over without a reason (`RankedFairly`), re-ranking loses nothing (`RerankLosesNothing`), the context is faithful (`ContextIsFaithful`), scores mean the same for each question (`ScoresMeanWhatTheySay`). |
| `ProcessingUnsearchable`, `SyncStranded` | one process each | TLC finds the first two disagreements of section 5. |

### Why the bounds are enough

* One paper in `PaperProcessing`: no row, lock or document is shared between
  two papers in the modelled statements, so runs on different papers commute.
* Two chunks: a pass may write 0, 1 or 2 chunks, so a pass can shrink, grow or
  keep the rows of an earlier one, and a bulk request can be partly applied.
* Two runs: each race is between a statement that reads and another session's
  commit; two sessions are the ones that can disagree. Three attempts (one run)
  and two (two runs) give failures with and without budget left.
* Four entries: the second page starts inside a tie, the limit of 3 ends a run
  inside the listing, and there is an entry before and behind it. The limit
  exceeds the largest tie by one. A malformed entry and a revision between two
  pages are in `SyncSingle` (without its exception for entries that a revision
  moves, `EventuallyTraced` fails there); for `NothingSkipped` the theorem covers
  both, as beside a backfill they make the instance too large.
* Three versions and two transactions: a stale reader needs one version that
  both saw, one that was committed in between and one of its own. The second
  paper adds a transaction that shares only authors; two keys in opposite order
  are a deadlock.
* Three callers of the limiter: one sleeps with the lock, two wait in order, so a
  cancelled waiter can be the first or the last. An interval of 2 ticks lets a
  caller arrive in the middle of it. Two attempts are a first and a last one.
* Three processes and three names on the alias: two can bootstrap at once, and
  the operator can switch or delete while one of them is between two requests. A
  third name lets an index be built after a split. Processes of one kind are
  symmetric and so are names; the properties checked there are safety only.
* Three documents and two threads: two abandoned readings occupy the pool, and
  the third document has to wait. The text layers and readings lie on each side
  of every limit of the score and of `should_attempt_ocr`.
* Five lines: a section with and without text, a subsection, two sections of
  one name with another between them, and paragraphs of 3, 28, 43 and 75 tokens
  that stay whole, are split by sentence or by word. Five chunks is a cap that
  those papers reach; 542,503 states.
* Five chunks: three of one paper (a cap of two), one of another version, one
  that repeats the words of another. Lists of three cover absent and shared
  chunks at every rank. A budget of 8 has room for some passages only, so that
  labels get gaps. `RerankTop` is below `TopK`. Scoring at depth 4 looks past
  the end of every list.
* Faults: 1 to 3 crashes or database errors at any point. Failures of a content
  step (a download, an extraction, a refused bulk request) are not bounded.

### Fairness

* A run that has started goes on: the process is a sequential program, and each
  request has a timeout (`WF` of its steps).
* Clocks advance: `next_retry_at` passes (`WF` of `BackoffElapses`).
* `EventuallySettled` needs the paper to be fetched again and again: strong
  fairness of `Fetch`, which is a scheduler that repeats an ingestion window
  that contains the paper. The code does not provide it by itself: the
  incremental checkpoint moves on, and run `SyncStranded` shows what then
  happens. In `IncrementalSync` no such assumption is made: the scheduler only
  starts the next incremental run (`WF` of `ReadCheckpoint`, part of `Work`).
* `StoredIfRefetched`: the database executes statements (`WF` of `Statement`,
  which includes PostgreSQL's deadlock check) and wakes who waits for an author's
  key (`SF` of `AddAuthor` for each key). Without the latter two sessions could
  abort each other for ever: the victim would start again and take the key its
  partner waits for before that one is woken. No session has to take up a paper.
  That a version is fetched again while it is not stored is the hypothesis of the
  property (`Refetched`), made for that version and no other: repeating a window
  fulfils it, and the incremental schedule does not, because the checkpoint passes
  a paper that has failed (run `SyncStranded`).
* `EveryCallEnds`: time passes (`WF` of `Tick`), and a task that can run runs
  (`WF` of `Proceed`). A request that has been sent ends, because the HTTP
  clients are built with a timeout; a server that sends a byte now and then is
  outside this assumption. Calls and cancellations are not required to happen.
* `EveryDocumentAnswered`: a job that has a thread ends, and the run turns to the
  next document (`WF` of `JobEnds` and `Begin`). The OCR timeout need not come.
  A call into PyMuPDF or Tesseract that never returns is outside this assumption;
  the code has no timeout for the former.
* Crashes and database errors are finitely many. Content failures may go on for
  ever and need no bound: the attempt budget bounds them.

Deadlock is not checked in `Extraction`, `Chunking`, `Retrieval` and
`VersionsConcurrent`: the first three describe a call, or a run over given
documents, that ends, and the last stops when every version is stored.

## 4. Theorems

The theorems hold for every value of the constants that satisfies the named
assumptions `MaxAttemptsAssumption`, `BoundsAssumption`, `SyncAssumption`,
`PacingAssumption`, `VersionsAssumption`, `AliasAssumption`,
`ExtractionAssumption`, `ChunkingAssumption`, `RetrievalAssumption` and
`EvaluationAssumption`, which TLC evaluates on every instance. The ranges in them
are those that `core/config.py` accepts. Every invariant and every action
property of the passing runs has a theorem.

### SequenceLemmas

What a fold computes of a list of any length needs induction, and the library
states induction for a predicate, which no prover here can instantiate. The
lemmas of this module say it of sets: `NatSetInduction` and `UpToInduction` of a
set of numbers, where the library's lemma on the least element of a well-founded
order takes a set. A fold of the community modules unfolds to a function on the
sets of positions (`IterationExists`: there is one, so the `CHOOSE` in the
definition finds it), and that function runs through the list element by element
(`IterationRuns`). From there on each fold of the models is a sequence of
intermediate results `h[0] .. h[n]`, and its lemmas are ordinary inductions on a
position: `OnlySelects`, `SumAppend`, `SumConcat`, `Flattens`, and in the other
modules `WholeRuns`, `CappedRuns`, `RelabelRuns`, `GainRuns`.

### PaperProcessingProofs

For any number of papers, runs, chunks, attempts and faults:

* `TypeCorrect`: `Spec => []TypeOK`. `texts \subseteq papers` needs `StoredFirst`:
  transaction 2 is begun only for a paper that has a row.
* `StoredStaysSettled`: `Spec => []StoredIsSettled` and `NobodyGivesUpSilently`:
  `Spec => []FailedIsLettered`, from `StatusInv`. The delicate step is
  `advance_stage`: the ORM sends no UPDATE of the stage when the session loaded
  INDEXED, so the invariant must say that a run that saw a settled row before
  its commit still finds it settled (`SeenStaysSettled`). The lemmas on
  the status row say that no writer unsettles a row, whatever it loaded,
  and that only a failure that writes a letter makes it FAILED.
* `RowsNeverMix`: `Spec => []RowsOfOnePass` and `MarksAreSound`:
  `Spec => []MarkedIsSearchable`, from `StoresInv`. Its parts: the locks of a
  flush exclude each other (`OneHolder`); the pass of a writer is later than any
  row, document or loaded row (`WriterIsNewest`, `PassBounds`); if one of the
  rows a run loaded is still there they all are (`LoadedTogether`), hence a flush
  without a conflict leaves no row that the run has not deleted
  (`NothingSurvives`, lemma `FlushReplacesAll`); what will be marked is what
  OpenSearch holds of the pass (`AckedIsApplied`). The proof has one lemma for
  each of the four steps that move these (`LoadStatusKept`, `FlushKept`,
  `IndexKept`, `CommitKept`) and one for all others (`QuietKept`).
* `BudgetIsKept`: `Spec => []BudgetOverspend`, if `Runs` is finite. `BudgetInv`
  weighs the count of a row against the failures still to come: the attempts,
  and likewise the count that a run has loaded and will write back, together
  with the number of runs that may yet count a failure (`FailingRuns`) stay
  below the bound (`Bounded`). A failure that is recorded takes its own place
  out of that number (`RecordKeepsBudget`); a run only joins it by passing
  `needs_work`, when the count is below the budget (`SpentIsSettled`), or by a
  database error, which raises the bound by one (`FailingAfter`).

With one run at a time (`OneRun`), which may die between any two steps and start
again, and any number of papers, chunks, attempts and faults:

* `MarksAreExact`: `Spec => []MarkedIsCurrent`, `SettledStaysFrozen`:
  `Spec => SettledIsFrozen`, and `LifecycleIsKept`: `Spec => LifecycleSpec`, the
  refinement of `PaperLifecycle`.

`SoloInv` says that what the run has read of its paper is still so when it writes
(`Knows`), and that a paper without visible text has nothing marked
(`MarkedHasText`). From the test of `needs_work` to the commit the row stays
unsettled, hence nothing is marked while the bulk request replaces documents.
Four steps write (`InsertStep`, `IndexStep`, `CommitStep`, `RecordStep`); three of
them are steps of the lifecycle (`WriteImplements`), all others stutter.

### IncrementalSyncProofs

For every listing (any finite set of entries with any non-decreasing
timestamps), any malformed and revisable entries, any page size and limit, any
number of incremental processes and backfills and any number of faults:

* `TypeCorrect`: `Spec => []TypeOK`.
* `CheckpointSkipsNothing`: `Spec => []NothingSkipped`.
* `CheckpointRestsOnPaper`: `Spec => []CheckpointIsBacked`. Its invariant
  `BackedInv` follows every mark, those of backfills included, to the stored
  paper it was taken from.
* `BackfillsNeverRewind`: `Spec => CheckpointNeverRewinds` for one incremental
  process and any number of backfills. What the process loaded in its `finally`
  block is then the checkpoint until it commits (`LoadedIsCurrent`).
* `LifecycleIsKept`: `Spec => LifecycleSpec` for one process. `FateInv` says that
  the paper between its two transactions has a row that is pending.

`NothingSkipped` is not inductive: whether a checkpoint is sound was decided
when the mark was built, page by page. `CheckpointInv` adds what an incremental
run knows while it iterates:

* `SinceSafe`, `MarkSafe`: nothing unseen is older than the lower bound of its
  query, or than its mark.
* `OffsetDone`: every entry of the answer before the current page was seen.
  Malformed entries make this delicate: the offset counts parsed papers only,
  hence the page begins at or before the first entry not yet fetched, and the
  argument is a count of the entries of the answer (`PageBound`, `WindowSize`).
* `PageComplete`: an entry of the answer that precedes the next paper of the
  page was seen or is malformed. This is where oldest first matters.
* `OffsetInside`, `Between`, `PageSeen`: the offset stays inside the answer, a
  page is handed out completely before the next is requested, and a page holds
  only entries that have appeared.

The proof has one lemma per kind of step: the listing changes
(`PublishKept`, `ReviseKept`: an appended entry is newer than everything and a
removed one marks what follows it as displaced), a page is taken
(`TakePageKept`), a paper is finished (`YieldKept`), another process moves
(`RunKept`: seen entries are never unseen). Backfills are outside the invariant:
they do not touch the checkpoint.

### PaperVersionsProofs

For any number of transactions, papers, versions, authors and crashes:
`ExactlyOneLatest` (`Spec => []OneLatest`), `NewestIsFlagged`
(`Spec => NewestBecomesLatest`) and `StaleReadsOnly`
(`Spec => OnlyStaleDemotes`), from `FlagInv`. `OneLatest` says nothing about
open transactions; `FlagInv` adds what each of them may rely on until it ends:

* `Reads`: the versions it saw are still stored, and the rows it cleared are
  still flagged for everybody else (the row lock).
* `Clears`: it cleared a flag only as the newest of what it saw.
* `Replaces`: once its flagged row is in the index, it has cleared the flag of
  every other version (the unique index let it in).
* `Apart`: no two of them cleared the same row or took the same flag.

Steps before the commit leave the committed rows alone (`MovesInv`); `UpdateInv`
is where the row lock is needed, `InsertInv` where the unique index is.
`CommitLatest` then shows that the flag changes hands completely or not at all.

`AuthorsAreComplete` (`Spec => []AuthorsComplete`): every stored version names
everybody with a name, once, in the order of the first mention. `AuthorInv`
follows the byline of a transaction (`Gathers`), whose authors may be stored by
others while it waits; what `AuthorKeys` leaves of a list of names is shown by
induction over the names.

### EventLoopProofs: RequestPacing

For any number of callers, any interval, retry budget and backoff:
`RequestsArePaced` (`Spec => PacedRequests`, every step of `RequestPacing` is a
step of `Pacing` or a stutter). The invariant `PacingInv` says that the elapsed time is the time since
the last request, that the lock belongs to the sleeper, and that the rest of a
sleep and the elapsed time make up the interval (`SleepsLongEnough`): a tick
takes from the one what it adds to the other (`TickInv`), and with the lock held
nobody can reset the elapsed time during the sleep (`EnterInv`).

`CallsTyped` (`Spec => []TypeOK`) and `LockIsKept` (`Spec => []LockIsSound`)
rest on `CallInv`: the queue of the lock holds each waiting caller exactly once.
A cancelled waiter has to be found in it, and only its own entry may go
(`EntryRemoved`); a backoff is entered only with an attempt left.

### IndexAliasProofs

For any number of processes and index names: `AliasTyped` (`Spec => []TypeOK`: the
alias points only at existing indices), `SplitComesFromStaleSwitch`
(`Spec => SplitNeedsStaleSwitch`) and `GapComesFromStaleCheck`
(`Spec => GapNeedsStaleCheck`). The first action property follows from the step
itself: replacing exactly what the alias points at by one index leaves one. The
second needs an invariant over the whole life of a deletion: whoever is about to
delete has resolved the alias to another index than its target (`ChecksHold`), so
an alias that still is what it resolved keeps that other index. `SplitNeverHeals`
(`Spec => SplitStays`): every operation resolves the alias first and refuses one
over two indices, so once no request is in flight none gets as far as a change.

### EventLoopProofs: Extraction

`OcrNeverQueues` (`ExtractionSpec => []TimerMeasuresOcr`) for any number of documents and
threads: `ocr_timeout_seconds` is counted from the submission of the job, and the
job has a thread from then on. The invariant `IInv` says that at most one
document is being extracted, and that the queue holds nothing or the first job of
that document, its parsing. A document goes on to rendering and reading in the
thread that its former job leaves, and nobody is queued to take it. The step of
the run to its next document (`BeginKeepsIInv`) is where the sequential pipeline
matters: with documents side by side the invariant fails.

`BestTextIsKept` (`ExtractionSpec => NothingBetterIsLost`), for any text layers and
readings, page limit and threshold: what is kept of a document scores no less
than its text layer and than its reading, and is blank only if the text layer
is, except after the two errors of item 9 in section 5. Each of the ways a document ends has its lemma (`NativeIsBest`,
`ReadingIsBest`, `LayerIsBest`, `NoTextIsBest`). They need that a score lies
between 0 and 10000 whatever the measures are (`ScoreInRange`) and that a blank
text scores 0.

### ChunkingProofs

For any paper (any number of lines, any headings, sentences and words), any
limits that the settings accept:

* `Typed`: `Spec => []TypeInv`, and `ChunksAreSmallEnough`: `Spec => []ChunksFit`.
  The invariant says which units make a chunk (`Fitting`, `Packed`): a unit is over
  the limit only when it is one word, and each step that puts units together
  looks at their size first. The estimate rounds half to even; `Tokens` is
  monotone, but not additive.
* `NothingElseIsLost`: `Spec => []LostToCapOrNoise`, from `Accounted`: a unit of a
  kept section is still to be packed, in the hands of `_pack_section`, in a chunk,
  or lost because the cap is reached (`InPacking`), and the chunks that
  `_consolidate` has looked at are in the result or noise (`InJudging`).
* `InOrder`: `Spec => []Ordered`, and `OverlapIsKept`: `Spec => []OverlapIsTail`.
  Packing goes through the text in its order, and a chunk and the next of its
  section share the end of the one and the start of the other (`Joined`).
* `SectionsStayApart`: `Spec => MergesCrossSections`: `_consolidate` never merges two
  chunks of one section. `Joined` also says that two such chunks do not fit
  together even without their overlap, because packing would not have ended the
  first one; `Judged` says that the last chunk of the result is the one before,
  or what it was merged into.

### RetrievalProofs

For any chunks, papers, words, costs, any result lists of distinct chunks up to
the pool size, and all settings in their ranges:

* `RetrievalTyped`: `Spec => []Typed`. Lists of distinct chunks, within the limit
  of the query, from the searches to the context.
* `RetrievalIsFair`: `Spec => RankedFairly`. The chain of lemmas follows
  `HybridRetriever.retrieve`: sorting is a permutation that respects what is ahead
  (`AheadOrders`, `SortedOrders`); grouping puts a chunk before those that both
  lists like no better (`GroupedOrders`), which decides ties; neither part of a
  fused score falls when a chunk moves up (`RrfPart`, `WeightedPart`), so fusing
  is fair (`FusedFairly`); de-duplication and the cap give sublists
  (`FilterIsSublist`) and say why something is missing (`DroppedIsSaid`,
  `CapIsSpentBefore`), which `ShapedFairly` puts together.
* `RerankingKeepsWhatItGot`: `Spec => RerankLosesNothing`.
* `ContextIsAssembled`: `Spec => []Assembling`, and `ContextStaysFaithful`:
  `Spec => []ContextIsFaithful`. While chunks are placed each passage is under the
  label of its source (`Assembled`). `Relabelled` replaces labels one after the
  other in the same text; it is right because the labels in use increase, so the
  `i`-th of them is at least `i` (`UsedLabelsIncrease`) and a new number is never
  one that is replaced later (`RelabelledIs`).
* `MetricsAreMeant`: `Spec => []ScoresMeanWhatTheySay`. Papers rank by their first
  chunks (`RankingOfPapers`); as many hits gain most when they fill the first
  places, and only then (`FirstPlacesGainMost`), so a full nDCG says just that;
  the rest is that integer division is monotone (`QuotientRises`).

### What stays with TLC

* Liveness (`EventuallySettled`, `EventuallyTraced`, `StoredIfRefetched`,
  `EveryCallEnds`, `EveryDocumentAnswered`), which the installed back ends cannot
  treat, as they cannot treat ENABLED.
* Whether the hypotheses bite: TLC refutes each property for its planted mistake,
  and visits states in which its guards are true.

Where a proof has to look inside, and the library has only the recursive `SelectSeq`
and `SortSeq`, the models use `Only`, a fold, and `Sorted`, which counts what is
ahead.

No module here declares a RECURSIVE operator.

## 5. Where the code and its documentation disagree

1. `ProcessingUnsearchable`: `db/enums.py:63` calls INDEXED "Terminal success:
   chunks are searchable in OpenSearch" and `db/repositories/papers.py:279`
   says refused chunks are "retried by a later run". The stage is set whatever
   OpenSearch answered, and a settled paper is skipped from then on.
2. `SyncStranded`: `ingestion/pipeline.py:470`, "Advance only now, and only past
   papers that actually succeeded". The mark is the maximum over the successes,
   so it passes an older failure that has retries left.

The others were met while modelling and have no run of their own; the models
contain the behaviour unless stated otherwise.

Ingestion:

3. `db/models/pipeline.py:112`, "the watermark is advanced only after a batch is
   fully processed". A cancellation is no `Exception`: the `finally` block sees no
   error, closes the run as succeeded and moves the checkpoint. `NothingSkipped`
   still holds: only what was handled is passed.
4. `db/models/pipeline.py:114`, "advancing early would silently skip papers
   forever". A revision between two pages moves an unseen entry in front of the
   offset, and the checkpoint passes it (`displaced` in `NothingSkipped`).
5. `ingestion/extraction/errors.py:55` says of a file over the size limit that "it
   is never retryable". The error has no status code, which `is_retryable` takes
   for a failure below HTTP, so it is downloaded again.
6. `db/models/paper.py:78` calls `is_latest` "True for the highest known version of
   this arxiv_id". A transaction that read the versions before a higher one was
   committed demotes it: `is_newest` is decided on the first SELECT, the UPDATE
   acts on what is flagged by then (`OnlyStaleDemotes` says that nothing else does).
7. A paper whose processing kills the process never has an attempt counted; the
   models bound crashes, and with unbounded ones nothing ever gives it up.
8. `embedding/sentence_transformers.py` assigns `_model` before it checks the
   dimension, "at load time rather than at the first rejected bulk write". The
   first paper fails with a `ConfigurationError`, the following ones go on with
   vectors that OpenSearch refuses, and become INDEXED as in item 1. The lazy load
   is not modelled.
9. `ingestion/extraction/service.py:210`, "A failed fallback must not lose the text we
   already had". The handler names `TimeoutError` and `OcrUnavailableError`. A
   rendering error is a `PdfExtractionError`, and reading an image can raise what
   nobody declares (an image that cannot be opened, a full disk): the document
   fails and the native text is lost (`RenderFails` and `OcrBreaks`, the
   exceptions in `NothingBetterIsLost`). Accepted OCR of the first
   `ocr_max_pages` pages replaces the native text of all pages.

Index alias:

10. `search/index_manager.py:110`, "the alias never points at nothing and never
    points at two indices at once". This holds for the one request; a switch that
    another one overtook leaves the alias on two indices, and no operation of the
    module removes the second (`SplitStays`).

Chunking:

11. `_consolidate` is documented to merge "into the previous chunk from the same
    section". Packing has filled every chunk before, so this never happens; what
    is merged are chunks of different sections that carry one name
    (`MergesCrossSections`).
12. `ingestion/chunking/chunker.py:354`, "dropping it loses nothing the section does
    not already say". The last chunk of a section holds text of its own besides
    the overlap, and it is dropped below the noise floor (`LostToCapOrNoise`).

Retrieval and evaluation:

13. `retrieval/fusion.py:124`, "being absent is not treated as being ranked last". The
    last of a list normalises to 0, and an absent chunk adds nothing: the two are
    treated alike.
14. A near-duplicate is removed in favour of a chunk that may then fall to the cap
    of its own paper, and what both say is not in the result (`RankedFairly`).
15. `evaluation/experiment.py:13`, "With 30 chunks and at most 3 per paper, a query
    reaches at most 10 papers": with a cap it is at least 10; and the keyword and
    vector retrievers apply neither the cap nor de-duplication.
16. Relabelling replaces `[P2]` in the whole context, in the body of a passage too.
    The model has labels in headers only and does not show this.

## 6. Not modelled

* Text: XML, query strings, PDF and heading parsing by regular expression,
  `clean_text`, vectors, log and error messages. What the properties need of a
  text is in a model as a measure or a signal of it.
* The lazily loaded embedding and re-ranking models: loading is a failure that a
  search, a paper or re-ranking may meet. The thread that re-ranking leaves behind
  when it gives up on a timeout is not followed.
* Configuration except the ranges of the settings that chunking, extraction,
  retrieval and re-ranking use, which are assumptions on constants.
* Constant documents: index mapping, migrations, schema except the unique
  constraints the processing steps can meet.
* Evaluation beyond one question: loading and checking the data set, averages,
  latencies, the report. These are sums over independent results and files.
* Scripts: arguments and printing. `review_checklist.py` reads a file and writes one.
* `delete_by_paper`, `count` and the stages between PENDING and INDEXED: no
  code in the pipeline uses them.

## 7. Plan

Done: the modules of section 2. Next, in order of weight:

| What | Questions | Theorems |
|---|---|---|
| two incremental runs of one category | how far the checkpoint can fall back, and whether everything is still seen | a weaker form of `CheckpointNeverRewinds` |
| lazily loaded models | two tasks that load at once; the dimension check of item 8 | - |

The abstract specifications worth stating are `PaperLifecycle` and `Pacing`
(done) and an atomic alias for `IndexAlias`, which it would implement only as far
as no request is overtaken.
