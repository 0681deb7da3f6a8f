# KnowMoreDiRT in TLA+

TLA+ specifications of KnowMoreDiRT, checked with TLC and, for the safety
properties that matter most, proved with TLAPS. This page says which part of the
program each module describes, what is checked and what that shows, and what is
left out. Paths are relative to the repository; `ingest.py` and the like are in
`src/knowmoredirt/`, `scanner.py`, `folder_assistant.py` and
`content_pipeline.py` of the filesystem catalog in `src/file_system_catalog/`.

Contents: [the system](#the-system), [the modules](#the-modules),
[the runs](#the-runs), [the proofs](#the-proofs),
[where code and documents disagree](#where-code-and-documents-disagree),
[what is not modelled](#what-is-not-modelled), [the plan](#the-plan).

## The system

KnowMoreDiRT answers questions about a folder. `use_folder` reads it into a
semantic store (SQLite), with a local language model that extracts discourse
structures (DRS) and frames from its text; `question` retrieves from that store
and has the model formulate and verify an answer. A second, independent way in is
the filesystem database: a scan of a directory tree into one SQLite file which a
content pipeline enriches with searchable chunks.

| component | state | operations | interacts with |
|---|---|---|---|
| public API (`public.py`) | the global engine, a lock | `initialize`, `question`, `_reset` | engine; model transport, with the lock held |
| query engine (`engine.py`, `query.py`, `answer_types.py`, `relations.py`, `text.py`) | the store of one folder; plan and diagnostics of the last question | `answer`: arithmetic, plan, bounded execution, verification, model answer, fourteen recovery handlers | bounded matching, planner, store |
| raw-folder scanner, document context (`scanner.py`, `document_context.py`) | a cache of document contexts | documents, spans, context descriptors | ingest |
| DRS ingest (`ingest.py`, `store.py`) | documents, spans, DRS rows, the ledger `model_attempts`, `ingestion_runs` | `ingest_folder`: scan, prune, per-span model call, materialize, record, finish | planner, store |
| semantic frames (`ingest.py`, `engine.py`, `extractors.py`, `semantic_cache.py`) | frame rows, their ledger rows | eager extraction in an ingestion, lazy extraction before a question | frame cache, store |
| store (`store.py`, `storage.py`, `index.py`, `models.py`) | the SQLite connection and its open transaction | savepoints, commits, look-ups, migration | ingest, engine |
| model planner (`model_planner.py`) | the planner's cache directory | compact, monolithic and staged extraction; query, evidence and verification calls | model transport, file caches |
| model transport (`model.py`, `kmd_model_call_cache.py`) | the exact-request cache | budgets, streaming, transport retries | endpoint |
| file caches (`atomic_io.py`, `semantic_cache.py`, ...) | one JSON file per key | read, quarantine, atomic write | every caller of the model |
| cache consolidation (`scripts/maintenance/consolidate_model_caches.py`) | legacy and canonical cache directories | copy, set conflicts aside, prune | file caches |
| filesystem catalog (`scanner.py`, `folder_assistant.py`, `content_pipeline.py`) | one database file, partial files | scan, initialize, enrich, backfill | the directory tree |
| filesystem questions (`filesystem.py`, `folder_assistant.py`) | none of its own | plan, collect evidence, answer | the database file, model |
| bounded matching (`bounded_dspg.py`, `drs.py`, `drs_validation.py`) | the rows loaded for one question | `execute_bounded_query`: ranking, identity expansion, binders, choice | engine, store |
| runtime configuration (`kmd_runtime_config.py`, `context_capacity.py`) | a parsed file, cached per process | look-ups, capacities | everything |
| vector retrieval, evaluation, logging | logs | ranking, scoring | engine |
| metadata extractors, command line tools, benchmarks, research prototypes | - | formats, arguments, measurements | - |

What is hard, and what makes each part correct:

- **Ingest.** SQLite commits at some of the steps only, the DRS of a call before
  its ledger row. An ingestion may end between any two steps, the folder and the
  configuration change from one to the next, and whether the model is asked
  depends on the ledger. It is correct when no semantic row outlives its source,
  the ledger agrees with the rows, a completed run is whole and current, and
  neither is unchanged material asked again nor a good DRS lost to a failure.
- **Public API.** Threads share one engine; building, closing and answering
  fail, are interrupted, or wait for an endpoint with the lock held. It is
  correct when its calls are atomic, use an open store, leak none and return.
- **Filesystem database.** Other processes rename the file that one works on, the
  tree is edited while it is read, and partial files outlive a killed process. It
  is correct when what the name shows is always a whole index of one moment.
- **File caches.** Processes race on a name, writes fail half-way, machines crash
  with some of the data on the disk. An entry must be whole or absent, stored for
  good once stored, and a failing write must leave nothing behind.
- **Model calls.** Nested retries and fallbacks each keep their own negative
  entries. Accepted results must survive, answers be reused, failures be final
  only when they are, and every call end.
- **Semantic frames.** Ingestions and questions extract into the same rows under
  keys that change with the model; commits, cache and ledger are written apart.
  It is correct when the frames of two models never mix, live frames are
  recorded, a completed ingestion accounts for every span, and what was answered
  is not asked for twice.
- **A question.** The model's plan is executed, its answer verified claim by
  claim, reworded, completed, or replaced by one of a long chain of fallbacks. It
  is correct when no way round skips what another way checks: negatives need a
  proof, answers need citations, conflicts silence, exhaustive answers need
  completeness, and nothing is taken from the question before.
- **Bounded matching.** Documents are ranked and cut, names linked by
  hypotheses, and ten binders read rows under tests of their own and outweigh each
  other. It is correct when only rows of linked names that are open to the question
  answer, equal rivals silence each other, and what claims to be complete or the
  latest is.
- **Consolidation.** A tool that deletes, killed and run again.

## The modules

Every module models one component from its code. Environment steps (crashes,
edits of a folder, an endpoint that goes away) are actions of their own. Names
are the code's where TLA+ allows it. Definitions named `Name_Variant`
stand before some of the definitions: wrong versions of `Name`, none of them
used, each of which would break a property (`mutants` in PROJECT.json).

### DrsIngest

`ingest_folder` with its DRS calls, over the store. `db` is what the connection
sees and `disk` what is committed: each action sets `disk` exactly where the code
calls `commit` (or SQLite's savepoint handling amounts to it).

| action | code |
|---|---|
| `Begin` | scan, `start_run` or the resumed run, `prune_stale_documents` |
| `StoreDocuments` | upsert of documents |
| `TakeSpan` | chunk and span rows; the look-up in `model_attempts` that decides whether to call (exact key, else `stable_contract_fields`) |
| `CallAccepted` | `call_model_chunk_drs` accepted, `materialize_drs_payload`, commit |
| `CallFailed`, `CallRaises` | a negative result; an exception out of `ingest_folder` |
| `Record` | `deactivate_other_model_attempt_materializations`, the ledger row |
| `Finish` | integrity check, `finish_run` or rollback |
| `Reopen` | the connection is lost or closed with its transaction open |

A document is one content of a path, a configuration all that enters the cache
key. A DRS is abstracted to who made it and whether it has conditions, because
those decide what the code does. The engine's own store is in memory and never
reopened; a store file is, and the ledger properties say (`reopens = 0`) that
they do not survive it: the DRS is committed at `ingest.py:590`, before the
ledger row, so after a loss in between the ledger may mark as materialized a DRS
that was replaced, and a later completed run may keep a DRS of another
configuration.

The fallback of the look-up finds the newest row of the same *text*
(`ingest.py:517`), so spans with the same text share verdicts: one may be skipped
because the other was rejected, lose its ledger row to the other's failure, or
keep a DRS of a superseded model. `retries` is `KMD_DRS_RETRY_FAILED_ATTEMPTS`, with
which a failed attempt is made again (`ingest.py:562`). `LiveIsRecorded` and `CompletedIsCurrent` are
therefore stated of spans whose text is their own (`Alone`). Of "current" they
ask what the code compares, the model's fingerprint.

### FrameLedger

Frames of a span and their attempts, under ingestions of a file that may be left
and reopened at any moment, and under questions to the engine's store in memory.
It is the second half of what `ingest_folder` writes, apart from `DrsIngest`
because the two share only the connection: `materialize_drs_payload` commits and
takes the frame rows written before with it, which the commit of `EndSpan` stands
for. `frameDb` is what the connection sees and `frameDisk` what the file holds. The
properties are in `FramePromises`, which names only the state they are about, so
that `DrsIngestProofs` can state them beside those of the same store's other half.

| action | code |
|---|---|
| `Ingest`, `Ask` | `ingest_folder` from its first span; `_materialize_question_semantics` for the spans of a question |
| `Reuse` | the frames are there and the ledger says that they are of this key |
| `Replace` | frames of another key are deleted, and the deletion is committed (`delete_frame_materialization_for_span`); an attempt that failed before is not made again unless `KMD_FRAME_RETRY_FAILED_ATTEMPTS` is set |
| `Extract` | the frame cache, or the model and then the cache |
| `Insert`, `EndSpan` | the rows and the ledger row; the commit that the span's DRS may bring |
| `Finish` | `finish_run`; the end of a question |
| `Crash` | the process ends, and a file keeps what was committed; the frame cache stays |

A failed call is cached as an answer without frames (`Answers`) when its reason is
`invalid_json`, `schema_validation_failed` or `grounding_validation_failed`
(`ingest.py:391`, `engine.py:5043`), although the ledger counts the first two as
retryable: the attempt is made again, and the cache gives the same failure.

`OneModel` compares the frames in every state of the connection and of the file,
because deletion, insertion and their commits are different statements with a
model call in between. `AnsweredIsFree` holds because every answer that may be
kept enters the cache before the ledger.

### FolderIndex and PublishedIndex

`scan_to_database`, `initialize_text_folder` and the in-place pipeline
(`ContentSemanticPipeline.run`, `backfill_chunks`) in several processes. Database
files are inodes (`dbs`), the destination is a name for one of them (`dest`), a
process that opened one keeps it when the name moves. Contents of files are
version numbers, so "the text of what was hashed" is a comparison of numbers; a
file edited while it is hashed gets the hash of no version (`Torn`).

`PublishedIndex` is what a reader of the destination may rely on: no index or a
finished one, replaced only as a whole, otherwise only growing, its text always
that of its catalog. `FolderIndex` implements it (`RefinesPublishedIndex`).

`Begin` checks for an existing destination and `Publish`, possibly hours later,
renames without looking again: a scan without `--replace` replaces a database
that appeared meanwhile (`scanner.py:1065`, `cli.py:15`). No property is stated
of it; the one that replaces is whole.

### PublicApi and KnowledgeBase

`initialize`, `question` and `_reset` statement by statement: acquiring the lock,
building, closing the previous engine, publishing, the `except BaseException`
that closes the replacement. Constructors and closes may raise, the close in that
handler too (`AbortFails`); the main thread
may get a `KeyboardInterrupt` between any two statements; the endpoint goes away
and returns, and the transport loop waits for it with the lock held.

`KnowledgeBase` is what callers see: one knowledge base, changed in one step.
`_reset` empties the global before it closes under the lock; the refinement
mapping (`Seen`) shows the previous engine until the call ends.

An interrupt between `previous.close()` and the assignment of the global
(`public.py:15-23`) leaves a closed engine published. `NeverUsedClosed` and
`NoLeakedStore` are therefore stated for behaviours without an interrupt,
`RefinesKnowledgeBase` and `CallsReturn` for all.

### CacheFile

One entry of the file caches: of the planner and the semantic frames
(`atomic_write_bytes`), of the model calls (`write_model_call`) and of the
document contexts. `kind` selects the steps each writer has and the exceptions
each reader survives. The directory in memory and on the disk are `name` and
`disk`; `SystemCrash` keeps either and cuts what was not synced. Descriptors are
numbers and reused, and a process may have another thread (`Shared`). Each step may
fail, the synchronization of the directory in two ways: when it cannot be opened,
the write returns all the same (`OpenDirectoryFails`, `atomic_io.py:18`), so that a
machine crash may then lose the entry; when its `fsync` fails, the write raises
although the entry has its name (`SyncDirectoryFails`).

The cleanup of `atomic_write_bytes` closes its descriptor's number although the
`with` statement may have closed it already (`atomic_io.py:45-50`): beside a
thread that opens files it may close that thread's descriptor. The instances let
another thread open files only with the caches that do not do this; the
properties hold for the planner's and frames' caches when no other thread opens
files, which is how the program uses them.

### CacheConsolidation

One key of `consolidate_model_caches.py` over the directories that may hold an
entry of it, in the tool's order: copy, compare, set both aside, remove, and at
the end remove the legacy directories, one after the other. The tool is killed
between steps and run again, and between runs a missing entry may be computed anew. Killed in a copy it
leaves `Half` an entry under the final name (`consolidate_model_caches.py:92`),
which the next run takes for an entry; `NothingLost` is stated for behaviours in
which it is not killed. The properties are in `ConsolidationPromises`, which names
only the state they are about, so that `CacheFileProofs` can state them beside those
of the caches the tool consolidates.

### ChunkDrs

The calls of `call_model_chunk_drs` for one chunk and the caches below it: up to
three compact attempts, the monolithic extraction, the staged extraction it falls
back on (skeleton, conditions, missing boxes, once more with feedback), which
goes first for chunks with field-like spans. A DRS is abstracted to its quality:
not grounded, not valid, completable by adding boxes, sparse, full. The planner's
entries are `compact`, `spare` (the retries whose keys contain a duration and so
are found by their source only), `stage` and `mono`; `call` is the exact-request
cache. Calls may be killed at any step.

Three observations from it. A retry after a rejected answer sends the request
that was already answered, so the exact-request cache returns the rejected
text, and a rejection is permanent although `schema_validation_failed` counts as
retryable. An entry of an earlier policy without conditions is stored as the
current one (`_finalize_compact_cached_payload`) although a comment at
`model_planner.py:4750` calls it not authoritative, and the next call returns it.
And `context_budget_exceeded` is a retryable reason nothing produces, while the
reason that is produced, `context_limit_exhausted`, is final.

### QueryCalls

The calls a question makes, each repeated for one prompt: the plan (compact
extraction, full extraction, two retries whose prompt and key contain the
failures before), the answer from evidence with the repair of one that is not
grounded, and six calls of one request each. `entry` is the planner's cache,
written after an answer was judged, `heard` the exact-request cache, written
before; a call may be killed between any two steps, and an entry may be one that
the present validator refuses (`stale`).

`PlanIsFound` excepts one case that the code has: with `KMD_QUERY_DRS_FORCE_FULL`
an accepted but thin compact plan is dropped when the full extraction fills the
context (`context_limit_exhausted` is final).

### QueryEngine

`KnowMoreDiRTEngine.answer` with a local model, from the arithmetic over a source
sentence to the diagnostic unknown. `pc` follows the code's chain of fallbacks;
`Ask` starts a question, and each other action is one decision of one method.
`plan` and `diag` are the engine's attributes, which outlive their question and
carry its number, so that a property can say whose evidence an answer cites.

| action | code |
|---|---|
| `Arithmetic`, `PlanAccepted`, `PlanRejected`, `PlanFails`, `Bounded` | arithmetic over a source sentence, the model's plan of `_answer_with_local_model`, `_answer_with_bounded_dspg` with `_finalize_answer` |
| `Scope`, `Rephrase`, `VerifyAccepted`, `VerifyRejected`, `NoneVerified`, `ClaimAccepted`, `ClaimRejected`, `ClaimsAccepted` | does the evidence cover the question's anchors; canonicalization and source resolution; verification of one candidate text after the other, and claim by claim |
| `Gate`, `Evidence`, `Complete` | the conflict gate, the model's answer from evidence, the completion of a grounded answer |
| `Recover`, `NextHandler` | `_grounded_post_plan_recovery`: fourteen handlers in their order, each verified again |
| `Done`, `UnknownAnswer`; `RephraseFails`, `ClaimFails`, `EvidenceFails` | the answer, or the unknown with the evidence it quotes; failures that raise out of `answer` |

(PROJECT.json's map has the definition and the lines of each.) What the model
says, and what a handler finds, is chosen freely from texts told apart by what the
code asks of them. `NegativeIsProved` speaks of the negatives that `IsNegative`
recognises, and excepts two ways the code takes on purpose: a verification that
returns another text than it was given, and a completion.

Observations: a negative whose explanation follows a comma ("No, it was not
opened") is not recognised as one (`engine.py:4672`; the docstring at 4756 says
otherwise); the recovery handlers answer after a conflict that silenced the model
(`engine.py:4689`; `docs/current_system.md:55`), and count rows without a
completeness proof; a canonicalization or a claim's verification that fails
raises out of `answer`, and `last_answer` stays the previous one; an arithmetic
answer, or an unknown after a rejected plan, may name diagnostics of the previous
question (`engine.py:6028`, `3671`); `model_answer_count` is incremented twice for
one answer (`5487`, `4683`).

### BoundedRecords and BoundedQuery

`execute_bounded_query` against the rows of one run. `BoundedRecords` is the pure
part: which contexts are accessible to a question, what each of the ten binders
(conditions of the relation and of the document, frames, labels of three kinds,
cells, rows and values of the document, chains) and the three readers of dated rows
read, and how candidates are weighed. `BoundedQuery` has the steps: `Rank` or
`RankAll`, `Expand` round by round until `ExpandDone`, `Binding`, `Decide`.
An order is a set of what comes before, so that a limit is a number of
predecessors (`Ranked`). Documents are numbered in the order of their paths, which
break ties; scores are in tenths. A sentence is one chunk, one span and at most one
row, so that the limits on documents and chunks cut what the code cuts.

- **Contexts.** A context has its kind, the words of its surface and those of its
  evidence. A supposition or a denial is opened by a required word; a reported
  context also when the words of the asked relation are anywhere in its chain
  (`RelationRequests`, `bounded_dspg.py:1602`, `2372`), which for semantic frames
  and identity hypotheses includes the whole text they were read from
  (`ingest.py:1258`, `1418`). So a report may well answer a question that asks for
  none: what `AnswerIsGrounded` and `OnlyLinkedNames` rule out is what `Admits` does
  not list.
- **Names** may hold others as one of their words (`Within`): "ada" stands for every
  name of a loaded hypothesis that holds it, if these are at most four
  (`StartsFrom`). The module says so as the code does; `docs/architecture.md:98`
  denies it.
- **Dates** are three: the phrase as the model worded it (`time`), the date
  found in the sentence (`stamp`) and the day that is meant (`day`). The code
  compares the first two as texts, "9 May 2023" after "10 May 2023", and so does the
  module: texts are numbered as they sort.

`LatestIsLatest` is stated of days, where the texts of all dates sort as their days
(`SortedAlike`), all dated rows are plain conditions (`PlainlyDated`) and all of
their sentences, or none, hold a date that is found; then no row that is quoted is
older than a dated row of the target. Elsewhere an older row
may answer, as TLC showed for each case. Phrases that do not sort, "9 May 2023"
beside "10 May 2023", make the older one the latest. The three readers keep a
boundary each of their own, two by the phrase and one by the date found in the
text, and relation rows (9.0 and summed) may outweigh a later edge (8.0). A condition
declared in another modality is read by the reader of edges and not by that of
rows, so that two older sentences outweigh it. A latest condition without a value
that can be named gives no candidate to two of them, and an older one answers.

`EqualRivalsAreSilent` is stated of exactly two values, because the conflict check compares only the two best, of
values that share no sentence, because values of one naming sentence pass it, and of
those whose evidence covers the target alike in whichever four pieces the check knows
(`Pieces`).

Observations: labels bind to every name of their document, although the docstring
at `bounded_dspg.py:4107` says that one naming row names one, and the values of one
naming row share it as evidence, so an arbitrary one wins
(`docs/current_system.md:51`); boolean questions have no conflict check; of extreme
counts that are equal neither is taken and ordinary candidates answer instead; the
expansion may cut the question's own documents, and cuts chunks independently of
documents; the evidence of every identity round is attached to the answer,
whether it contributed or not; candidates without weight leave an answer without
evidence; the order of a list is that of SQL rows.

## The runs

`tlc -config X.cfg M` with two workers; each finishes within two minutes on a
small machine.

| run | instance | shows |
|---|---|---|
| DrsIngest | a file with two contents and another one, 3 spans, 2 configurations, 3 scans, 3 ingestions, 1 reopening, retries on or off; 0.9 M states | `NoOrphanSemantics`, `LedgerTellsTheTruth`, `LiveIsRecorded`, `CompletedIsCurrent`, `CompletedIsWhole`, `FailureKeepsDrs`, `IngestEnds` |
| FrameLedger | 2 spans, 2 keys, a file or the memory, 3 sessions, 3 crashes; 1.6 M states | `OneModel`, `FramesAreRecorded`, `CompletedIsExplained`, `AnsweredIsFree` |
| FolderIndex | 2 processes on one file or one process on two files, 2 versions, 2 databases; 1.5 M states | `InitIsComplete`, `InitIsSnapshot`, `NoLeftovers`, `RefinesPublishedIndex` |
| PublicApi | 2 threads, 2 folders, 3 calls, 2 outages; 95 k states | `NeverUsedClosed`, `NoLeakedStore`, `RefinesKnowledgeBase`, `CallsReturn` |
| CacheFile | 2 processes, 4 kinds, 3 files, 1 failure, 1 damage, 2 crashes; 2.1 M states | `NeverTorn`, `StoredIsKept`, `NothingLeaks`, `OtherUndisturbed` |
| CacheConsolidation | 3 directories, 3 contents, 3 runs, 2 kills, 1 recomputation; 30 k states | `Unambiguous`, `NothingLost` |
| ChunkDrs | 3 compact calls, 2 staged calls, 1 call with both on a chunk with field-like spans; 0.8 M states | `HeardIsFree`, `AcceptedIsKept`, `CallEnds` |
| QueryCalls | every call, the plan in its 3 configurations, 2 calls of each; 0.4 M states | `PlanIsFound`, `ServedIsSettled`, `HeardIsFree` |
| QueryEngine | 4 answer types, 2 questions, 2 claims; 0.3 M states | `NegativeIsProved`, `AnswersCiteSource`, `OwnEvidence`, `ExecutionBinds` |
| BoundedQuery | 3 documents, the first two of 20 kinds and the third of 10, in every combination, 11 questions, limits of 2 documents and 3 sentences; 0.2 M states | `OnlyLinkedNames`, `AnswerIsGrounded`, `EqualRivalsAreSilent`, `CompleteMeansAll`, `LatestIsLatest` |

Two more runs, `BoundedQueryNegated` and `BoundedQueryCount`, end in a
counterexample: [below](#where-code-and-documents-disagree). Each module's type
invariant, `TypeOK`, is proved where there is a proof module, and may be added to
any of the configurations.

**Why the bounds are enough.** *DrsIngest*: two contents of one path are what
pruning and the key's fallback tell apart, two configurations what supersession
needs, three ingestions a success, its replacement and a return to the first.
*FrameLedger*: likewise for keys, and two spans are one before and one after the
commit at which a session is left. *FolderIndex*: a process is disturbed by what
one other does; a second database is the one that replaces; a snapshot needs two
files of which one changes after its hash. The constraint `TwoOfOne` lets either
the second process or the second file come in. *PublicApi*: calls are serialized
by the lock, so two threads and three calls give every pair of neighbours and a
state left behind by a third. *CacheFile*: three files are an entry, its
replacement and a racing one; two crashes are one that leaves a mess and one in
the repair. *CacheConsolidation*: the third of three different entries is the case
that needs the memory of the first two. *ChunkDrs*, *QueryCalls*: an entry left by
one call and met by the next, and once more by a third for the compact attempts.
*QueryEngine*: what a question leaves behind is met by the next one; a second
claim is the one that is rejected after an accepted one. *BoundedQuery*: one
document names the target, one links it, one is brought in by the link, or two
rival and a third breaks the tie; a limit of two cuts one of the three. The kinds
have each context (asserted, supposed, denied, and reported or denied with and
without the words of the relation in its text), names that hold another, phrases
that sort unlike their days, and rows with negative words and with the asked slot.

`CHECK_DEADLOCK FALSE` is set where the bounded counters (ingestions, sessions,
database files, calls, questions, runs) let the system stop, or where it has
answered its one question (`BoundedQuery`), and for nothing else.

**Fairness.** `DrsIngest`: `WF(IngestStep)`, one thread that runs a loop; that a
model call returns, or raises, is assumed of the endpoint. `PublicApi`:
`WF(Step(t))` per thread. Failures and interrupts are not fair. A lock is not
fair to its waiters, but calls are bounded, so nobody is overtaken for ever and
weak fairness at the lock assumes nothing more. `CallsReturn` also assumes that
the endpoint comes back, `WF(EndpointUp)`: without that the transport loop waits
for ever, by design. `ChunkDrs`: `WF(CallStep)`, with the same assumption of
requests. For the other modules no fairness is stated: their steps run in one
thread over fixed lists (spans, handlers, retries). That a session, a call or a
question, and the rounds of `BoundedQuery`, cannot go on for ever is
[proved](#the-proofs).

## The proofs

For all values of the constants that satisfy the modules' assumptions, which say
that bounds are numbers, sentinels are no members and the tables of constants
have their types (of the theorems about `FrameLedger` and `CacheConsolidation`,
which instantiate the module, the same is a hypothesis, `FrameBounds` and
`ToolBounds`):

| theorem | says | inductive invariant |
|---|---|---|
| `DrsIngestProofs!TypeCorrect` | `[]TypeOK` | itself, with the type lemma of each store operation |
| `DrsIngestProofs!NoOrphan` | `[]NoOrphanSemantics` | `Sources`: also the span at the model call has its rows. Without it `CallAccepted` could attach a DRS to a span without rows |
| `DrsIngestProofs!CompletedWhole` | `[]CompletedIsWhole` | `Coverage`: what a running ingestion has stored so far, and that a resumed run stays "completed" on the disk only when nothing was pruned |
| `DrsIngestProofs!LedgerTruth` | `[]LedgerTellsTheTruth` | `Ledger`: at `record` the DRS is that of the running configuration and no other row is marked |
| `DrsIngestProofs!LiveRecorded` | `[]LiveIsRecorded` | `Verdicts`, with the above: the model is asked about a span that carries a DRS with conditions only if that DRS is of another configuration |
| `DrsIngestProofs!CompletedCurrent` | `[]CompletedIsCurrent` | `Verdicts` and the spans that a running ingestion has already dealt with |
| `DrsIngestProofs!FailureKeeps` | `FailureKeepsDrs` | the types and `NoOrphan` |
| `DrsIngestProofs!FramesTyped`, `FramesOfOneModel`, `LiveFramesRecorded`, `CompletedExplained`, `AnsweredOnce` | `[]TypeOK`, `[]OneModel`, `[]FramesAreRecorded`, `[]CompletedIsExplained`, `[]AnsweredIsFree` | `Sound` (both stores: rows of one key, recorded, and what is live is full), `InHand` (the span at the model has no frames), `Behind` (the spans already processed are explained), `Heard` (what was answered is cached) |
| `FolderIndexProofs!TypeCorrect`, `PublishedIsComplete`, `PublishedIsSnapshot`, `CleansUp` | `[]TypeOK`, `[]InitIsComplete`, `[]InitIsSnapshot`, `[]NoLeftovers` | `Owned` (the file that is being built is known to nobody else), `Pending` (a row that the folder no longer agreed with when the scan ended stays on the list of an initialization, which therefore never ends), `Described`, `InWork`, `Partials` |
| `FolderIndexProofs!Refinement` | `RefinesPublishedIndex` | the same, one step of `PublishedIndex` or none for every action |
| `PublicApiProofs!TypeCorrect`, `Published`, `UsedOpen` | `[]TypeOK`, `[]PublishedIsOpen`, `[]NeverUsedClosed` | `IInv`: who holds the lock is where in its call, `previous` is the published engine inside `initialize`, and a replacement under construction is open and not published |
| `PublicApiProofs!NothingForgotten` | `[]NoLeakedStore` | `Accounted`: an open store is the published one or in the hand of the call that holds the lock |
| `PublicApiProofs!Refinement` | `RefinesKnowledgeBase` | `CallKnown` (a call's fields agree with where it is, interrupted or not), one step of `KnowledgeBase` or none for every action |
| `CacheFileProofs!TypeCorrect` | `[]TypeOK` | itself |
| `CacheFileProofs!Whole`, `Kept` | `[]NeverTorn`, `[]StoredIsKept`, when no other thread opens files (`Shared = {}`) | `IInv`: each call owns its temporary file and descriptor (`Own`), no two the same (`Apart`), files with a final name are whole and synced (`Published`, `Durable`) |
| `CacheFileProofs!CleansUp`, `LeavesOthers` | `[]NothingLeaks`, `[]OtherUndisturbed`, when only the threads beside model calls and document contexts open files (`Shared \subseteq {"call", "context"}`) | `Table`: what a process has open is its call's descriptor and the other thread's, never the same |
| `CacheFileProofs!ToolTypeCorrect`, `EndsUnambiguous`, `LosesNothing` | `[]TypeOK`, `[]Unambiguous`, `[]NothingLost` | `Visited` (the directories behind a run agree with the active entry unless one has disagreed), `ToolHeld` (while none was killed, an entry of those directories is active, preserved or about to be) |
| `ChunkDrsProofs!TypesHold`, `HeardIsFreeHolds`, `AcceptedIsKeptHolds` | `[]TypeOK`, `[]HeardIsFree`, `[]AcceptedIsKept` | `Stored`, `InHand` and `Phase` (what each cache may hold, what a call has in hand, and why it is where it is), `Path` (a stage is asked only after those before it went as they must), `Remembered` (what an accepted sparse extraction came from is still below it, so that a stale entry can be rebuilt), `FreeInv` (a call after one whose requests were all answered takes the same way through the caches: `FreeStart`, `CleanPath`, `Free`) |
| `QueryCallsProofs!TypeCorrect`, `FoundPlans`, `NoFailureServed`, `RepeatedForFree` | `[]TypeOK`, `[]PlanIsFound`, `[]ServedIsSettled`, `[]HeardIsFree` | `Caches` and `InHand` (what is in hand was heard, is an entry, or is a failure of this very call), `PlanInHand`, `CleanPath`, `AllFree` and `FreePath` (the requests that a call without failures has made are free for the next, which takes the same way) |
| `QueryEngineProofs!TypeCorrect`, `NegativesAreProved`, `AnswersAreCited`, `EvidenceIsOwn`, `ExecutionIsBinding` | `[]TypeOK`, `[]NegativeIsProved`, `[]AnswersCiteSource`, `[]OwnEvidence`, `[]ExecutionBinds` | `Turn` (whose plan and diagnostics are at hand at each label), `Cited`, `Judged` (what of the candidate has been shown when it gets there), `Bound` (what the execution found holds of the candidate) |
| `BoundedQueryProofs!TypeCorrect`, `OnlyLinkedNamesHolds`, `AnswerIsGroundedHolds`, `EqualRivalsAreSilentHolds`, `CompleteMeansAllHolds`, `LatestIsLatestHolds` | `[]TypeOK`, `[]OnlyLinkedNames`, `[]AnswerIsGrounded`, `[]EqualRivalsAreSilent`, `[]CompleteMeansAll`, `[]LatestIsLatest` | `Selected` (documents, chunks and rows at hand are the corpus's), the closure of the names is the least closed set (`ClosureLeast`), every accessible row is one that `Admits` lists (`OpenAdmits`), `Found`, `Grounded` and `Scored` (the candidates are what the binders give; each stands on an open row at hand beside a linked name, and none weighs nothing), `Whole` (before a name is linked, a question that requires completeness has all rows at hand), `DatesSort` (the hypotheses of `LatestIsLatest`: each reader's boundary is of the latest day, `TemporalLatest`) |

The calls of each of these components but three (the folder index, the file
caches and the consolidation) are also proved to come to an end, as far as that
can be proved: there is a number, or a pair of numbers, that every step makes
smaller, whatever the endpoint answers, whichever step fails and whatever the
caches hold.

| theorem | says | the measure |
|---|---|---|
| `DrsIngestProofs!Shortens`, `FramesEnd` | `IngestShortens`, `FramesShorten` | three steps for every sentence left, four for every span |
| `ChunkDrsProofs!Shortens` | `CallShortens` | `Distance`, by the place in a phase: at most 55 steps for a chunk |
| `QueryCallsProofs!Shortens`, `RequestsBounded` | `CallShortens`, `[]RequestsAreBounded` | four steps for each request that may follow (`Rank`); with the requests already sent, never more than four for a plan, two for an answer and one otherwise |
| `QueryEngineProofs!Shortens` | `QuestionShortens` | `Stage` of the fallbacks, and within one `Work`, the wordings and claims left to verify |
| `BoundedQueryProofs!RoundsAreBoundedHolds` | `[]RoundsAreBounded` | every round that goes on links a name, so there are no more rounds than names |
| `PublicApiProofs!Shortens`, `LockIsHeld` | `CallsShorten`, `[]LockHeld` | the statements left of a call; the lock's owner is exactly the call inside it, through every failure and interrupt |

Each theorem is `Init => I`, `I /\ [Next]_vars => I'` with one step per action,
`I => property`, combined by temporal logic. The invariants were checked by TLC
on the instances before they were proved.

Only model-checked: liveness under fairness (`IngestEnds`, `CallsReturn`,
`CallEnds`). The measures above are one half of it; the other, that fairness
makes the steps happen, is about ENABLED and out of the prover's reach. Every
invariant and every other action or temporal property that a passing run checks
is proved.

The proofs do without induction over data. That a set of numbers has a least
element (`NatSet`) takes the place of induction, recursive functions over
documents and rows are compared on finite parts of their domain (`Iterates`,
`BucketPositive`), and orders are used by counting predecessors (`Ordering`).

## Where code and documents disagree

Two runs check what a document says and TLC finds a behaviour of the code that
contradicts it:

| run | promise | code |
|---|---|---|
| BoundedQueryNegated | `docs/kmd_system_definition.md:102`: "A negated proposition cannot be retrieved as a positive fact." | `_document_scoped_drs_condition_candidates` (`bounded_dspg.py:4419`), `_bind_frame_conditions` (`3819`) and `_structural_chain_frame_rows` (`4672-4736`), which decides the trace that TLC shows, do not look at a condition's polarity, as the binder of relation conditions does (`2777`): a negative condition in an asserted box answers a positive question |
| BoundedQueryCount | `docs/kmd_system_definition.md:553`: an exact count "only if it can justify that the relevant search space is closed or exhaustively covered" | a round of identity expansion cuts the exhaustive list of documents to the limits of an ordinary question (`bounded_dspg.py:6971`), and nothing reads `exhaustive_run_coverage` afterwards |

Seen while modelling and not run, with the line of the code and of the promise:

- identical texts share their materialization state (`ingest.py:517`;
  `docs/architecture.md:117`), and a superseded DRS stays beside a failure
  (`ingest.py:590`; the same line);
- an unreachable endpoint blocks instead of raising (`model.py:368`;
  `docs/public_api.md:44`); requests are repeated without bound
  (`docs/runtime_configuration.md:45`); there is no wall-clock timeout
  (`docs/architecture.md:115`);
- a cache entry that is not UTF-8 raises instead of being recomputed
  (`model_planner.py:468`; `docs/kmd_system_definition.md:1012`);
- a second invocation of the consolidation imports what the first set apart
  (`consolidate_model_caches.py:118`; the tool's docstring);
- transient failures that become final: a whole extraction whose fallback was cut
  off (`model_planner.py:6753`), an answer whose repair was cut off (`3599`), and
  `context_limit_exhausted` against the docstring at 496
  (`docs/cache_contract.md:52`);
- invalid JSON is asked again under the same key (`structured_failure_retryable`;
  `docs/architecture.md:113-117`);
- a completed ingestion may leave frames of another key beside a failure
  (`ingest.py:1181`, `store.py:1323`; `docs/architecture.md:113`);
- a name of one word is taken for every longer name that holds it
  (`bounded_dspg.py:1741-1764`; `docs/architecture.md:98`: "incidental substrings
  inside [...] longer labels do not seed identity expansion");
- a report answers a question that asks for none when its text holds the words of
  the relation, the latest report also over an earlier assertion
  (`bounded_dspg.py:2372`; `docs/architecture.md:100`);
- dates are compared as texts (`bounded_dspg.py:5674`, `5731`, `5790`;
  `docs/architecture.md:100`, which speaks of temporal ordering);
- a frame answer that is not JSON stays in the frame cache although it is retryable
  (`ingest.py:391`; the docstring at `model_planner.py:498`: it "must never become a
  permanent negative cache entry");
- recovery handlers answer after a conflict (`engine.py:4689`;
  `docs/current_system.md:55`);
- `question_filesystem_database` passes `max_evidence=`, which its callee does
  not take (`filesystem.py`; `docs/filesystem_database.md:10-27`).

## What is not modelled

- The content of prompts, schemas, DRSs and answers, and the text heuristics of
  the query engine's handlers: data that the control modelled here does not depend
  on beyond the qualities the modules tell apart.
- Floating-point ranking by vectors, file formats, external tools, argument
  parsing, logs, benchmark drivers, and the research prototypes, which nothing
  imports. The runtime configuration is a look-up in a parsed file; what it
  decides is a constant or a free choice of the modules.
- `QueryEngine` leaves out the runtime without a model (23 legacy handlers), which
  only the tests use. `BoundedQuery` leaves out the frames of that runtime,
  several targets and targets of several words, questions for identifiers and dates
  (which `DocumentScopedValues` treats otherwise, `bounded_dspg.py:4509`),
  constraints beside the relation, the binder of conditions that share a context
  within one sentence, markers by which a document or the words of a row open a
  scope, words too common to seed an expansion
  (`IDENTITY_SINGLE_TOKEN_SKIP_TERMS`), discourse edges between sentences, metadata
  and arithmetic, the fallback of compound anchors, and two sentences of one
  document with the same text, which count once as evidence. No run checks that its
  rounds end, because the enabling condition of the ranking is too expensive to
  evaluate for fairness; their bound is proved.
- `ChunkDrs` leaves out `KMD_DRS_REFRESH_EMPTY_STRUCTURAL_LEGACY`, a change of
  the code between calls, and two processes that share the caches, where one
  could overwrite the accepted entry of the other with its failure; `QueryCalls`
  answers without a field that the response schema requires.
- `DrsIngest` leaves out planner batches, and one store used for two roots;
  `FrameLedger` two processes on one file, which could mix frames; `FolderIndex`
  legacy migration and the question path; `CacheFile` how a key is derived.

## The plan

Done, in the order of what the system depends on most: `DrsIngest`,
`FolderIndex` with `PublishedIndex`, `PublicApi` with `KnowledgeBase`,
`CacheFile`, `CacheConsolidation`, `ChunkDrs`, then the query side from the bottom
up, `QueryCalls`, `BoundedRecords`, `BoundedQuery`, `QueryEngine`, and
`FrameLedger`; the proofs of all of them. What is left:

1. The content pipeline: splitting and reducing windows (recursion that ends and
   covers every byte), embedding batches within the server's limits and in order,
   migration of a legacy database by two readers, evidence cut from a changed file.
2. `complete_json` with budgets, the stream's terminal states and structured
   retries; `ChunkDrs`'s and `QueryCalls`'s request as its abstraction.
3. DRS validation and repair as operators against reference definitions, and the
   packing of spans into chunks within a capacity.
4. The runtime configuration's cache, schema migration, the benchmark's resume.
