# Verification of the IDX disclosure digest

TLA+ models of `idx_digest` (`src/src/idx_digest`), the TLC runs that check
them on small instances, and proofs, checked by TLAPS, for every value of the
constants. Paths below without a directory are files of `src/src/idx_digest`.

`tlc -config <run>.cfg <module>` repeats a run, `tlapm <module>_proofs.tla` the proofs
of a module. `PROJECT.json` says which lines each definition stands for.

## 1. The system

The program collects the disclosures of the Indonesia Stock Exchange for an
interval of time, downloads and extracts their attachments, has an AI provider
summarise documents, announcements and companies, and records which intervals
are covered, so that the next run asks only for the rest.

| Component | State | Operations | Interacts with |
|---|---|---|---|
| Provider gate (`provider_gate.py`) | adaptive limit, active slots, healthy streak, waiting counters | acquire, record_success, record_failure | every request thread, by a monitor |
| Completion requests (`summarizer.py`, `gemini_summarizer.py`, `cloudflare_summarizer.py`, `ai_fallback.py`) | a semaphore per disclosure, attempts, shared cooldown and serial lock, the sticky fallback flag | one completion with its retries; chunks of a long document in a pool | gate, watchdog, provider |
| Network watchdog (`network_watchdog.py`) | offline flag | before_request, record_* | request threads |
| Global LLM scheduler (`llm_scheduler.py`) | queues by ticker and group, stage cursor, active counters, hooks in flight | submit, dispatch, done, wait, close | pipeline hooks, which submit again |
| Extraction scheduler (`extraction_scheduler.py`) | queues by ticker, active counters, backlog | submit (blocks), dispatch, done, wait, close | the pipeline's producer and hooks |
| Preparation pipeline (`pipeline.py`) | one plan per announcement, errors | plan the gaps, collect, prepare, extract, register, summarise, reduce, judge | both schedulers, database, collector |
| Interval coverage (`incremental.py`) | none: operators on closed intervals | normalise, subtract, contain | pipeline |
| Collector (`idx_client.py`) | the items of one collection, its diagnostics | page a query, by day, by ticker, by one wide page | pipeline |
| Checkpoint database (`db.py`) | texts, selection, summaries, announcements, coverage | one transaction each | pipeline, reducers |
| Daily source (`sources/idx_website.py`, `idx_polite_http.py`, `durable_checkpoint.py`, `daily_guardrails.py`) | seen ids and watermark, request budget, eligible set | list a window, order and stage the candidates, save what was finished | source ingestion, Synapse |
| Source ingestion (`source_ingestion.py`, `source_state_client.py`, `synapse_client.py`) | the run row and the status of each disclosure, both remote | run a window, recover a stale run, commit source state | remote API |
| Synapse publication (`synapse_pipeline.py`) | remote run and coverage | publish a window, judge it, commit it | pipeline, remote API |
| Recovery runner (`recovery_*.py`) | manifest, cached preflight, plan, staged files, remote records | preflight, refresh, claim, download, analyse, commit, read back, interrupt | Synapse, the daily collector |

What is hard here: a hook runs between two critical sections of its scheduler,
or inside the dispatch loop, and may submit; the last of several racing hooks
and the producer must go on; each error path has to return a slot and a
permit; what a partial or killed run stored decides what the next one
skips; and a remote call whose reply is lost may or may not have been applied. `PROJECT.json` lists every hazard at its line with the properties that
cover it, or the reason why none does. What would make each component correct:

* gate and requests: a slot and a permit are given back once on every path;
  foreground goes before bulk;
  everything ends; a throttled thread waits its time and sends alone; what is
  committed names the provider that answered;
* schedulers: each job and hook once and within the caps, no idle worker beside
  work, nothing left or cut off by wait and close, no lane or ticker starved;
* pipeline: an announcement is registered once, with all its texts; its reducer
  comes after its documents; a covered interval has complete summaries;
* coverage: subtracting loses no instant, a complete collection has every row, and a
  covered instant is never asked for again because its row is stored;
* daily collection: what counts as seen is analysed, the watermark passes
  nothing unresolved that it would ever stage, the backlog is served, dead runs are closed;
* publication: remote coverage is only committed for what is READY;
* recovery: a finished record is never taken back, a failed one is released, a
  run is called COMPLETE for good reason, an analysis uses every attachment.

## 2. Modules

| Module | Models | State and actions |
|---|---|---|
| `ProviderGate` | the monitor | its five fields; one operator per critical section of `acquire`, `record_success`, `record_failure` |
| `CompletionRequests` | the threads that use it | a label per thread; `TakePermit`, `Acquire*`, `Respond`, `Leave`, `ReleaseTyped` are the stretches of `_completion_once`, `_json_completion` and the subclasses' handlers |
| `ProviderResilience` | a document's calls when a provider fails, in a run with a deadline | a record per thread of the chunk pool, the shared cooldown, serial lock, watchdogs, fallback flag and label; one action per step of a request, `Analysed` and `CallFails` for the call |
| `JobPool` | what both schedulers promise | abstract: submit, start within the caps, finish, complete, close |
| `LLMScheduler` | `GlobalLLMScheduler` | queues, counters, cursor, and a stack for the owner of the re-entrant lock |
| `LLMSchedulerFairness` | the same, observed | a history variable over the dispatches |
| `ExtractionScheduler` | `BoundedExtractionScheduler` | as above, with the blocking `submit` |
| `PreparationPipeline` | `Pipeline.run` from metadata to verdict | the database, one run's memory, and the step each announcement's registration is at |
| `CoverageIntervals` | the algebra of `incremental.py` | operators; the loops are recursive functions |
| `AnnouncementListing` | one collection of `IDXClient` | the list the exchange publishes, as a set of rows with their positions, and a record `col` of lane, shard, page and items |
| `CoverageHistory` | the runs around them: `Pipeline.run`'s planning, filter and commit, and `SynapsePipelineRunner` | EXTENDS both; the database and Synapse survive, `run` is the process |
| `DailyCollection` | `idx-website daily`: CLI, source, ingestion, checkpoint | Synapse's rows, checkpoint and announcements survive; `pc`, `staged`, `eligible` ... are the process |
| `RecoveryRunner` | `RecoveryRunner.run` live, beside the daily collector | Synapse's rows and the files survive; cache, plan and position are the process |
| `..._proofs` | of eight of these | theorems and proofs; the inductive invariant is `IInv` in each (section 4) |
| `MC...` | | instances: who belongs to what, in which order jobs arrive |

How they fit together: `CompletionRequests` and `ProviderResilience` look at the same
threads, one at slots and permits, the other at what the provider does to a call.
`JobPool` is what `PreparationPipeline` assumes of its two pools and what the scheduler
modules are shown to implement. `PreparationPipeline` is, seen from
`CoverageHistory`, the one step in which a row gets its summary or fails, and
`CoverageHistory` owns the question which rows a run is given. `DailyCollection` and
`RecoveryRunner` write the same remote records; the second one carries the first one's
writes as the actions `Collector...`.

Definitions whose comment begins with "Mutant of" are plausible mistakes in the
definition that follows; nothing of a specification uses them. They serve to
see that each property notices one.

Choices that are not obvious:

* **Who releases the slot.** The outcomes of a request are sorted by what the
  code's handlers do with them. `Succeeded` covers a valid answer and one whose
  content is rejected after `record_success`; `Httpx` and `summary_error` are
  released in `_completion_once`; `Typed` pass it and are released in the
  subclass; `Unreleased` is a body that is not JSON. `stranded` counts the slots
  the last kind leaves behind. `Condition.wait(0.5)` re-tests its condition, so a
  waiter moves whenever the condition holds and notifications are not modelled.
* **The lock's owner.** `Future.add_done_callback` calls `_done` at once when the
  job has already ended. Then the completion, its hook and everything the hook
  submits and dispatches run inside the dispatch loop, under the re-entrant
  lock. The stack of frames is that nesting; other threads go on only where the
  lock is free, a running job needs no lock.
* **Selection as functions.** The search of `_next_job_locked` rotates the
  dictionaries as it goes; one that finds nothing brings them back to where they
  were, so a search is the first position that is ready and one rotation.
* **The pools inside the pipeline** are those of `JobPool`: jobs run once and in
  any order, a pool drains when its hooks have returned. Their caps are left
  out, which only adds behaviours.
* **Registration** is done without a lock and reads the database at different
  moments, so deduplication, registration and the queueing of the reducer are
  actions of their own. Extraction that yields nothing (returns None) counts as
  a failure but adds no error; extraction that raises adds one. Whether triage
  sends a `Routine` announcement to the direct path is a free choice. `PreparationFails` is any exception of the
  attachment loop, after the selection was stored; a reducer may fail before it saves its summary or after it.
* **A crash** keeps texts, selection, summaries and coverage and loses the rest.
  A partial run may be followed by another until `MaxRuns`.
* **A remote call** is answered, or its request is lost, or its reply is (`Replies`). `SynapseClient`
  repeats an idempotent call once, and a repeated call writes the same values, so these
  three are all that is left. Faults are counted, so that a run is not all failures.
* **Time** is a day in `daily` and a quarter of one in `daily_left_behind`, with the code's fallback, clamp and
  overlap rounded to that unit, an instant of the list in
  `CoverageHistory`, and one unit per deadline floor in `ProviderResilience`. Instants lie densely
  between two boundaries, so `CoverageIntervals` numbers boundaries by even and the segments
  between them by odd points: a gap that loses its boundary and one that loses a segment differ.
* **The list of the exchange** grows at its head while it is paged, so an offset shifts. Totals are
  true, too large or absent; a page may come back empty or capped. A server that
  under-reports its total is outside: no client could notice.
* **History variables** say what a process cannot know: `overtaken` (another writer came
  after the last look), `excused` (the status call was not confirmed), `unnoted` (the record after
  which an interruption left no error), `orphaned`, `unconfirmed`.

## 3. Runs

| Run | Shows | Bounds |
|---|---|---|
| `gate` | exact slots and permits, ramp on time, foreground first, every completion ends | 1 foreground + 2 bulk requests of one disclosure, 3 providers, 2 slots, 2 permits, 2 attempts |
| `provider` | true provenance, cooldowns kept, throttled threads post one at a time, every call ends | 2 calls of 2 chunks, 2 workers, 2 attempts, cooldowns of 1 or 2, deadline 5 |
| `llm_scheduler` | exact bookkeeping, no idle worker, no lane starved, `JobPool`, everything drains | two instances in one: 5 jobs, 2 of them submitted by hooks, in 3 arrival orders; 7 jobs of 3 lanes; 2 tickers and 2 workers each |
| `extraction_scheduler` | bookkeeping, no idle worker, ticker fairness, `JobPool`, everything is extracted | 6 jobs, 3 tickers, 2 workers, backlog 4, 1 per ticker, 2 arrival orders |
| `pipeline` | exact counters, whole evidence, single submission, nothing after the verdict, covered means summarised, every run judged | 2 announcements, 3 attachments of one of them, a duplicate, all faults, crashes, 2 runs |
| `coverage` | complete collections, stored rows, exact gaps, backed remote coverage | 4 instants, 4 windows that nest, touch, overlap or are an instant, 2 rows, pages of 1, probe of 2, 4 kinds of run, 2 runs, 1 fault |
| `daily` | seen is READY, one analysis, dead runs closed, backlog served, watermark resolved | 3 issuer disclosures, a row out of scope and one whose attachments the policy deselects, 4 days, fallback 1, clamp 2, overlap 1, checkpoint of 2 ids, 1 head and 1 oldest slot, 3 runs, 2 faults |
| `recovery` | finished records kept, failed ones released, COMPLETE means analysed (with one named exception), closed runs, whole analyses | 2 records, one with 2 attachments, 2 invocations, 3 writes of the collector, 2 faults |

The bounds are the smallest at which the cases differ: two slots so that a halved
limit differs from a decremented one and a ramp is possible; more requests than
slots, so that both classes wait; two jobs of a group and a hook that submits, so
that a completion can run inline inside a dispatch it causes; more tickers than
workers; seven jobs of the three lanes, more than one turn of the cycle of six;
two attachments in one announcement, so that the last hook is not the only one, and a
third that duplicates the first; two runs, so that one meets what a partial one left.
`Attempts` is 4 in the code; two attempts already have a first, a retried and a
last one. In `provider` two threads can be told different cooldowns, and a second call
finds the fallback of the first. In `coverage` a window and its neighbours share
boundaries, a row can arrive between two pages, and the second run starts from the
coverage of the first. In `daily` rows fall out of the window and come back into it, one id is forgotten (cap 2), the middle row of
three is neither head nor oldest, and a dead run is met by the next. In `recovery` one
record can fail while the other is finished, and the same manifest is run twice.

**Fairness.** `WF_vars(Next)` for gate, schedulers and pipeline: as long as some thread can move, one
does. It is weaker than fairness of each thread, which the operating system gives, and enough
because nothing there goes on for ever: retries are bounded, jobs and runs are finitely many, and
every other step brings its thread forward. That a thread which sends a request
or extracts a file does move again is the code's timeouts; a waiter re-tests its
condition every half second (gate) or fifth of a second (backlog).
`ProviderResilience` needs more, because a probe may fail without end: each thread, the
clock and the caller are fair, and a probe that is repeated succeeds in the end, since
`before_request` waits for connectivity and for nothing else. `CoverageHistory`,
`DailyCollection` and `RecoveryRunner` state safety only: their processes may be killed at any
step and nothing but the next schedule restarts them.

**Stopping.** These systems end: the modules with a liveness property have a `Terminated` step, or
a state in which the code has returned and the bound on runs is reached, and TLC's
deadlock check is off there because the liveness property says more: a system that
stops anywhere but in its final states violates it. In `gate` stopping short is also a
real behaviour (below), which `EveryRequestEnds` names. `daily`, `recovery` and `coverage` stop
when the bound on runs is reached.

### Violations: where the code and its documents disagree

* `gate_gemini_stranded` - a Gemini body that is not JSON passes every handler
  and its slot is never released. OpenRouter has the same hole; Cloudflare wraps the
  error, and there `NoStrandedSlot` is proved.
* `pipeline_document_lost` - a failed document does not stop its announcement's reducer;
  the retry finds a valid summary, skips the announcement, and covers the interval, against
  section 11 of `HOW_IT_WORKS.md`. `CoverageSound` is what does hold: without a lost hook, a
  covered interval has a summary of every announcement, with every summarised document.
* `recovery_guard_ignored` - when the refresh guard refuses a record because another writer
  has taken it, the error handler of the loop still writes PARTIAL over EXTRACTING or ANALYZING.
* `daily_left_behind` - the window is clamped to 48 hours, so holding the watermark back does
  not keep an unresolved disclosure discoverable, as `durable_checkpoint.py:35-37` says it does.

### Remarks

Met while modelling, each a behaviour of the models or a line next to them; no run is spent on
them.

Requests and providers:
* A thread that read `serialize` before the first 429 sends beside a serialized one, and a thread that
  sleeps does not see the cooldown extended meanwhile. So requests of different threads can
  overlap and fall into another thread's cooldown, which "serialized and share a
  provider-directed cooldown" (docstring of `GeminiSummarizer`) does not suggest; what does hold is `OwnCooldownKept`.
* `before_request` waits for a probe and does not look at the run's deadline. With the
  fallback class transport errors become `RetryableAIProviderError`, and `record_failure` is not
  called for them.
* After one chunk has failed, queued chunks are still sent to the failing primary before the fallback
  is activated.
* httpx timeouts are per phase; a post can outlast the timeout computed from the deadline.

Pipeline:
* An exception in a completion hook is only logged (`llm_scheduler.py:266`,
  `extraction_scheduler.py:229`): the run is judged clean and covers the announcement nobody
  finished. The model has the step (`CallRaises`), and `CoverageSound` excludes it by `lost`; what is left
  of a run with a lost hook is that it ends and that its counters are exact.
* An audit run that dies between a document and its reducer leaves an announcement summary that the
  next audit takes for current (`pipeline.py:409`). The runs of `pipeline` are incremental and do not
  show it.
* The rotation of the tickers in the LLM scheduler is shared by the lanes, so within one lane its
  "ticker-round-robin" can serve a ticker twice while another one waits. `LaneGap` is about
  stages, `TickerFair` about the extraction scheduler, whose tickers have one lane.

Coverage and publication:
* A row stamped at or before a covered instant but listed later is never fetched: the overlap asks
  for its day again, and the filter drops it as covered. The model's rows are stamped when
  they are listed.
* The stock master filters rows; a row filtered with a stale master is inside a covered range.
* A row whose timestamp does not parse keeps its range uncovered for good.
* A Synapse run that republishes an overlapping window sets READY rows back while it works on them.
* A row that lost its summary inside a locally covered window is not retried, and every Synapse run of
  that window stays PARTIAL.
* If the verdict call fails, the run stays RUNNING; if the reply to the coverage commit is lost, the
  coverage is committed and the run PARTIAL.

Daily collection:
* The watermark passes an issuer's row of whose attachments the policy selects none (`idx_website.py:599`): it is
  skipped on every run, never stored, and no error or count of unresolved rows speaks of it. `WatermarkResolved`
  names such rows (`PassedOver`) beside those out of scope.
* The recovery lane is formed before the scope filter, so rows that are out of scope or
  without an attachment occupy its slots.
* A run row that is created and not registered stays RUNNING, since only the latest attempt is looked at.
* A lost reply to `commit_analysis` makes the run write PARTIAL over READY; the disclosure is
  analysed again (`AnalysedOnce` names this case).
* A budget snapshot taken after the run was closed can still turn it FAILED.
* `README.md:257` and `docs/IDX_WEBSITE_COLLECTOR.md:29` say that processing-partial runs never advance the
  checkpoint; they do save the ids of what they finished, which `SeenAreReady` shows to be safe.

Recovery:
* An interruption that comes when the result of a record is already kept, while it is shown to the caller's observer or
  before the record is let go, notes no error (`recovery_runner.py:1134`): the run is closed COMPLETE although the
  records after it were not attempted. `CompleteMeansAnalysed` names them by the history variable `unnoted`;
  without the exception it is violated.
* A record left ANALYZING by an interruption cannot be named by a manifest (`PendingStatus`), though
  the comment at `recovery_runner.py:1100` counts on a fresh preflight to resume it.
* A row whose file is not on this machine counts as missing in the plan but is not in the queue of
  `prepare_source`, so such a record fails on every run (`QueueExhausted`).
* A raw file without its text, a PARTIAL record with an analysis, and a lost reply to the first
  EXTRACTING write each leave a record that recovery does not finish.

## 4. Proofs

What TLC checks on an instance, the modules `*_proofs` prove for every value of the constants
that satisfies the assumption of the module. Those assumptions say what the code takes for
granted of its configuration (a pool has a worker, a cap is at least one) and that sets of jobs,
attachments or disclosures are finite, without which a count means nothing.

Every module has the same shape. The invariant one wants is not inductive, so `IInv` adds what it
rests on; one lemma per action shows that the action keeps `IInv`, with a step for each conjunct it
disturbs; `Invariance` is `Spec => []IInv`; the other theorems follow from it. Facts about the
operators of the model (a rotation, a search, an element that joins a finite set) are lemmas at the head.

| Module | Theorems | Stated properties |
|---|---|---|
| `CompletionRequests_proofs` | `TypeCorrect`, `SlotsAccounted`, `WaitersAccounted`, `PermitsAccounted`, `RampsOnTime`, `CloudflareStrandsNothing`, `ForegroundGoesFirst` | all of `gate` but `EveryRequestEnds` |
| `ProviderResilience_proofs` | `ProvenanceIsTrue`, `CooldownsAreKept`, `ThrottledThreadsSendAlone` | all of `provider` but `CallsEnd` |
| `LLMScheduler_proofs` | `BooksAreExact`, `NoIdleWorker`, `NoLaneStarves`, `ImplementsJobPool` | all of `llm_scheduler` but `Drains` |
| `ExtractionScheduler_proofs` | `BooksAreExact`, `NoIdleWorker`, `NoTickerPassedTwice`, `ImplementsJobPool` | all of `extraction_scheduler` but `Drains` |
| `PreparationPipeline_proofs` | `CountersAreExact`, `EvidenceIsComplete`, `VerdictComesLast`, `CoveredIsSummarised`, `CoverageIsSound`, `NothingSubmittedTwice` | all of `pipeline` but `RunEnds` |
| `DailyCollection_proofs` | `SeenIsReady`, `AnalysesAreOnce`, `DeadRunsAreClosed`, `OldestIsServed`, `WatermarkIsResolved` | all of `daily` |
| `CoverageHistory_proofs` | `ListingIsComplete`, `CoverageIsStored`, `GapsAreExact`, `RemoteIsBacked` | all of `coverage` |
| `RecoveryRunner_proofs` | `RecordsAreReleased`, `CompleteIsTrue`, `RunsAreClosed`, `ReadyIsKept`, `AnalysesAreComplete` | all of `recovery` |

**Requests and gate.** `IInv` is the conjunction of the five invariants, none of which is inductive
alone: that `active` stays below the configured maximum needs the admission test and the range of
the limit; that the clamp `max(0, active - 1)` never acts needs `SlotAccounting`, whose set `Holding`
counts the threads past their request that still own a slot; that the clamps of the waiting counters
never act needs `WaitersCounted`. `ForegroundGoesFirst` follows from `WaitersCounted`, since the gate
tests a counter and the property speaks of threads.

**Provider failures.** The provenance rests on the pool being joined before the fallback is called:
`Quiet` (only the call under way has threads at work) and `CombinesLast` (the combination starts when
every chunk is done), with which `Labelled` is inductive. `Shielded` follows one
cooldown from the reply that announced it to the shared deadline, the sleep and the post, which is
`OwnCooldownKept` at the last of these places. `LockHeld` needs `Routed`: only Gemini
threads reach the lock. `Serialized` follows a throttled thread from the cooldown it was told to its next post; with `LockHeld`
it is `ThrottledSendAlone`: that thread posts as the one holder of the lock.

**Schedulers.** `IInv` is: the types; what the counters and queues stand for (`Books`; `CountsExact`
and `QueuesExact`); what is still to be submitted is new, for the LLM scheduler also to its hooks
(`Arriving`); what wait has seen stays so (`Finished`); `WorkConserving`; and `Stacked`, that at the
bottom of the lock owner's stack there is a dispatch loop. `Stacked` is why `WorkConserving` is
inductive: a job that has ended by the time its callback is registered is completed inside the dispatch,
and the stack can only become empty through a loop that has found nothing ready. That no cap is exceeded
is part of the types; the invariant has to know that a counter is a cardinality for it to go down again.

* `NoTickerPassedTwice` needs `Ordered`: whoever has been passed once stands before the one that passed
  it, and the search takes the first.
* `NoLaneStarves` strengthens `LaneGap` to a bound that depends on the cursor (`GapBounded`): a stage that
  has been ready throughout has been passed over at most as often as there are turns of other stages between
  its own last turn and the cursor. A dispatch goes to the first ready stage from the cursor on, so it
  passes no turn of a ready one, and moves the cursor at least one turn further. The proof goes through the
  cycle of six turns as it is, as the weights are constants of the code.
* `ImplementsJobPool` is a refinement: each action of the scheduler is the pool's submit, start, finish,
  complete or close, or leaves the pool as it is. `Start` within the caps comes from the counts after the
  step, `Close` from `Finished`.

**Pipeline.** The invariant is one conjunct per announcement, `Consistent(a)`, and `MainOrdered`; an action
touches one announcement and a frame lemma does the rest. `StagesOrdered` and `CallerPlaced` say that one
hook, or the producer, is in the middle of an announcement, and where: this is why it is registered once.
`PlanExact` relates the texts to what is prepared and `ClosedWatched` says that a closed plan still has
someone to look at it. `Summarised` is the argument for covered intervals: an announcement whose plan has been queued, and
which has raised no error and lost no hook, has work left or a summary. `SummarySound` adds that this
summary accounts for its documents; it holds for incremental runs, and `CoverageIsSound` says so by its
assumption `Mode = "incremental"`, because in an audit it is not inductive: an audit that fails between a
document and its reducer leaves a summary that a later audit keeps (`pipeline.py:409`). What holds in both
modes is `CoveredIsSummarised`.

**Coverage.** The proof is in three layers, and no step of a run looks into the two below it.

* Intervals. A recursive function is unfolded one step at a time (`Iterated`), and `Steps`, which rests on a
  least element, carries a fact from one step to the last. `Normalized`: the sorted, merged ranges have the same points and stand apart.
  `CursorPasses`: behind the cursor every point that was asked for lies in a gap or in a range, and a gap meets no
  range but at a boundary. `Subtracted` is both at the end of the scan, for any finite set of ranges.
* Listing. `Passed` is the heart: every row that was due and stands at or before the offset has been seen. It
  survives a list that grows at its head, since a row due then only moves back, so the next page may repeat
  rows and cannot skip one (`PublishHolds`). `Placed` and `Gathered` carry it over lanes, days and
  tickers: what lies behind the collector it has, or the day is counted as short and the collection is
  not called complete.
* Runs. `Reading` says of each gap that it is still to be asked for, or that its rows are in hand, or that the run knows it
  is not complete; with `LastKnown` (a migrated report proves nothing beyond its poll) and the facts about intervals,
  `CoveredRowsStored` is inductive: added ranges were collected, filtered rows were covered before or are stored.
  `Published` does the same for Synapse: a run that is still clean has its whole window covered, and
  what it has no more to do is READY. `RemoteIsBacked` is a property of the step, because a later run may
  set rows of a committed window back.

**Daily collection.** `SeenAreReady` needs that no run takes a READY disclosure in hand again: the ids
staged are not among those seen (`MemoryFresh`), an eligible one is READY and is not processed unless the
upsert found it so (`InHandTaken`), and an analysis confirmed once leaves its row READY (`NothingReset`).
`Resolved` carries the watermark from the listing, through the staging, to the commit. `DeadRunsClosed`
speaks of all runs and the code of the latest attempt only: `LatestChecked` carries that check to the row
created after it. `BacklogServed` is kept as it is.

**Recovery.** `CacheSound` and `PlanSound` say what a cached preflight and a plan still tell when they are
used: an analysis that was there is still there; the count and the queue were made of the same files. `Owned` is what the process knows of the record in hand while nobody
else has written to it; with `Released` it gives `FailureReleases`. `Positioned` has the count of texts
against the count of the plan and is what `AnalysesAreComplete` needs. `CompleteIsTrue` rests
on a conjunct that says of a run about to close without an error how far it got: past its last record, or to the
one whose result was just kept, which is then analysed. `GuardHolds` is the finding of
`recovery_guard_ignored` and cannot be proved.

Some definitions are written so that they can be reasoned about: a selection from a sequence
(`Keep` in `DailyCollection`), a sum over queues (`Places` in `ExtractionScheduler`), a record that is changed
in one field; the sort and the two loops of `CoverageIntervals` as a chosen sequence and recursive functions; the exchange's list as
a set of rows with positions. The prover cannot instantiate the induction theorems of its library, which take an operator;
where a sequence has to be searched the proofs use a least element of a set of natural numbers instead.

**Only model-checked.**

* Liveness: `EveryRequestEnds`, `CallsEnd`, `Drains` of both schedulers, `RunEnds` of the pipeline. It is out of the prover's reach, as is ENABLED.
* The properties of the runs that expect a violation.

## 5. Not modelled

Data and text (prompts, schemas, parsing, classification, mapping to the Synapse contract) is abstract: its
results are constants or choices. Telemetry, exports and user interfaces change no decision.

* `pipeline.py`: the reducers of company windows; the iterator branch for clients without
  `collect_announcements`; `db.py`: watermarks (recorded, not read where coverage exists) and with them
  reports older than explicit coverage; company summaries and exports.
* `summarizer.py`: streaming responses, the cache of chunk summaries. `ProviderResilience` is about runs with a
  deadline and a configured fallback.
* `idx_client.py`: the browser transport, pacing and downloads.
* `source_ingestion.py`: coverage of authoritative sources, which the daily source never claims.
* `daily_guardrails.py`, `synapse_runtime.py`: the counters of the budgets; running out of one is a failing step.
* `recovery_runner.py`: dry runs, the snapshot store, caps other than source requests, rows downloaded
  but not extracted (the collector writes a row when it has extracted).

Components without a module are listed with the reason in `PROJECT.json`.

## 6. Plan

Done, in this order: 1. `ProviderGate`, `CompletionRequests` and the proofs; 2. `JobPool`,
`LLMScheduler`, `LLMSchedulerFairness`, `ExtractionScheduler`; 3. `PreparationPipeline`; 4. `CoverageIntervals`,
`AnnouncementListing`, `CoverageHistory`; 5. `DailyCollection`; 6. `RecoveryRunner`; 7. `ProviderResilience`.

Proved, in this order: `CompletionRequests`, `PreparationPipeline`, `DailyCollection`, `RecoveryRunner`,
`ProviderResilience`, `ExtractionScheduler`, `LLMScheduler`, `CoverageHistory`. Every safety property of the
runs that pass is now stated by a theorem.

Worth proving next: that the collector's own promise, `ListingComplete`, is all `CoverageHistory` needs of it,
as a refinement of an abstract collector; that `DailyCollection` and `RecoveryRunner` move a record only along one abstract life of it.

Left to model: company windows, composed with the pipeline, and the chunk cache.
