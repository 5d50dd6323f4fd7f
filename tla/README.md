# Pinegraf: verification project

Pinegraf crawls web sites and seed files, stores what it fetched, parses the
fetched pages into documents, extracts claims from them with a language model,
and serves the resulting graph through a FastAPI application. This directory
holds TLA+ models of its pipeline, the TLC configurations that check them on
small instances, and TLAPS proofs about the core for every value of the
constants. Paths below are relative to `src/`.

## 1. Inventory

Long work runs outside the API. An admin request inserts a `source_runs` row and
starts a Cloud Run execution; the execution reads the row, works for minutes to
hours, and writes progress and a final status into the same row. Nothing but the
PostgreSQL database connects the parts, and (almost) every access is a transaction
of its own, so **any two parts interleave between any two database accesses**. The
transactions are READ COMMITTED: one that loads a row and writes it back is two steps, and
the ORM writes the columns that it found changed, no others.

| Component | State | Operations | Hard part | Correct when |
|---|---|---|---|---|
| Run life cycle (`main.py`, `jobs/run.py`, `ingestion/orchestrator.py`, `maintenance/reconcile.py`) | `sources.status`, `source_runs` (status, finished_at, execution), Cloud Run executions | crawl, parse, resume, pause, delete, launch, job start and end, retry, stale-run sweep | requests await Cloud Run between transactions; executions are retried, killed, cancelled late; jobs write statuses blindly | one active run per source and kind; `finished_at` tells what has ended; ended jobs free their slot; final statuses final |
| Sitemap crawl (`ingestion/runners/sitemap.py`) | queue, `seen`, reserved and stored counters, worker tasks, run row, fetches | seed the queue, fetch, follow links, stop, join, conclude | asyncio workers, cap under concurrency, termination detection, rare looks at the row, a worker that dies | cap and counters hold; each page asked once; a stop is noticed soon; the crawl ends |
| Parse pipeline (`parse/`, `normalization/`, `extraction/runner.py`) | frozen scope, `documents`, `document_fetches`, `claims_raw`, `extractor_runs` | freeze scope, normalize, link, extract, complete | other parses and crawls meet in the same documents; awaited model calls between reading and writing; stop, failure and retry half-way | one document per fetch; frozen scope; nothing dropped or paid for twice |
| Fetch store, hash-diff (`db/store.py`, `ingestion/runners/seed.py`) | `fetches`, `sources.pages_fetched_total` and `urls_known_total` | add a fetch, compare with the previous one, refresh counters | two crawls compare with the same row; denormalised counters drift | unchanged bodies resolve; counters agree after maintenance |
| Maintenance, integrity (`maintenance/`) | the same tables | sweep stale runs, delete dangling links, correct counters, report | runs beside everything else | repairs only what is broken, converges |
| Source deletion and graph (`web_api.py` 894-1117) | sources, runs, fetches, documents, claims, evidence, entities | delete a source, a document | shared documents are repointed; the check for active runs comes first | no dangling row, nothing shared is lost |
| Identity review, conflicts (`web_api.py` 1141-1600) | candidates, entities, aliases, mentions, claims, conflicts | merge, split, defer, alias, verify, resolve | sequences of merges, two reviewers at once | no merge into a merged entity, no alias twice |
| Seed and enrichment runners (`ingestion/runners/`) | run row, fetches, cost | read rows, look people up at PDL | never look at their row again | partial failure is counted |
| Progress stream, live logs (`progress.py`, `live_logs.py`) | last signature; log cursor and `seen` | poll and emit | order of stats and status; late commits | the last event is final; no line lost or repeated |
| Fetcher, robots cache (`ingestion/fetcher.py`) | parser cache, load locks | double-checked load | locks dropped while awaited | one load per origin |
| Read API, ask, search; auth; helpers; schema; frontend; infrastructure | - | read-only, stateless or deployment | - | - |

`PROJECT.json` lists every component with its status, and under `hazards` each
place that a test would hardly reach, with the property that watches it.

## 2. Modules and plan

| # | Module | Question | State |
|---|---|---|---|
| 1 | `RunSlots`, `RunLifecycle` | who may be active, and do statuses stay true | checked; types, safety (with stranded runs) and refinement proved |
| 2 | `SitemapCrawl` | does the worker pool keep its limits and end | checked; types and all safety proved |
| 3 | `ParsePipeline` | does every fetch reach its claims once | checked; types and all safety proved |
| 4 | `FetchStore`, `Uploads` | counters, full recrawls, the file behind a source | checked; types, counters, full recrawls and the file proved |
| 5 | `KnowledgeGraph` | deletion against referential integrity; merge chains, aliases, double decisions | checked; types and all safety proved |
| 6 | `RobotsCache` | one load of robots.txt per origin | checked and proved |
| 7 | `ProgressStream`, `LiveLogs` | last event, log cursor | checked; last event proved |
| 8 | `SchemaMigrations` | what up- and downgrades refuse, rewrite or lose | checked; both invariants proved |

`MCUpkeep` composes the two halves of module 4, `MCServices` the four parts of 6 to 8;
these parts share no state, so each has behaviours of its own, chosen in `Init`, and
nothing is multiplied. The other MC modules only give the constants.

How the modules meet: each abstracts what another one treats in detail. `RunLifecycle`
has the rows and jobs of every kind; `SitemapCrawl` is the inside of its sitemap job,
`FetchStore` of its seed and enrichment jobs, `ParsePipeline` of its parse job. There the
row of the run is written by others in any way `RunLifecycle` allows: it is stopped, swept,
deleted at any time. `KnowledgeGraph` takes what crawls and parses store as single commits.

What a later version could add: for `ParsePipeline`, the abstract pipeline in which each
fetch moves pending, linked, extracted in single steps, and its refinement.

## 3. `RunLifecycle`: requests, jobs and maintenance

`source` and `run` are the tables, `handler` one admin request in progress per API
worker (up to four instances, `infra/gcp/provision.sh`), `job` one execution per run,
`sweep` what maintenance has loaded. Each action is one transaction or one Cloud Run call,
but a transaction that rewrites a status is two: the SELECT (`LoadForWrite`, `LoadRow`,
`FindStopped`, `FindStalled`) and the commit. `Changes` says which columns differ from what
was loaded: a final status brings a new `finished_at`, running clears it if it is set,
stopped keeps it if it is set, superseded leaves it alone. `Written` is the row after the
commit of those columns, over whatever others committed since, and `Refused` what raises
there (the row is gone, or the index has another active run).

* Requests: `CrawlRequest`/`ParseRequest` insert the row (`create_source_run`),
  `FindStopped` and `SupersedeStopped` are the transaction after it, `Launch`,
  `RecordExecution`, `LaunchFailed` are `execute_cloud_run_job` and its error path.
  `StopRequest`, `CancelExecution`, `MarkStopped` are `_stop_run` around its await: the
  status it read is used after the await, when a second session loads and writes the row. `DeleteRequest`/`DeleteSource` are the check and the
  delete. Between any two of them the API instance may crash.
* Jobs: one control path per kind as the runners and `run_from_env` have it, with a
  blind first write (`Start`), looks at the row where the code looks (seed and enrichment
  never do), the final write, and the re-raise. `Items` is the work left on entering "work".
* Platform: `Kill`, `Retry` (`create_jobs.sh` leaves max-retries at its default). An
  exception outside every try also ends the task and leaves the row as it is: that is how a
  database error at `patch_source_run_spec` (`jobs/run.py:60`), which follows the first write
  and precedes the try, appears here, as a `Kill`. Other errors of the database itself are
  not injected into jobs; a request's are in `HandlerDies`.
* Maintenance: `Elapse` lets a running row become stale; `FindStalled` and `Reconcile` fail it.

Properties: `OneActivePerSlot` (index `ix_source_runs_one_active_per_source_kind`
against every blind write), `FinishedTold` (below), `GoneTogether` (no row outlives its
source), `EndedJobSettles` (an execution that ends by itself leaves its row
inactive), `StrandedOnlyByCrash` (a queued run without a job comes from an API crash
only; maintenance never heals it, as it looks at running rows alone), `RunningEnds`.
`RunSlots` is the abstract promise: each (source, kind) slot is entered only when
empty; `ImplementsRunSlots` is the refinement, where one step may take occupants of
several slots away (maintenance, deletion) but brings in one at most.

`finished_at` is *not* set exactly when a run is inactive. A job that has loaded a queued row,
where the column is NULL, writes the status alone; when a stop commits in between, the row is
running with the stop's `finished_at`. And a resume that has found a run stopped writes
superseded alone; when the late job of that run has cleared the column in between, the row is
superseded without it. `FinishedTold` is what remains: a row that no job has started
(`started`, a history) has `finished_at` exactly when it is inactive, a queued row never has
it, a complete or partial one always.

Fairness: the maintenance job runs every six hours (`docs/maintenance-schedule.md`),
hence WF(`FindStalled`) and WF(`Reconcile`); time passes, hence WF(`Elapse`). No request and no job is fair:
anything may die. That, with WF of both halves of the sweep, is enough for `RunningEnds`.

Left out: the inline job backend, audit rows, stats, rate limit and validation.
Stopping an inactive run is a stuttering step; a stop un-archives the source
(`MarkStopped`), as in the code.

### Proofs

`RunLifecycleProofs`: `TypeCorrect` (`Spec => []TypeOK`), by `Typed`, which adds to
the types what each stage of a handler or job knows (which run it holds, that the row
existed). Safety takes two moves. First the lemma `StepEffect`: under `Typed` each
step does to each row one of four things (leaves status and `finished_at` as they are,
commits a pending write, removes the row with its source, inserts it in a free slot); it is
proved action by action, and `StatusEffects` says of a commit whether it keeps, ends or starts
the run. Then each invariant follows from the effects alone. The inductive invariant is

    Safe == Typed /\ OneActivePerSlot /\ FinishedTold /\ WritesOK /\ GoneTogether
            /\ Fresh /\ FinalOK /\ EndedJobSettles

The parts that no run checks speak of what is *pending*, loaded and not yet committed.
`WritesOK`: the columns a pending write leaves out are right for any status the row can have
by then (a final status comes with `finished_at`; one that would leave a never started run
without it cannot be pending). `FinalOK`: a final write that leaves the status alone found the
run ended, and only its own job would have started it again. `Fresh`: a row that does not exist
yet has no job. Theorems: `NeverTwoActive`, `FinishedKept`, `DeletedTogether`,
`JobsSettle`, and `SlotsImplemented` (`Spec => ImplementsRunSlots`). `StrandedByCrash`
(`Spec => StrandedOnlyByCrash`) asks who drives a queued run: at its creation the request
that holds it (`QueuedByCreation`), from the launch on a job (`RequestDrives`), which goes on
until it writes the row (`JobEnds`); only a crash of the API takes a driver away without
giving the row to the next one (`DrivenOn`); that a refused supersede does not, `Buried` and
`Siblings` show: it is refused only when the source is gone, and the new run with it.
Assumptions: the ASSUMEs of `RunLifecycle` (the kinds and statuses are the code's, `None` is no
source or run, the bounds are natural numbers); the number of sources, runs, handlers, items
and retries is arbitrary. The liveness property is model-checked only. The types are not
an invariant of any run: `TypeCorrect` proves them.

## 4. `SitemapCrawl`: one execution of `run_sitemap`

The site is chosen in `Init` (links, redirects, unreadable sitemap, links that do not
parse, pages that fail); `worker`, `queue`, `unfinished`, `seen`, the counters and
`main` are the coroutines' variables. An asyncio coroutine runs until it awaits
something that is not ready: the locks are held across no await and the semaphore has
as many permits as there are workers, so a worker yields only at pacing, robots,
request, and an empty queue. Pacing is a wait of its own (`pc = "pace"`): `Fetch` takes an item
and reserves its slot, `Send` is the request once the host's turn has come
(`wait_for_host`), with no further look at the stop or at the row. `loop` names the coroutine that has the event loop; only
other processes (a stop, a deletion) act between its database accesses. The queue is a
set, which covers every order.

Properties: `Accounted` (the reserved slots are those of the busy workers, and join()
waits for the queue and what they hold, over every exit of the worker's loop),
`StoredWithinCap` (a worker that died after its write leaves one page uncounted), `AskedOnce`, `InDepth`,
`ConcludedIsClosed` (join does not return early), `LittleAfterStop` (after a stop fewer pages
are *taken* than the interval between two looks at the row; the requests *sent* may be more by
one for each worker that was asleep in pacing; one fetch at most is stored, whatever the
number of workers), `CrawlEnds`. A malformed link or
a database error ends a worker's task (`StoreMalformed`, `Fault`): with all of them dead
and items left, `queue.join()` waits until the platform's timeout, which `CrawlEnds`
names as its only exception. Fairness: the event loop runs what is ready, and requests
time out (30 s).

Left out: the length of the pacing delays, progress numbers, URL canonicalisation (data of the site), and
the retry of a killed execution, which starts with an empty `seen`.

### Proofs

`SitemapCrawlProofs`, for any number of workers, any sites, caps and intervals. `Pool`
(types, who holds the event loop, where a URL can be, `AskedOnce`, `Accounted`) is
inductive: it is proved once per way a worker's step can end (an item dropped, a fetch
begun, an answer kept, a page stored, a slot released), and `WhoReleases` shows that every
other exit is a release. The rest adds an invariant of its own to `Pool`:

* `PagesWithinCap`: between the count of a page and the release of its slot the page
  counts twice, so `Within` allows `fetched + reserved <= Cap + 1` while one worker
  reports, and `StoredWithinCap` follows as that worker still holds a slot.
* `StopsSoon`: `LateInv` bounds the pages taken late by the calls since the last look
  (`lateTaken <= checks` while the stop is unnoticed), the late requests sent and still to be sent
  by the workers (`lateAsked + Cardinality(Pacing) <= lateTaken + Cardinality(Workers)`), and
  says that after the late fetch nobody is between a look and a write.
* `ConcludesClosed`: `Spread` says that everything seen was asked for or is queued, and
  that the links of stored pages were seen; with `Pool`, nothing unfinished means nothing queued.
* `StaysInDepth`: `InDepth` speaks of `WithinLinks`, a recursive function, whose value is
  shown to exist first: it is the function of the pages at the ends of paths
  (`LinksFollow`), and it grows with the number of links (`LinksGrow`, by a least
  counterexample, as nothing here proves by induction). `DepthInv` then gives every queued
  and every held URL a depth its path allows.
* `TypeCorrect`: `Facts` joins what the others know of the types with the row of the run.

Assumptions: `CrawlBounds`, `SiteAssumption` (a depth limit is at least 1, the check
`ck_sources_crawl_depth` of `models.py`; with 0 the sitemap's own pages would be beyond it),
`NoneNotUsed`, and `FiniteAssumption` (a pool, a sitemap and a page's links are finite
sets). `CrawlEnds` is a liveness property: model-checked only.

## 5. `ParsePipeline`: from fetches to claims

`log` is the 2xx fetches in order of `fetched_at`; a fetch without a body points to an
earlier one with `since` (`body_unchanged_since`). `ReadPage` and `StorePage` are the
hash-diff lookup and the insert, apart because two crawls of a source can overlap.
`docs`, `links` and `batches` are documents, `document_fetches` and committed
extractions. A document's identity is its content and how often the document of that content was
deleted before, so a job may hold the id of a deleted document next to its successor.

A job goes through `Launch` (blind running; the snapshot is taken once, and a retry that
finds it in the row's spec keeps it),
`Freeze` (the pending scope), per fetch `Load`, `Create`, `Link`, `Tick`, then `Pick`
(documents normalized by this run that have no claim), per document `Extract` and
`Extracted`, then `Finish` and `Complete`. `Tick` and `Extracted` look at the row;
a run no longer active goes to `Close`, where `run_from_env` completes anything that is not
exactly stopped. `ModelFails` and `Fail` are the exception path, `Kill` and `Retry` the
platform. `Request`, `Pause`, `Sweep` and `DeleteDocument` are the other actors; the
finer steps of the first three are in `RunLifecycle`, here each is one step, and a
queued and a running row are both `active`.

`RecordExecution` is the merged write of a run's spec (`patch_source_run_spec`) by the
request that started the execution. It reads the spec and writes it back with the
execution's name; when the job records its snapshot in between, the snapshot is gone from
the row. The running job keeps it in memory (`job[p].snapshot`), but a retry finds none and
takes a later one. Every other order of the two writes leaves the snapshot alone (what it
may lose is the execution's name: `RunLifecycle`), so the action is this one alone. `Late`
bounds the runs it may happen to; `first` and `erased` are histories, the snapshot of the
first try and whether it was lost.

Properties: `OneDocumentPerFetch`, `ScopeNormalized` (past normalization every fetch of
the frozen scope has its document, unless an admin deleted it: a link that fails is
swallowed), `LinksWithinSnapshot` ("concurrent crawl output waits for the next parse",
`docs/reliability-design.md`: a run links nothing later than the snapshot of its first try;
excepted are the retries of a run that lost it to `RecordExecution`, as these do link what
crawls stored after the parse began: without the exception TLC finds such a run, killed once),
`UnextractedIsExplained` (a document never extracted is in a running job's hands, or was
in the hands of one that did not get to its end), `ExtractorRunSettles`,
`PaidOncePerRun` (retries do not store a document's claims twice),
`UnchangedBodiesResolve`, `ParseEnds`. `PaidOncePerRun` counts stored extractions: a call of
the model whose execution dies before the commit is paid for and not counted. It is checked in
`parse_retry`, with one run: that two runs of different sources may choose the same document
before either stores its claims, and both store them, is allowed by the property (it bounds the
extractions by the number of runs) and covered by its theorem, not by a run.

Fairness: a job that is not killed goes on, as the model clients answer or time out.

Left out: scope `fetch_ids` (a subset of `all`), `parse_skip_reason` (no code writes it),
non-2xx fetches, deletion of a source during a parse (section 7), progress numbers, and
the skew between `fetched_at` and the order of commits (a row committed after the freeze
with an earlier time simply waits for the next parse).

### Proofs

`ParsePipelineProofs`, for any number of runs, pages, contents, deletions, kills and
retries, from `PageAssumption`, `BoundAssumption` and `NoneAssumption` (the null value is
no status and no document). `ParseInv` has three parts. `StoreFacts` is about the rows:
links join existing documents with existing fetches of the same content, and a content has
one document. `Snapshots` is inductive by itself (`SnapshotStep`): a job's snapshot is the
run's first one unless the row lost it, which is what the freeze starts from. `JobFacts(p)` is what the job of a run knows: its frozen fetches are of its
source and within its snapshot, and those no longer to do are done (`Done`: linked, or an
admin deleted a document of that content). Other actors change rows in three ways only, a
fetch, a document with its links, a deletion, and each leaves done what was done (`Grows`,
lemmas `LogGrows`, `LinkingGrows`, `DeletionGrows`); so by `FactsLast` only a job's own
steps can disturb what it knows, and the proof has one lemma per step. `Least` is the fact
that a set of fetches has its minimum, on which `Current` rests. The theorems are
`OneDocumentAlways`, `ScopeIsNormalized` and `SnapshotsHold`.

`BodiesResolve` needs what crawls know, not jobs. `LogInv`: each row of the log, and each row
a crawl is about to write, names an earlier fetch of its page with the same content, or has
a body. `UnchangedBodiesResolve` follows the chain by the recursive function `BodyOf`; its
value exists because rows name earlier rows, and the first row for which the chain went
wrong would name an earlier one that goes wrong. `TypeCorrect` collects the bounds the guards
keep (`TypeInv`).

`ParseExtractionProofs` builds on it: `ExtractInv` adds `DocFacts` (a document carries the
number of deletions before it, so one that was deleted, `Old`, never comes back under the
same identity) and `ExtractionFacts(p)`: of the documents a job normalized and that still
exist, each is in its queue or has been extracted once it asks the model, and all have been
once it finishes. Without `Old` this is not inductive: a document made by another job
could be one that this job already counts. The theorems are `NoneForgotten` and
`ExtractorRunsSettle`. `PaidOnce` counts: `PaidInv` says of each document that leaves claims
that the extractions stored and the runs that have it in their queue are together no more
than the runs requested. Storing claims moves one from the second number to the first, and once
there are claims no `Pick` adds to the second.

## 6. `FetchStore` and `Uploads`: a source that is a file

`FetchStore` follows one seed or enrichment source. `job` is each run's process (next row,
number of pages modulo the refresh interval, whether something was missed, what it counted
and which columns it is about to write), `fetches` what each run stored, `stored` the two
denormalised counters, `upkeep` the maintenance job. A transaction at READ COMMITTED is a
step per statement: `CountPages`, `CountKnown`, `LoadRow`, `CommitCounters` are
`refresh_source_crawl_counters`; `ReconcileOpen`, `ReconcilePages`, `ReconcileKnown`,
`ReconcileCommit` are `reconcile_source`, which loads the row before it counts. The ORM
writes the columns that differ from what was loaded (`dirty`). `Visit` is one row of the
file with its request, `Die` and `Retry` the platform, `Stop` and `Delete` the API.

Properties: `NeverOverstated` (whoever wrote last and however long ago it counted, the
counters promise no more than the fetches hold), `RecrawlEarned` (a run marks its source
fully recrawled only when it holds an answer for each row, after any number of retries),
`CountersSettle` (when the runs are over maintenance brings the counters back).
Fairness: WF(`Reconcile`) alone, the six-hourly scheduler. Runs may hang for ever.

`Uploads` is the file: requests that store, replace and delete it overlap, and each
writes the disk and the database in separate steps with deaths between. `FileKept`: the
file the source names is there. (A run that was created for a path and reads it later may
find it replaced: it fails, as `Read` has it.)

Left out: how a page is compared with the previous fetch (`ParsePipeline`), costs and
progress numbers, the contents of files.

### Proofs

`UpkeepProofs`, for any file, number of runs and uploads, and interval:

* `CountersNeverOverstated`: `CountInv` says that every number someone has counted and not
  yet written is bounded by the fetches as well; the fetches of a live source only grow, and
  a deletion resets all. `TypesHold` proves the types. Assumptions: the file, the bounds and
  the budgets have their types, and `UrlsFinite`, so that `fetches` of any source are a subset
  of a finite product.
* `RecrawlsEarned`: `EarnedInv` follows a job through its rows. Until it misses one, each
  row it is past has an answer (`Looked`), or the money is spent; when it is past the last, the
  recrawl is earned, and a retry begins at the first row. Fetches only grow, so what was
  looked at stays so (`EarnedGrows`).
* `FilesAreKept`: `FileInv` says that a file the source names, or that someone has read and will
  remove, was put there by an upload past its commit (`Placed`), that an upload removes only
  a file that is not the source's, and that the removal of the source's file follows its deletion.
  `NoneIsNoFile`: the null value is no file.

## 7. `KnowledgeGraph`: deletions, reviews, aliases

The tables are the variables; the static shape (which source a fetch is of, which
document a content makes, which raw claim a mention is in) is CONSTANTs. `tx` holds, per
open session, what the request read and is about to write; at its commit the database
re-checks what it checks: foreign keys (`ForeignKeysHold`), unique keys (`MigrateAliases`),
rows gone. `SelectSource`, `SweepSource`, `CommitDelete` are `delete_source`
(orphans, `_repoint_shared_documents`, claims without evidence, entities without
references); `SweepDocument` is `delete_document`; `OpenReview`, `CommitDecision`,
`CommitMerge` are the identity review; `OpenAlias`, `CommitAlias`, `VerifyEntity`,
`ResolveConflict` the edits; `ListReview` splits in a session that never commits. `AddFetch`
and `Parse` are the jobs that go on meanwhile. Row locks are abstracted: a statement that would wait runs as if it
had come before.

Properties: `FirstSeenLinked` (a document is linked to the fetch it was first seen by,
which is why looking for orphans by that fetch suffices), `UndisturbedCommits` (a deletion
that nothing disturbed is never refused by a foreign key), `ClaimsSupported`,
`MergedHoldNothing`, `MergeTookEffect`, `OneAliasPerSpelling`. The code does not exclude some races, and
the last four properties name what they except: `skewed` (two deletions, each counting the
other's evidence as support; the next deletion of a source repairs it), `tangled` (merges raced, or
one was made into an entity merged before), `severed` (a deletion that merges had outdated took an
entity that another was merged into), `doubled` (two sessions added aliases to one entity
at once). Outside those histories the properties hold; these variables are set by exactly the
steps that commit on outdated reads.

Left out: conflict detection and the creation of claims, mentions and candidates (nothing
in `backend/` but the seeds creates them), renames, audit rows, text of any kind.

### Proofs

`KnowledgeGraphProofs`, for any sources, documents, graphs and number of sessions. The
assumptions on the first graph are those of a database the pipeline wrote: its foreign keys
hold (`GraphsLinked`, `GraphsRefer`), its claims have evidence, its aliases differ, no candidate
is decided for a merge yet (`GraphsSettled`). Each property is about rows, but holds because
of what the open sessions have read and are about to write, so each invariant speaks of both:

* `LinkInv` for `FirstSeenAlwaysLinked`: the documents an open deletion moves go to fetches
  they are linked to, or the commit fails, and those it does not move are first seen elsewhere.
* `GraphInv` (theorem `GraphConsistent`): the keys between all tables, and what each session
  considers still exists or will be refused at its commit. `TypeCorrect` and the following rest on it.
* `DeletionInv` (`DeletionsUpToDate`): a deletion that is alone since it began (`alone`) sees the tables
  as they are, so a foreign key never refuses it: `UndisturbedDeletionsCommit`.
* `SupportInv` for `ClaimsStaySupported`: outside `skewed` histories, the claims a deletion
  leaves have evidence that stays.
* `MergedAlwaysHoldNothing` and `OneAliasAlways` are inductive with `GraphInv`: a merge moves
  everything it finds, and who adds an alias has read all spellings of the entity.
* `MergeInv` for `MergesTakeEffect`: also the mention of a candidate that a review *will*
  decide for a merge is where the merge leads.

The attempt to prove `MergeTookEffect` found it false of larger graphs than the run's: two
merges while a deletion is open, which then deletes the entity in the middle of the chain as
unused. `severed` names that history; the code has nothing against it.

## 8. `RobotsCache`, `LiveLogs`, `ProgressStream`, `SchemaMigrations`

The proofs of `RobotsCache` and `ProgressStream` are in `ServicesProofs`, those of
`SchemaMigrations` in `SchemaProofs`.

* `RobotsCache` (`ingestion/fetcher.py`): tasks of one event loop; the load lock is an
  object that can leave the table while others wait for it. `OneLoadPerOrigin`, proved as
  `LoadsAreSingle` from `RobotsInv` (who loads holds its lock; who waits for an origin not
  loaded waits for the lock in the table) for any set of fetches, failures and
  cancellations.
* `LiveLogs` (`live_logs.py`): writers insert, trim and commit in steps, a stream polls
  from a cursor. `LinesArrive`: a committed line is sent, unless it was trimmed, or is in
  `passed` - committed behind the cursor (a line is stamped before its transaction commits)
  or before what the stream replays at first. Fairness: the stream goes on polling.
* `ProgressStream` (`progress.py`): the row is written by jobs, stops and maintenance in
  any order, status with or without stats. `LastWord`: the last event of a stream that ended is one
  at which the page closes its connection. Proved as `StreamsEndFinal`: `StreamInv` says that
  the event sent last is the one of the signature kept with it, whatever was written since.
* `SchemaMigrations` (`alembic/versions/`): `Upgrade` and `Downgrade` over the rows of nine
  tables, with the check constraints, the unique index of active runs, the unique identifier of
  sources and the foreign keys, from any tables with columns of the right types (`HeadRows`,
  `LegacyRows`; `Words` is what text columns and lines of notes hold). `Checked`,
  `OneActive`, `Identified` and `Referenced` are what a revision's transaction must satisfy
  to commit; `Shed` is what the deletes of a downgrade take, with their cascades.

What a migration loses is easy to underestimate:

* 0026 going down deletes every claim without a chunk, which is every claim the extractor writes
  today (`extraction/runner.py:68-83`). The foreign keys of 0001 take its evidence and its
  mentions with it, and set the mention of a review candidate to NULL (`WithoutClaims`).
* 0018 going down drops `ck_claims_confidence_range`. 0023 dropped the column, and the check with
  it; its downgrade restores the column alone. So the command fails, and no database
  that was once past 0023 gets below 0018. The model keeps the presence of the check
  (`checks.confidence`).
* 0007 going up renames a domain source to its bare host. A source of another kind may have that
  identifier already: the unique key then refuses the migration.

`RoundTrips`: back at revision 0027, the schema is the one `models.py` declares; a database
that started there was never below 0018, and its tables are exactly `Remaining(was.rows)`: columns
that came since the lowest revision have their default (`recrawl_interval_days` is weekly
again, `stats_updated_at` the start of the run, `body_unchanged_since`, a document's
vector and a candidate's context NULL, a claim's subject a person, an entity active, unverified and
not merged, `crawl_max_depth` unbounded), candidates are gone if 0020 was passed, and claims of
whole documents with all that hung on them if 0026 was. A database of revision 0001 has its sites
and its runs. `StuckOnlyFor`: an upgrade is refused only for two active runs of one source
(0005), for domain sources of one site or a host that is taken (0007), and for kinds that were
given up (0009).

Left out of the rows, and so of both claims: columns and tables no revision reads, fills, or
checks (texts, logs, temporal columns, evidence weights, `last_full_recrawl_at`), the
counters 0015 recomputes and the `document_id` 0026 recomputes. `RoundTrips` says nothing of
these.

`SchemaInv`, the inductive invariant, has three parts. `Placed`: the database has the
checks and the index of its revision and satisfies them. Two checks depend on the way there:
the kinds of runs, as 0012 going down admits pipelines and 0009 going up does not, and the check of
confidence. `FromHead`: a database of 0027 has not passed 0018, has no check of
confidence, and is, table by table and column by column, a function (`Held`) of the rows there were,
the present revision and the lowest one. `FromFirst`: a database of 0001 has a source for
every site and every run in the state it was in. Each revision keeps these, one lemma per table
and per kind of change; merged sources (0007) need that a finite set has a survivor per site.
`RoundTrips` is the last two parts at revision 27; `UpgradeFits` shows each refusal other than
the named ones impossible from `Placed`, which is `StuckOnlyFor`. Theorems `SchemaInvariant`, `RowsSurviveRoundTrips`,
`UpgradesAreRefusedOnlyFor`; assumptions `WordTypes` (the words the revisions write are
words), `HeadTypes`, `LegacyTypes` (columns have their types, run tables are finite, no
review candidates before 0020 created their table).

## 9. Runs

| Run | Instance | Shows |
|---|---|---|
| `run_lifecycle` | 1 sitemap source, 2 runs (crawls), 2 handlers, symmetric, no retry, nothing fetched | 1.0 M states: the safety properties and the refinement of `RunSlots` |
| `run_lifecycle_retry` | 1 run of kind seed, enrichment or parse (the source was crawled before), 2 handlers, archived or not, 1 item, 1 retry, `FairSpec` | 0.75 M states: ended jobs, stranded runs, `RunningEnds` |
| `sitemap_crawl` | 3 workers, 5 URLs, cap 4, look every 3rd call, 1 fault, six sites, `FairSpec` | 0.76 M states: the crawl's properties and its end |
| `parse_pipeline` | 2 runs, 2 sources with a page each, contents A and B (B without claims), 2 fetches, 1 document deletion, no kill | 1.2 M states: sharing, races, pauses and resumes |
| `parse_retry` | 1 run, 1 page, 3 fetches, overlapping crawls, 2 kills, 2 retries, the execution recorded late, scopes unparsed and all, no deletion, `FairSpec` | 0.58 M states: retries, snapshots, hash-diff chains, end |
| `upkeep` | 2 runs side by side, or 1 run with 2 retries; files of 3 rows and of 1 unnamed row, 2 looked at, refresh every 2 pages; 3 uploads and 1 crawl request | 0.66 M states: counters, full recrawls, the file |
| `knowledge_graph` | 2 sources, 5 fetches, 3 documents (one shared), 2 claims, 3 entities, 3 candidates, 2 sessions (symmetric), 4 requests | 0.47 M states: deletions, reviews and edits |
| `services` | 4 fetches of 2 origins; 2 log writers, cap 2, replay 1, 2 clock times; 2 starts of a job; databases of revision 27 (2 sources, 2 runs, 2 claims, one of a chunk) and of revision 1 | 0.10 M states: the four parts of section 8 |
| `stopped_restarted`, `stopped_completed`, `superseded_rewritten`, `stopped_unextracted` | smallest instances | the findings below |

Why the bounds are enough: two runs and two requests give every pair of actors that can
disagree about a row, as each can stand between its load and its commit while the other goes
by; the kinds and the retries missing from the first run are in the second (`RunKinds`, `Crawled`,
`Items` and `MaxTries` are bounds), and the theorems of section 3 remove all of these. In the crawl, a cap
below the number of URLs lets the cap bite while slots are held; three workers leave one running
when one is dead and one waits; an interval of three makes late requests happen; its theorems remove these bounds too. In
the parse, two fetches with equal contents in two sources, or in one, give every way two
runs meet in a document, and one deletion gives a stale document id; three fetches give a chain
of unchanged bodies and a change back to old content; two retries are one before and one
after a snapshot is lost, or two that must agree. Deletions and retries meet only in the theorems. In `upkeep` the file has a row beyond
the limit, a repeated and an unnamed one, and either two refreshes overlap with
maintenance or one job dies twice. In `knowledge_graph` two sessions are every race of
two requests, four requests a chain of merges and a deletion of what they made, one
document is shared by two sources and one claim rests on both. In `services` three fetches
of an origin are needed for one to wait while the lock leaves the table and a third comes;
a cap of two lines is trimmed by the third. `CHECK_DEADLOCK FALSE` everywhere,
because every one of these systems may stop: all runs ended, the bounds reached.

## 10. What is proved and what is only checked

Proved for every value of the constants (by tlapm; each invariant also checked by TLC but
for the types of `RunLifecycle` and `FetchStore`):

* `RunLifecycle`: types, `OneActivePerSlot`, `FinishedTold`, `GoneTogether`,
  `EndedJobSettles`, `StrandedOnlyByCrash`, the refinement of `RunSlots`;
* `SitemapCrawl`: types, `Accounted`, `AskedOnce`, `InDepth`, `StoredWithinCap`,
  `LittleAfterStop`, `ConcludedIsClosed`;
* `ParsePipeline`: types, `OneDocumentPerFetch`, `ScopeNormalized`, `LinksWithinSnapshot`,
  `UnextractedIsExplained`, `ExtractorRunSettles`, `PaidOncePerRun`, `UnchangedBodiesResolve`;
* `FetchStore` and `Uploads`: types of the first, `NeverOverstated`, `RecrawlEarned`, `FileKept`;
* `KnowledgeGraph`: types and each of its properties;
* `RobotsCache` `OneLoadPerOrigin`; `ProgressStream` `LastWord`;
* `SchemaMigrations`: `RoundTrips`, `StuckOnlyFor`, and the invariant both rest on.

Nothing is assumed beyond the named ASSUMEs of the modules, which TLC evaluates.

Only checked: the liveness properties (`RunningEnds`, `CrawlEnds`, `ParseEnds`,
`CountersSettle`, `LinesArrive`), which are out of the prover's reach; every other property
of a passing run is a theorem.

## 11. Findings

Each violation run shows one disagreement between the code and its documentation.

1. `stopped_restarted`: a run stopped before its container starts is set running again
   by `jobs/run.py:55`.
2. `stopped_completed`: seed and enrichment jobs never look at their row again and
   complete a run that was paused.
3. `superseded_rewritten`: the job a superseded run still had writes its own status over
   superseded (`run_from_env` spares only stopped).
4. `stopped_unextracted`: documents normalized by a parse that is stopped (or fails, or
   is killed) before extraction are linked, hence not pending; the resumed parse finds
   nothing to do, completes, and they are never extracted.

## 12. Not modelled

* Cleaning, normalisation and extraction of text, prompts and model clients: functions of
  strings without state; the models take their results as inputs (contents, claims).
* Read API, ask and search: read-only, but for the pending query and the counts, which
  `ParsePipeline` and `FetchStore` have. Authentication and sessions: stateless tokens.
* Pure helpers (URLs, class years, display names), configuration, demo and test seeds,
  frontend, infrastructure scripts: no state that changes. The retries and limits the scripts set
  are used as said above.
* The inline job backend (runs a job in the API process) and rate limits.
* One remark without a run: `EXPECTED_ALEMBIC_HEAD` (`main.py:176`) is `0026...` while
  the newest revision is 0027. It is compared with the database at start only, to warn of
  tables emptied by a deployment: that warning never appears.
