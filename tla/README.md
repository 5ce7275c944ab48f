# Verification of aio-web-scraper

TLA+ specifications, TLC model-checking configurations and TLAPS proofs for the
scraping platform in this repository. The specifications are written from the
code: every definition that models code is listed in `PROJECT.json` under
`map`, with the file and lines it translates.

Contents

1. [The system](#1-the-system)
2. [The modules](#2-the-modules)
3. [JobLifecycle](#3-joblifecycle-the-life-of-a-job)
4. [CrawlSync](#4-crawlsync-the-pages-and-counters-of-a-crawl)
5. [TrafficPipeline](#5-trafficpipeline-the-traffic-estimators-runs-and-tasks)
6. [ResultStore, SizeLimit](#6-resultstore-and-sizelimit-rows-and-bodies)
7. [EngineCalls, PageResult](#7-enginecalls-and-pageresult-one-call-of-the-engine-adapter)
8. [TrafficCalls](#8-trafficcalls-requests-about-estimates)
9. [NetPolicy, EgressProxy](#9-netpolicy-and-egressproxy-what-may-be-reached)
10. [BrandService, BrandSignals, BrandColors](#10-brandservice-brandsignals-and-brandcolors-branding-of-a-page)
11. [Accounts, JobInput](#11-accounts-and-jobinput-who-may-do-what-with-which-body)
12. [Dashboard](#12-dashboard-the-form-and-the-page-of-a-job)
13. [The runs](#13-the-runs)
14. [What the models showed](#14-what-the-models-showed)
15. [What is proved](#15-what-is-proved)
16. [What is not modelled, and the plan](#16-what-is-not-modelled-and-the-plan)
17. [Running it](#17-running-it)

## 1. The system

A user submits URLs to an HTTP API; the API stores a *job* in PostgreSQL, hands
it to a scraping *engine* (Firecrawl, an external service) and stores the pages
that come back. Side services extract brand data and estimate a domain's
traffic. Several API processes and several estimator workers may run at once;
in each of the two halves the processes share nothing but a database.

```
 web dashboard --> API processes --(SQL)--> PostgreSQL: jobs, results, job_events
                    |  JobService: create, dispatch, cancel
                    |  Reconciler: tick every few seconds, in every process
                    +--(HTTP)--> engine --(proxy)--> egress-proxy --> the web
                    +--(HTTP)--> brand-service
                    +--(HTTP)--> traffic-estimator API --(SQL)--> PostgreSQL:
                                 runs, tasks, observations     <-- workers, scheduler
```

### Components

| Component | State | Operations | Hard behaviour | What makes it correct |
|---|---|---|---|---|
| **Job service and reconciler** (`apps/api/src/services/{jobs,reconciler}.ts`, `db/repos.ts`) | `jobs`, `job_events` rows; `inFlight` map of each process | create, dispatch, runScrape, startCrawl, cancel; tick, reconcile, syncCrawl, pullPages, drainAndFinish | every `await` lets other requests and other processes in; crashes between any two steps; leases that expire under a slow holder; users that cancel or delete at any time | a job reaches the engine at most once, ends once, with the event of how it ended; it always ends; what is stored agrees with the status and the counters |
| **Results and object storage** (`services/results.ts`, `storage/`) | `results` rows, blobs | persistPage, listing, export, deletion | blob and row are written separately; listing by offset over a growing table | no lost row, one row per URL, no orphan blob |
| **Accounts** (`routes/{auth,keys,projects}.ts`, `http/auth.ts`) | users, sessions, API keys, projects | sign-up, login, logout, key create and revoke, project create and delete | check-then-insert caps; default project created on first use; rows deleted under a request that found them | caps are exceeded by no more than what runs at once; nobody touches the rows of another user; what is stored can be done |
| **Engine adapters** (`engine/*.ts`) | none | scrape with retries, crawl, getJobStatus, getFailures, cancel, catalog, branding, traffic | partial pages, retries, 404 of a forgotten crawl, abort during a retry, deadlines within deadlines | a call ends in time and keeps what it got; every page is delivered once the crawl has ended; a final answer is final |
| **HTTP shell, configuration, metrics** (`app.ts`, `index.ts`, `config.ts`, `http/`, `observability/`) | counters | routing, validation, presentation | limits of schemas and of the configuration that must fit each other | a body that is taken can be done |
| **Network policy** (`packages/net-policy`) | none | classification of addresses and URLs | address ranges, mapped addresses, DNS that answers differently each time | only vetted addresses are dialled; API and proxy agree |
| **Egress proxy** (`apps/egress-proxy`) | open tunnels and their count | CONNECT, HTTP forwarding, close | the limit is checked before an `await` and counted after it; sockets that close while another connects | the count is that of the open tunnels, and within the limit |
| **Brand service** (`apps/brand-service`) | browser singleton, semaphore | extract, launch, disconnect | waiters woken later; a disconnect event of an older browser; a page that changes between two readings; a caller that has gone | slots are neither lost nor doubled; the picture is that of the logo; roles go to colors of the site |
| **Traffic estimator: queue, worker, pipeline, scheduler** (`apps/traffic-estimator/.../{queue,worker,pipeline,scheduler}.py`) | `pipeline_runs`, `tasks`, `raw_observations`, `domains` | ingest, reestimate, claim, collect, complete, fail, defer, finalize, recover_lost, tick | concurrent claims under exact caps; leases and heartbeats; late workers; crashes at any point; one finalize per run | caps hold, a domain is collected once at a time, estimates use everything collected, runs end |
| **List loader and indexes** (`lists/`) | list files, `ranked_lists` rows | refresh, lookup | crash between file and table | a lookup never meets a missing file |
| **Collectors and crawler** (`collectors/`, `ratelimit.py`, `http.py`) | frontier, budgets, per-host delays | crawl, DNS, Common Crawl | concurrency within a crawl, eviction of per-host locks | budgets and delays hold |
| **Features and estimators** (`features/`, `estimator/`) | none | extraction, scoring, buckets | numeric edges | monotone buckets |
| **Estimator API, CLI, evaluation, training** (`api/`, `__main__.py`, ...) | none | submission, lookups in several transactions, offline tools | a lookup that reads while a run ends | an answer belongs to the run it names |
| **Web dashboard** (`apps/web`) | client state | form, polling, cancel button, pass-through proxy | answers that are late or overtaken; sessions that end | what is sent is taken; one job per submission; a page at rest is fresh |
| **Operations scripts** (`scripts/`) | results file of a batch | batch-scrape, start-up scripts | resumption | no URL scraped twice |

The hazards, each at the line where it bites and with the properties that cover
it (or why none does yet), are listed in `PROJECT.json` under `hazards`.

## 2. The modules

| Module | Models |
|---|---|
| `JobSpec` | the promise about a job: `queued -> running -> completed, failed or cancelled`, one announcement, removal with the project |
| `JobView` | the promise about what a client sees of a job: its status, the figures of its progress, the number of its results |
| `JobLifecycle` | the job service and reconciler as they are, in several processes; implements `JobSpec`, keeps `JobView` |
| `CrawlSync` | syncing one crawl's pages and counters from the engine; keeps `JobView` |
| `TrafficPipeline` | the traffic estimator's queue, workers, pipeline and scheduler |
| `ResultStore` | the two places a page is stored in, deletion of a project, and readers by pages |
| `SizeLimit` | how a body is cut to the byte budget |
| `EngineCalls` | one scrape, crawl start or map of the engine adapter, against the clock |
| `PageResult` | what a document or an error of the engine means for the page |
| `TrafficCalls` | the API's requests about traffic estimates, on the clock of `EngineCalls` |
| `NetPolicy` | addresses, host names, URLs, ports and DNS answers that may be reached |
| `EgressProxy` | CONNECT tunnels and forwarded requests, deciding by `NetPolicy` |
| `BrandService` | slots, browser and page of the brand service, and its caller |
| `BrandSignals`, `BrandColors` | the logo, the icon and the colors that are made of a page |
| `JobInput` | the schema of a body, the options made of it and what the engine is asked for |
| `Accounts` | users, sessions, keys, projects and jobs, query by query |
| `Dashboard` | the form and the page of a job in the browser, relying on `JobView` |
| `*_proofs` | invariants and theorems, each about the module it is named after; `ResultStore_proofs` also about `SizeLimit`, `EngineCalls_proofs` also about `TrafficCalls`, `Accounts_proofs` also about `Dashboard` |
| `MC*` | symmetry sets and constant functions for TLC, nothing else |

Which module uses which:

```
JobSpec <- JobLifecycle (refinement)       SizeLimit <- ResultStore
PageResult <- EngineCalls <- TrafficCalls  BrandSignals, BrandColors <- BrandService
NetPolicy <- EgressProxy                   NetPolicy <- JobInput <- Accounts, Dashboard
JobView <- JobLifecycle, CrawlSync, Dashboard
```

Definitions whose comment begins with "Mutant:" are not part of a specification.
They are versions of a definition with a plausible bug; replacing the definition
by one of them must make a property fail (`PROJECT.json`, `mutants`), which shows
that the property depends on the code it is about.

`JobLifecycle` and `CrawlSync` split one subsystem by question. The first has
all of a job's control, every process and every fault, and treats a crawl's
pages as one choice (`DrainAndFinish` may end in either outcome). The second
takes a job whose crawl is known to the engine and has every page, the cursor,
the rounds of requests and the counters. The interface is the row: `Finish`
of `CrawlSync` is `Finish` of `JobLifecycle`, both guarded by the status.
`ResultStore` and `EngineCalls` open two steps the first two take as one:
`PersistPage` / `Persist` (here blob, row and conflict, in steps of their own)
and the wait for the engine (here every request with its timeout). What the
others need of them is what these prove: a stored row has its body, and the
start of a crawl is over before `Tick` may take it for an orphan. `TrafficCalls`
sees the estimator from outside: a domain has runs, one active at a time, and
the estimate of the last one that completed, which is what `TrafficPipeline`
proves of it (`OneCollectingRun`, `EndedRunStaysEnded`).

`JobView` is the interface to the browser. `Advances` relates what two reads of a job
may say: the status goes from `queued` to `running` to one outcome (or from `queued`
to `cancelled`), the figures change while it runs only, and results are added, also one
that was on its way when the job ended, but none is taken back. `JobLifecycle` and
`CrawlSync` are shown to keep it (`ViewAdvances`, checked and proved), the latter with
the counters and rows of a crawl as they are; the job of `Dashboard` is *any* that keeps
it, so that what is shown of the page rests on what the API was shown to do.

## 3. `JobLifecycle`: the life of a job

**State.** The columns of `jobs` that decide anything (`status`, `type`,
`leased`, `engineId`, `progress`), the two clocks the reconciler reads against a
row (`overdue`: the age limit of the job's present stage has passed; `silent`:
`updated_at` is older than `ENGINE_OUTAGE_FAIL_MS`), the scrape's row in
`results` (`stored`), the terminal events in `job_events` (`audit`), the engine's
view (`crawl`, `calls`), and the processes. An asynchronous activity is a *task*
`[inst, role, job]`; `pc` names the statement it is about to execute, `to` the
outcome it is about to record and `seen` the row it read and still relies on.
`inFlight` is not a variable: it holds exactly the jobs whose scrape is at
`engine` in that process.

**Atomicity.** One action is what the code does between two awaits: at most one
SQL statement or one engine request. `Tick` is one statement
(`UPDATE ... FOR UPDATE SKIP LOCKED`), and so are `Claim`, `Finish` and
`UpdateProgress`, whose `WHERE status = ...` conditions become guards; when the
statement matches no row a second action (`ClaimLost`, `FinishLost`) says what
the code does then.

**Correspondence.**

| Code | Actions |
|---|---|
| `JobService.create` | `CreateCheck` (count), `CreateInsert`, `CreateRejected` (foreign key of a deleted project) |
| `dispatch`, `jobs.claim` | `Claim`, `ClaimLost`, `CallEngine`, `DispatchThrows` (the catch block) |
| `runScrape` | `ScrapeReturns`, `RecheckStatus`, `DropResult`, `PersistPage`, `UpdateProgress` |
| `startCrawl` | `EngineAccepts` (external), `CrawlReturns`, `SetEngineJobId`, `ReleaseAfterStart` |
| `complete`, `fail`, `jobs.finish`, `jobEvents.add` | `Finish`, `FinishLost`, `TerminalEvent`, `EventLost` |
| `cancel` | `CancelRead`, `EngineCancel`, then `Finish` |
| `Reconciler.tick`, `reconcile` | `Tick`, `ReconcileQueued`, `ReconcileScrape`, `ReconcileCrawl`, `ReleaseLease`, `ReconcileThrows` |
| `syncCrawl`, `drainAndFinish` | `SyncPull`, `SyncProgress`, `DrainAndFinish`, `EngineCancel` (over budget) |
| clock, engine, users | `LeaseExpires`, `Elapse`, `Outage`, `CrawlEnds`, `Crash`, `DeleteProject` |

A lease may expire at any moment, also under a healthy holder: nothing in the
code stops work when it does. A crash loses the tasks of one process and
nothing else, and the process starts again at once with an empty `inFlight`.

**Abstractions.** Times are reduced to "the limit has passed" flags, set at any
moment and reset by the statements that set `updated_at` or move the job to a
stage with a limit of its own. The per-user cap is for one user. `Batch` picks
any `Batch` eligible jobs, where the code takes those updated longest ago.

**Fairness** (`FairSpec`, used by the run `job_ends` only). A task that has begun takes
its next step: every database call and every engine request settles, for the
adapters give each request a timeout. `Tick` of every process is fair: the
interval timer never stops while the process lives. Time passes: leases
expire, limits are reached. Nothing is assumed of users, of faults, or of the
engine ever finishing a crawl; `EveryJobEnds` rests on the duration budget.

## 4. `CrawlSync`: the pages and counters of a crawl

**State.** The engine's crawl (`fate` of each page, the order in which the
status endpoint lists the documents (`docs`), `total`, `engine`), the row
(`status`, `leased`, `cursor` and the four counters), the crawl's `rows` in
`results`, and for each process the locals of the sync it is in. History
variables record what a property excuses: `warned`, a final drain that was given
up (the code logs "final crawl drain incomplete"); `short`, the drain of a completed
crawl that ended before the end of the list, of which the code says nothing;
`overlapped`, two syncs of the job at a time. `faults` counts the disturbances.

**Correspondence.** `Tick` (lease, and the over-budget branch), `Request` and
`RequestGone` (one status request of `getJobStatus`), `Persist` (one
`persistPage`), `PullNext` (the round loop of `pullPages`), `Failures`
(`getFailures` and its pages), `Count` (`countsForJob`), `Progress` and
`FinalProgress` (`updateProgress` from `syncCrawl` and from `drainAndFinish`,
with `GREATEST` for two of the polled figures), `Finish`, `Release`, and the two error
paths `EngineDown` and `Throws`, which in a drain both lead to `GiveUp`, its catch.

`CrawlPage` inserts a document anywhere in the list, as the code expects of the
engine ("any page whose completion raced our cursor"): that is what the final
re-scan from the start is for, and what the mutant `ProgressThenDrainRest`
removes.

**Two drains that say nothing.** A drain may end in mid-list without an error (`CutShort`):
`RequestGone`, for a 404 of the engine is an answer like any other (`firecrawl.ts:452-454`),
and `PullNext`, when the rounds are used up. A drain reads at most
`PageSize * PerCall * (Rounds + 1)` documents: 50 in each of 4 requests in each of 21 calls,
4200, where the default `MAX_CRAWL_PAGES` is 2000 and `config.ts:105` allows 100 000.
Either completes a crawl without its last pages, and `CompletedCrawlIsComplete` names both
beside the drain that was given up; no run and no theorem assumes that they do not happen.

**Abstractions.** A page is its URL. A document's body, size limit and blob are
left to `ResultStore`.

## 5. `TrafficPipeline`: the traffic estimator's runs and tasks

**State.** `runStatus`, the age flag `stale`, `estimate` (the collectors whose
observations the run's last estimate used), the columns of `tasks`, `obs` (the
collectors with an observation of a domain), the row lock of a domain
(`domainLock`), the advisory lock of the claim (`claimLock`) and what each worker
or request is executing (`exec`). `rewritten` is history: runs with a task that
was written by a worker which no longer held it.

**Atomicity.** One action is one transaction. Where another transaction can see
into one, it is split: `IngestCheck` / `IngestCommit` (the upsert holds the
domain's row lock while active runs are looked for and the run is created),
`ClaimSelect` / `ClaimCommit` (the snapshot is read under the advisory lock),
`ReadFeatures` / `StoreEstimate` (features are read in one transaction and the
estimate stored in another).

**Correspondence.**

| Code | Actions |
|---|---|
| `ingest_domains`, `create_run` | `IngestCheck`, `IngestCommit` |
| `reestimate` | `Reestimate`, then `ReadFeatures`, `StoreEstimate` |
| `queue.claim`, `Worker._claim` | `ClaimSelect`, `ClaimCommit` |
| `run_collector_task` | `Begin`, `Collect` |
| `finalize_run` | `ReadFeatures`, `StoreEstimate` |
| `Worker._finish`, `_fail`, `_defer`, `queue.complete`, `queue.fail` | `Complete`, `Fail`, `Defer`, `Raise`, `FailRaised`, `RaiseAgain` |
| `_after_collector`, `maybe_finalize` | `AfterCollector`, `MaybeFinalize` |
| `recover_lost`, `scheduler.tick` | `RecoverLost`, `Tick` (`NeverFinalized` is the condition of its `SELECT`, `Swept` the choices that `LIMIT 100` has) |
| clock, crashes | `LeaseExpires`, `Age`, `Crash` |

`Write` has no condition on `status` or `locked_by`, because the `UPDATE`s of
`queue.complete` and `queue.fail` have none: a worker that lost its lease still
writes its task.

**Abstractions.** Which claimable task a worker gets is open (`run_after`,
priority and id order are not modelled), whether an observation is recent
enough to reuse is open. A heartbeat is the guard of `LeaseExpires`: the lease of
a task that is being executed expires only under the fault `"late"` (one failed
`extend_lease` ends the heartbeat loop). A `Worker` executes one task at a time,
in a process of its own; a process with n slots is n of them that may crash
separately. A request ingests one domain. `list_refresh` tasks belong to no
run and are left out.

**The sweep.** A tick looks at no more than `Sweep` of the runs that were never finalized, in no
given order. For most of them `maybe_finalize` queues a finalize task, and they leave the
sweep. A run whose finalize was given up by `recover_lost` keeps its task, which
`maybe_finalize` does not queue a second time, and so stays in the sweep for good (`GivenUp`);
when such runs are as many as the limit, a tick need not look at any other.

**Fairness** (`FairSpec`). A worker loop claims while it can and continues what
it began; the scheduler's tick repeats; time passes, that is, the
leases of dead workers' tasks expire and runs grow old. Of a tick no more is assumed than that one
happens that changes something whichever runs its limit lets it see (`SureTick`).
`RecoverLost`, which a worker also calls every 60 s, needs no fairness of its own: `Tick`
does the same. No fairness is given to requests, faults or crashes.

## 6. `ResultStore` and `SizeLimit`: rows and bodies

**State.** For one project: whether it exists (`live`), its `jobs`, the committed
`rows` of `results`, which of them are listed `before` which (by `created_at`, then
`id`), the objects in the storage (`blobs`), which writers' pages have a body
(`keyed`). A *writer* is one execution of `persistPage`; its `randomUUID` names the
row and the blob, so a writer stands for both. `pc` is where it stands, or how it
ended. `deletion` is one `DELETE /api/projects/:id`, `reader` one client of the
export or the listing with the pages it has `seen`; `late` says that the latest of them
was read after the job was gone.

**Correspondence.**

| Code | Actions |
|---|---|
| `jobs.create` | `CreateJob` |
| the page arrives, the caller holds a job it read before | `Fetch` |
| `storage.put` | `PutBody`, `SkipBody` (no content), `PutFails` |
| `results.insert` | `InsertStart`, then `InsertCommit`, `InsertConflict` or `InsertRejected` (foreign key) |
| `storage.delete(...).catch` | `Discard`, `DiscardFails` |
| deletion of a project | `ListJobs`, `DeleteRows` (with the cascade), `DeletePrefix`, `DeletePrefixFails`, `DeletionDies` |
| `getJobOr404` of the export and of a listing's first request, and of its next ones | `StartReading`, `AskForMore` |
| `listForJob`, the export's loop, `next_offset` | `ReadPage` |
| crash, rejecting database | `Die` |

**Why `InsertStart` is a step.** `created_at` is the time at which the inserting
transaction starts, so rows become visible out of the order in which they are
listed: a row may appear *before* the offset a reader has reached. The reader
then sees a row twice, and `ReadingMissesNothing` says that it sees every one that was
there when it began, and if none came in, each once and in order.

**What a deletion does to a reader.** The two queries of a listing are two steps, and an export
asks for the job once, at its beginning. When the rows go before the next `listForJob`, its page
is empty, which both take for the end: the client of the export gets a file that looks complete.
The model has this end (`done`, as any other); `ReadingMissesNothing` excepts a last page
that was read `late`.

`SizeLimit` is `applySizeLimit` as an operator from a body to the set of bodies it
may become. A text is its bytes and the bytes JSON makes of it; cutting is by the
first and the budget about the second (`results.ts:59`), so the operator has to be
shown to meet it (`BodyFits`, `MarkdownIsLast`).

**Abstractions.** The names of URLs and the content are left out. One page of a
listing with its contents is one step (`safeContent` sends null for a body that is
gone). There is one deletion and one reader: rows are removed by a deletion only,
and a second one finds no project.

## 7. `EngineCalls` and `PageResult`: one call of the engine adapter

**State.** A clock, the request that is waited for (`pc`) and when it times out
(`due`), the outcomes of the scrapes made (`first`, `last`), the caller's options
and signal (`noWait`, `aborted`, `budget`), the two activities that run in
parallel while a store is examined (`catalog`, `sitemap`), the split of the page
budget (`plan`) and the `result`. A page is reduced to the outcome the code
branches on: good, thin, bounced by a bot filter, empty, bad, timed out,
interrupted, or the engine not reachable. Which of these a document or an error
is, is worked out by `PageResult` (`ToPageResult`, `MapError`): the outcomes of
`EngineCalls` are those of every document and every error.

**Correspondence.**

| Code | Actions and operators |
|---|---|
| `scrape` | `ScrapeStart`, `ScrapeFirst` (its guards are `WantsNoJs`, `WantsWait`), `ScrapeSecond`, `Abort` |
| `probeStart`, the branches of `crawl` and `map` | `ProbeStart`, `ProbeAnswers`, `AfterProbe`, `Gather` |
| `discoverProducts`, `fetchJson` | `NextRound` (the loop's head), `CatalogRound` (one `Promise.all`) |
| `sitemapUrls` | `SitemapAnswers` |
| `withProductShare` | `Share`, in `Gathered` |
| `started` | `PostAnswers` |
| `setTimeout`, `AbortSignal.timeout` | `Tick`, which does not pass a timeout that has not been handled |

**Abstractions.** Time is in abstract units and code between requests takes none.
The reconciler counts from `started_at`, set by the claim that precedes
the call; the check of the target's address between them is not counted.
A catalog is stable while it is read and its entries are distinct. Scope, patterns and
deduplication only drop pages, so the numbers of products and other pages that
remain are any. Any platform may be detected in any page that has raw HTML.
Branding, which runs beside a scrape under a timeout of its own, is `BrandService`.

## 8. `TrafficCalls`: requests about estimates

One request of `routes/traffic.ts` through `engine/traffic.ts`, while the estimator
goes on: `POST` submits a domain and may wait for its estimate, `GET` looks one up,
with details or without, the bulk route submits many and looks them up in chunks.

**State.** `runs` of each domain, the request (`ask`), the domains that are still to
be looked up (`left`), each domain's `lookup`, the `deadline` of a `POST` that waits,
and `joined`: the run each submitted domain had then, which is history.

**Correspondence.** `PostArrives`, `BulkArrives`, `GetArrives`; `SubmitAnswered`
(`submit`, and `ingest_domains` behind it); `LookupReads`, one transaction of the
service's lookup at a time (run, state, estimate; details are a call of their own,
which reads the estimate again); `PostLookedUp` with `PauseEnds` (the loop with
`POLL_MS` under `waitMs`),
`BulkLookedUp` (the next chunk), `GetLookedUp`; `ServiceFails`, `ClientLeaves`; and the
estimator's `RunEnds` and `OtherSubmits`. Bounds: `MaxRuns`.

`TrafficAnswerIsCurrent` is why the order of the three reads matters: the run's
state is read before the estimate, so a run that was seen to be over has its estimate
in what is read next. With `refresh` a 200 has the estimate of the run the request
joined, or of a later one, unless the latest run failed. The mutant reads the estimate
first.

## 9. `NetPolicy` and `EgressProxy`: what may be reached

`NetPolicy` has the address ranges as sets of nets, `InRange` as arithmetic on the
words of an address, the names, the ports, the trusted hosts, and the outcome of a
check given what DNS answers. A host is its labels or the address it is a literal
of, with the dots and brackets that are written around it; normalisation is an
operator that takes them off.

`EgressProxy` is one handler per request. A handler runs up to its next `await` in
one step: `Connect`, `Forward`, `Refuse` and the answers without a decision; then
`Denied` or `Allowed` (the lookup); `AttemptFails`, `AllFailed`, `Established` (the
dials, one address after the other); the tunnel's events `ClientCloses`,
`UpstreamEnds`, `UpstreamError`, `IdleTimeout`, `UpstreamClosed`; and the forwarded
request's `Responds`, `ForwardFails`, `Sent`, `Cut` (its socket fails or idles once the headers
are sent) and `BreaksOff`. DNS may say something else each
time, so the lookup of the API (`Preflight`) and that of the proxy are two answers.

A target that breaks off in mid-body raises its error on the response stream, which has no
handler, and `up.pipe(res)` does not end `res` (`index.ts:174-177`): after `BreaksOff` the request is
`stalled`, neither ended nor counted as an error, until the engine gives it up.
`EveryRequestSettles` promises no more than that such a request is answered or stalled.
A URL's port is a sequence, empty when none is written: port 0 is a port for
`checkUrlSyntax`, which a trusted host passes with it, and none for `decide`, which answers 400.
`PreflightAgrees` says so of that one target and agreement of all others.

**Assumptions.** `PortsAssumption`: the ports that are allowed are ports, 1 to 65535.
`TargetsAssumption`: no dot follows an address in brackets. The
engine asks for hosts of URLs, and a URL with such a host is not valid.
**Fairness** (`FairSpec`): the lookup, each dial and a forwarded request end at
their timeouts; a destroyed socket closes; a tunnel whose client is gone goes idle.
The configuration and the timers of the proxy give each of them. Nothing is assumed
of a client that keeps its tunnel open. Bounds: `MaxTunnels` is the setting.
**Left out**: bytes of a tunnel and headers.

## 10. `BrandService`, `BrandSignals` and `BrandColors`: branding of a page

**State.** Each call has the caller's side (`caller`: what `extract` returned), the
handler (`pc`), the browser its page lives in (`alive`), the looks at the page that
its answer is made of (`first` for the logo and the icons, `image` for the captured
picture) and its `reply`; the service has the slots (`active`, `waiters`), the
`browser` and whether one is `launching`. `restarts` is bounded by `MaxRestarts`.

**Correspondence.** `Extract`, `Reject`, `TakeSlot` or `Queue` (`withSlot`),
`HaveBrowser` or `NeedBrowser`, `Launched`, `LaunchFails`, `BrowserDies` (`getBrowser`
and its `disconnected` event), `Loads`, `LoadFails`, `ReadSignals`, `LookAgain`,
`ReadAgain` (overlays hidden, read a second time when the logo is weak), `Capture`,
`Finish`, `PageFails`, `Release` (the `finally`); the caller's `CallerTimeout` and
`CallerAborts`, of which the service is not told; `Restart`. `Outcomes` is what `extract` makes of
an answer: of a 200 whose body is lost an empty branding, of an error without one
`EXTRACTION_FAILED`.

A page may look different each time it is read: a *look* is one of the pages of the
instance, with its overlays or without. `BrandSignals` scores the logo candidates of
a look and `BrandColors` groups its colors and gives them roles; `Evidence` says which
of the optional steps (screenshot, sampling, picture) gave something.
**Assumptions.** `ColorAssumption`: `Delta` is symmetric and zero for a color and itself;
`PageAssumption`: a page has finitely many parts, whose sizes, lengths and weights are numbers.
**Abstractions.** A color is a value with a `Shade` and a distance `Delta` to each
other one, given by the instance. A pixel shows a color exactly or not at all. The three
sorts are stable, as `Array.sort` is; the order in which colors of equal weight are first
met, that of a map's insertions in the code, is some fixed one.
`Hang` is a `page.evaluate` that does not return, which no timeout of the code covers.
**Fairness** (`FairSpec`): a launch settles, a handler that began takes its next step,
the caller's timer fires. `EveryCallSettles` promises the service's answer only while
no page hangs for ever.

## 11. `Accounts` and `JobInput`: who may do what with which body

**State.** The rows: `registered` users, live `session`s, `key`, `project`, `job`, each
with owner and state, and what each request is about to do (`req`). A request is
admitted by a credential that is valid then (`Admit*`) and runs one query per step;
between two of them the others run theirs.

**Correspondence.** `SignupFindByEmail`, `SignupInsert`, `StartSession`, `SessionEnds`;
`CountKeys`, `InsertKey`, `RevokeKey`; `CreateProject`, `DeleteProject`; `FindProject`,
`DefaultProject`, `CountActive`, `InsertJob` (with the foreign key of a project that was
deleted), `EndJob`. Bounds: `MaxSessions`; `MaxActiveKeys` and `MaxActiveJobs` are the
code's limits with small values.

`JobInput` is the schema (`MatchesSchema`), the normalisation of options, scope and
target (`Normalize`), and the body the engine is sent (`ScrapeOptions`, `RetryOptions`,
`CrawlBody`). `StoredOptionsFit` relates them: what was taken can be done.

**Assumption.** `BodiesAssumption`: a number that was sent is a natural number, and the
limits are within what `config.ts` accepts. **Left out**: the origin check, password
hashing, prefixes and hashes of keys, last-used times.

## 12. `Dashboard`: the form and the page of a job

**State.** The form with its mode and what is typed, its request (`post`), the jobs
`made` for it, the job as the API has it (`server`), two uses of the hook `useApi`
(`shown`, the job, which polls while it is active, and `results`, which follows its progress), the
`filter` of the results and the request of the cancel button.

**Correspondence.** `ChangeMode`, `ToggleFormat`, `TypeField`, `Submit`, `ServePost`,
`LosePost`, `PostAnswered`, `SignIn` (`new-job-form.tsx`); `Restart` (the effect with its
abort), `TimerFires`, `ServeJob`, `ServeResults`, `GetFails`, `JobArrives`,
`ResultsArrive` (`use-api.ts`); `ChangeFilter`, `ClickCancel`, `ServeCancel` (which also returns
a job that ended just before), `CancelAnswered` (the page shows the job that was returned,
and reloads); `SessionIsOver`. The job itself does `Work`: it becomes any view
that `JobView` lets follow the present one. `final` is history: the number of results when
the job ended. A result may still be added then, which the page does not promise to show.

**Assumptions.** `TypedAssumption`: what is typed is blank, a text or a number with one
decimal, and the limit of the patterns is the one in the schema. `JobAssumption`: the job
ends in one of the `Ended` statuses.

**Fairness.** Effects run, timers fire, answers arrive, the job is started and ends
(`MovesOn`, which `EveryJobEnds` of `job_ends` is about), and (strongly) the API answers a
request that is made again and again. Bounds: `MaxTyped` optional fields
that are not blank at once, `MaxPages`, `MaxJobs`.

## 13. The runs

Twelve runs. State counts are distinct states. `CHECK_DEADLOCK FALSE` is set
throughout because the bounded instances really do stop: once every job, run or
request that the constants allow has ended, nothing is left to do.
A run lists the type invariant of its module where that says more than types (`accounts`:
the foreign keys); section 15 has all of them.

| Run | Instance | Checks | Shows |
|---|---|---|---|
| `job_safety` (710,606) | 2 processes, 1 job, all faults but crashes | `EngineCalledAtMostOnce`, `TimelineMatchesStatus`, `CompletedScrapeHasPage`, `ViewAdvances`, `ImplementsJobSpec` | create, dispatch, reconciling in both processes and cancels in both, in any order, with any call rejecting and the project deleted at any point: one hand-over, one truthful event, outcomes and figures that stand once the job has ended, and the documented lifecycle |
| `job_ends` (156,123) | 2 processes, 1 job, engine faults, 1 crash | `EveryJobEnds` | with the crash at any statement and an engine that may fail any request, every created job ends |
| `cancel_during_start` | 1 process, 1 job | `CancelledCrawlIsStopped` violated | section 14 |
| `crawl` (646,330) | 2 processes, 2 pages, one document a request, one request a call, 2 calls, one disturbance of any kind | `CompletedCrawlIsComplete`, `CountersMatchRows`, `FiguresAgree`, `ViewAdvances` | pages that appear in any order, a rejecting call, a cancel or an overlapping sync never let a completed crawl miss a delivered page; only a final drain does that was given up with a warning or that a 404 cut short. Without an overlap its counters are those of its rows; with one, the polled figures still agree with each other and with the rows, and a job that has ended keeps them while a late sync still stores pages |
| `traffic_safety` (982,656) | 1 domain, 2 runs, 2 collectors, 2 workers, 2 requests, cap 1, late workers | `RunningWithinCap`, `OneCollectingRun`, `EstimateUsesEverySource`, `EndedRunStaysEnded` | exact caps, one collecting run per domain, complete estimates and runs that stay ended |
| `traffic_ends` (471,948) | 1 domain, 2 runs, 1 collector, 1 worker, 2 attempts of finalize, 1 deferral, a sweep of 1 run, exceptions, 1 crash | `EveryRunEndsOrIsLost` | every run ends unless `recover_lost` gave up its finalize task, or runs that were given up so fill the sweep |
| `results` (1,100,807) | 1 job, 4 writers of 3 URLs, pages of 2, storage faults and crashes | `RowHasBlob`, `NothingLeftBehind`, `DeletedResultsAreGone`, `ReadingMissesNothing` | duplicates, rejecting calls, crashes and a deletion at any point leave no row without its body and no body of a regular outcome; a reader whose last page was read while the job existed has missed nothing, though rows came in |
| `engine_calls` (1,869,236) | a scrape, a crawl or a map; catalogs of 0 to 6 products in pages of 2, budgets 1 to 6; or a traffic request about 2 domains of at most 2 runs | `CallSettlesInTime`, `ScrapeKeepsSuccess`, `CatalogIsWhole`, `BudgetIsFilled`, `TrafficAnswerIsCurrent` | with every outcome of every request at every time the call ends in time, returns the page it got, finds the whole catalog and fills the budget; a traffic answer that looks final is one |
| `egress` (35,161) | 2 requests, 1 tunnel at a time, public, private and trusted targets, a trusted one at port 0 | `TunnelsCounted`, `ConnectsOnlyToVetted`, `PreflightAgrees`, `EveryRequestSettles` | with DNS that answers differently each time and sockets that close at any time the count of tunnels is exact, only vetted addresses are dialled, the API's check and the proxy agree but for port 0 of a trusted host, and every request is answered unless its target breaks off in mid-body |
| `brand` (48,265) | 2 calls, 1 slot, 1 restart | `SlotsAreUsed`, `LogoImageIsOfChosen`, `RolesAreBrandColors`, `EveryCallSettles` | a browser that dies, fails to launch or is restarted loses no slot and doubles none; the picture is of the logo, the roles are colors of the site, every call is answered |
| `accounts` (593,609) | 2 users, 2 requests, 2 keys, projects and jobs, caps of 1 | `TypeOK`, `LimitsOverrunBounded`, `StoredOptionsFit`, `OwnersOnly` | limits are exceeded only by what runs at once; what is stored can be done; rows change only by their owners |
| `dashboard` (583,655) | all modes, 2 optional fields at a time, 1 result, 2 jobs, a job that keeps `JobView` | `FormAgreesWithApi`, `OneJobPerAnswer`, `QuietPageIsFresh`, `EventuallyShowsEnd` | what the form sends passes the schema, one submission makes one job, a page at rest shows the end |

**Why the bounds are enough.** *Jobs.* The properties of `job_safety` and
`job_ends` are about one job, and the only statements that relate jobs are the
active-job cap and the choice of a batch. Two processes give two
reconcilers, two dispatchers and two cancels of one job, which is every pair of
racing roles; the proofs of section 15 are for any number. `job_safety` has no
`Crash`: for a safety property a crashed task is one that takes no further step,
and the second process stands for the restarted one; `Crash` itself is fired by
`job_ends` and covered by the proofs. *Crawls.* With two pages a document may be
listed behind the cursor or ahead of it; with one document a request and one
request a call every pull takes more than one of each, and two calls are just enough for a
drain: one that runs out of rounds needs a third page (with three, and without the exemption
of `short`, TLC finds a crawl that is completed without its last page). `MaxFaults` is 1; with 2
the run has 5,837,478 states, and the proofs are for any number. *Traffic.* Two
collectors of one run can end in two workers at once; two runs of one domain need
two requests. In `traffic_ends` one worker that may crash is enough, since what a task owes to
another one is its lease and its row; two attempts of finalize are the fewest that
distinguish a retry from a give-up, one deferral sends a collector back to the queue, and
with two runs and a sweep of one a run that was given up takes the other's place. (Two runs
whose collectors are retried as well have 4,956,342 states.)
*Results.* Two writers share a URL, which is what a conflict needs; four writers and
pages of two give a reader a second page, a full last page, and a row that
slips in before the offset. Jobs meet only in the list a deletion takes, which
the proofs cover for any number. *Engine calls.* One unit is 5 s. The code's
15 s of the catalog, 10 s of one request, 15 + 5 s of the probe, 30 s of
a request and 15 + 5 s of the sitemap keep their proportions; what is below 5 s
(`Grace`, `MinFetch`) is rounded up. `OrphanLimit` is not the code's 120 s but the least
that `TimesAssumption` admits, 95 s, so that the bound is seen to be exact.
Two pages in parallel of two products each put the budgets and catalogs on
and beside every boundary. Two domains make two chunks of one.
*Egress.* Two requests and one tunnel are the fewest for a limit that is checked
before an `await` and counted after it. *Brand.* Two calls and one slot make one wait;
one page has its logo, a chat widget and every source of colors, the other, before
its header is laid out, an offer that hides it and a banner in place of the logo, so that
each reading can tell two looks apart. *Accounts.* Two users, and two
requests at a time, of one user or of both; the bodies lie on both sides of each limit
of the schema and the configuration. *Dashboard.* Two optional fields that are not blank
are every pair; one result and one figure make a view that is old and one that is new; `Outcomes` is
`completed` alone, for the page tells it from no other end, and `cancelled` comes from its button.
Workers, requests, collectors, writers, pages and processes are symmetric; symmetry is
used in safety runs only.

**Bounds by name.** `MaxCrashes`, `MaxFaults`, `PerDomain` (runs of a domain), `MaxRuns`,
`MaxSessions`, `MaxRestarts`, `MaxTyped`, `MaxPages` and `MaxJobs` cap counters.
`Attempts`, `Defers`, `Sweep`, `MaxTunnels`, `MaxConcurrency`, `MaxActive`, `MaxActiveKeys` and
`MaxActiveJobs` are settings of the code with smaller values.

## 14. What the models showed

One place where the code does something else than a test says has a run whose
counterexample is the explanation; `PROJECT.json`, `findings`, has the quotation.

- **A cancel while a crawl starts** finds no engine id and marks the row; the id
  is stored afterwards and the crawl runs on with nobody to stop it (`jobs.ts:355`).

Also seen while modelling, without a run of its own. *Jobs and crawls:*

- `runScrape` re-reads the status, then awaits the blob upload and the insert; a
  cancel in between leaves a stored page on a cancelled job (`jobs.ts:274-278`).
- Overlapping syncs of one crawl may leave counters that miss pages: a sync
  that outlived its lease writes the counts it read before the other's drain,
  just before that one finishes the job (`reconciler.ts:126`).
  `CountersMatchRows` names the exception.
- The active-job and key caps are checked by one statement and enforced by none
  (`jobs.ts:176`, `keys.ts:25`); `LimitsOverrunBounded` says by how much concurrent
  requests exceed them.
- Two first uses of an account at once may both make a default project (`repos.ts:112`).
- A drain of a completed crawl stops in mid-list, without a warning, at a 404
  (`firecrawl.ts:452-454`) and after 4200 documents (`reconciler.ts:171`), where the comment
  speaks of "a full re-scan from cursor 0" (`reconciler.ts:178`); see section 4.
- `pages_succeeded` and `pages_failed` are plain writes (`repos.ts:301`), so a client may see
  them fall when syncs overlap; `pages_discovered` and `pages_processed` only grow.
  `FiguresAgree` is what holds of all four at every moment.
- An export whose project is deleted midway ends as if it were complete
  (`routes/jobs.ts:289-299`). `ReadingMissesNothing` names the exception.
- The batch of leases is 20 (`repos.ts:331`): a tick that takes long delays the others.
- A body stays in the storage when its writer finds the job gone, or stores it
  after the deletion removed the job's prefix; so does everything of a deletion
  whose process died amid the clean-up, for a second `DELETE` answers 404
  (`projects.ts:49-54`). `DeletedResultsAreGone` says what is left of the promise.

*Engine:*

- A thin page is a success, and is lost when the retry with a render wait cannot
  reach the engine: the call throws (`firecrawl.ts:271`). `ScrapeKeepsSuccess`
  names the exception.
- A scrape may take two requests of its timeout and 30 s each; another instance may call it
  interrupted 60 s after its timeout (`reconciler.ts:89`).
- The 120 s of the start of a crawl hold as long as twice the probe's 20 s, the
  gathering's 20 s and `FIRECRAWL_REQUEST_TIMEOUT_MS` stay below them
  (`TimesAssumption`): 90 s by default, but the setting has no upper limit.
- A catalog page with an entry that `parseCatalogPage` drops looks short, and ends
  the catalog early (`catalog.ts:103`). `CatalogIsWhole` is about catalogs whose
  entries are all readable.
- Whether a crawl may leave its host is decided by the host as written: one with a dot
  at the end looks like a subdomain of itself (`firecrawl.ts:326`).
- A refusal of the egress proxy's policy within a tunnel comes back as a connection
  that failed, and is retried (`firecrawl.ts:304`).

*Traffic estimator:*

- When the last attempt of finalize dies with its worker, `recover_lost` fails the task,
  the scheduler sees a stale run, and the insert of a new finalize task meets the old
  one's dedupe key (`queue.py:166`, `scheduler.py:46`): the run never ends. Such runs stay
  among those the scheduler selects with `LIMIT 100` and no order (`scheduler.py:54`); a
  hundred of them can keep a run whose finalize was never queued from being looked at.
  `EveryRunEndsOrIsLost` names both exceptions, and without the second TLC finds the run
  that starves.
- A late worker's exception on the last attempt of finalize makes a completed run a failed
  one (`worker.py:152-156`), and a late finalize a failed one completed.
  `EndedRunStaysEnded` is that neither is active again.
- A concurrency of 0 stops a collector; the setting's comment says it is
  unlimited (`queue.py:101`).
- A refresh whose run failed answers 200 "ready" with the old estimate; the bulk route
  reports a domain the service does not know as invalid.
- The list loader removes files before it commits (`loader.py:215`); the rate limiter
  may evict a host that is in use (`ratelimit.py:88`).

*Brand service:*

- A page whose script does not end keeps its slot: `page.evaluate` has no timeout.
- A logo that only JSON-LD names agrees with itself and gets high confidence, where the
  comment speaks of agreement with the pick from the page (`brand.ts:259-260`). A tint
  that no brand element carries, and a middle grey that one does, count as brand
  colors, of which the comment says nothing (`color.ts:260-263`). The colors of a chat
  widget count when pixels are sampled, though not when elements are read.

- A 200 of the service whose body cannot be read, also because the caller's timer fired while it
  came, is a success with an empty branding (`branding.ts:87-88`).

*Egress proxy:*

- Requests that are decided at once may open more tunnels than
  `MAX_TUNNELS`, because the limit is read before the lookup.
- `http://trusted:0/` passes the pre-flight check (`net-policy/src/index.ts:204-207`) and is
  refused by the proxy as having no port (`egress-proxy/src/index.ts:68`).
- When a target breaks off in mid-body, the forwarded reply is neither ended nor counted in
  `upstream_errors` (`egress-proxy/src/index.ts:174-183`).

## 15. What is proved

52 theorems in eight modules, each for every value of the constants that meets the named
assumptions. None of the safety properties is inductive by itself; each module has
an invariant that is, checked by TLC on the run's instance before it was proved.

**`JobLifecycle_proofs`** (any processes, jobs, caps, batches, crashes and faults).

| Theorem | States |
|---|---|
| `Invariant` | `Spec => []IInv` |
| `TypeCorrect` | `Spec => []TypeOK` |
| `EngineCalledOnce` | `Spec => []EngineCalledAtMostOnce` |
| `TimelineIsTruthful` | `Spec => []TimelineMatchesStatus` |
| `CompletedScrapesHavePages` | `Spec => []CompletedScrapeHasPage` |
| `ViewKept` | `Spec => ViewAdvances` |
| `Refinement` | `Spec => ImplementsJobSpec` |

`IInv` is the conjunction of `TypeOK` and five named parts, each with a lemma that a
step preserves it:

- `Outcomes`: what outcome a task holds at each statement (needed to type what
  it writes);
- `Executor`: a job that is not yet claimed has not been called and has no page;
  at most one task is inside dispatch for a job; a task at `started` is yet to
  make its call. From `Claim`'s guard alone `EngineCalledAtMostOnce` does
  not follow: one must know that nobody else stands between the claim and
  the call, whatever the reconcilers and restarts did;
- `Stage`: a task that syncs, or is about to complete or fail a job, works on
  one that was started. This is why a queued job can only be cancelled, which
  `Refinement` needs;
- `Timeline`: at most one task stands between the `UPDATE` that ended a job and
  the insert of its event, and it holds the row's status. The lemma
  `NoEventPending` gives the other half: before a job has ended nobody does;
- `Page`: before the executor has stored the page there is none (so the
  insert's first-row-wins conflict cannot keep an older one), and at `finish`
  with `completed` on a running scrape the page is stored and counted. It needs
  `Executor`.

`VisibleSteps` says that every step leaves what a client sees alone, stores or counts the
page of a scrape, or is one of six kinds of change of `status` and `audit`, which are the
actions of `JobSpec`; `ViewKept` and `Refinement` both follow from it.

**`CrawlSync_proofs`** (any processes, pages, page sizes, rounds and disturbances).

| Theorem | States |
|---|---|
| `TypeCorrect` | `Spec => []Typed` |
| `FiguresRight` | `Spec => []FiguresAgree` |
| `CountersRight` | `Spec => []CountersMatchRows` |
| `CompleteCrawls` | `Spec => []CompletedCrawlIsComplete` |
| `ViewKept` | `Spec => ViewAdvances` |

`CountersRight` rests on `CountInv`: while no two syncs have overlapped, one process
works (`Alone`), and what it has counted is what the rows say from `Count` until it
finishes (`Counted`). `CompleteCrawls` rests on `PageInv`: the engine lists what it
delivered and nothing twice (`Listed`), a row is of the kind of its page (`Rows`), and a
sync is `Fine`: in a final drain every listed document is a row, is in the page in hand,
or is at or after the offset of the next request. A document that is inserted while the
drain runs cannot spoil it, because a drain of a crawl that has ended meets a list that no
longer changes. Nothing is assumed of the number of rounds: a drain that is at its end has
passed the whole list, or is `short`.
`FiguresRight` rests on an invariant of its own (`FigureInv`): what a sync has counted is at
most what is stored, for rows stay and keep their kind, and each report takes at least what it counted.
`ViewKept` is built from what steps do to the row: `StatusFollows` (only `Finish` and
`Cancel` end a crawl, and only one that runs), `FiguresRest` (`Record` writes nothing unless
it runs) and `NextKeepsRows` (a page that has a row keeps one).

**`ResultStore_proofs`** (any finite sets of jobs and writers, any page size, any faults;
for `SizeLimit` any body, budget and slack).

| Theorem | States |
|---|---|
| `Invariant`, `TypeCorrect` | `Spec => []IInv`, `Spec => []TypeOK` |
| `RowsHaveBlobs` | `Spec => []RowHasBlob` |
| `NoLeftovers` | `Spec => []NothingLeftBehind` |
| `DeletionIsThorough` | `Spec => []DeletedResultsAreGone` |
| `ReadingIsComplete` | `Spec => []ReadingMissesNothing` |
| `BodyFits`, `MarkdownIsLast` | `applySizeLimit` meets the budget, and cuts the markdown last |

That a row which is about to be committed has its body depends on what its writer did
before (`Progress`), and that no blob is removed under a row depends on the order of
the deletion (`Removal`: blobs are removed only when all rows are gone; `Kept`: before
that every body that was stored and not discarded is there). `Cleaned` relates the blobs
that are left to the prefixes that are still to be removed; it holds because a row can
be committed only while the job exists, before the rows are deleted.

`ReadInv` is the invariant of the reader: `before` is a strict total order of the rows
that are committed or being inserted; what is unread of the rows there were when the
reading began is at or after the offset; and while none came in, the pages read so far
hold them in order. Positions only grow, for rows go only with the whole project, so
no row slips from after the offset to before it (`OffsetsGrow`); of a reader that is `late`
nothing is claimed. That a short page is the last one is a counting
argument (`NoRowAfter`): positions are ranks, fewer than `n` rows are below `n` only if none is
beyond. It is built from `SmallerPart`, `RankOrders`, `RanksAreFew` and
`RanksAreFull`, which are about any finite strict order.

`BodyFits` holds because a text loses at least as many bytes of JSON as bytes of its own
when it is cut, so what is cut by bytes is enough for the budget in JSON.

**`EngineCalls_proofs`** (any timeouts that meet `TimesAssumption`, any sizes, budgets and
catalogs that meet `SizesAssumption`; for the traffic adapter any domains, chunks and
waits).

| Theorem | States |
|---|---|
| `Invariant`, `TypeCorrect` | `Spec => []IInv`, `Spec => []TypeOK` |
| `CallsSettle` | `Spec => []CallSettlesInTime` |
| `SuccessIsKept` | `Spec => []ScrapeKeepsSuccess` |
| `CatalogsAreWhole` | `Spec => []CatalogIsWhole` |
| `BudgetsAreFilled` | `Spec => []BudgetIsFilled` |
| `TrafficAnswersCurrent` | `CallSpec => []TrafficAnswerIsCurrent` |

`IInv` gives each stage the time by which it is over (`Timing`: `due` of
the stage is at most the sum of the stages before it), what a retry knows of the
first outcome (`Retrying`), and where a catalog stands (`CatalogSound`: as long as
it is read, all pages so far were full, so `found` is `Size` times the
pages). The arithmetic is in two lemmas about the operators, `ShareFills` and
`RoundFinds`. The first six theorems are about the adapter's own actions (`Spec`);
the run takes `CallSpec`, which interleaves them with requests about traffic.

`TrafficAnswersCurrent` rests on `TrafficInv`: types, what is known at each stage of a
request (`TrafficStages`), and `Seen(d)`: the run a lookup has read is no older than the
one the request joined, a run it saw completed has completed for good, and the estimate it
read after that is no older. That there is a latest estimate to read follows without
induction from the least element of a set of numbers (`LeastNumber`).

**`EgressProxy_proofs`** (any clients, targets, DNS answers and limit).

| Theorem | States |
|---|---|
| `Invariant`, `TypeCorrect` | `Spec => []IInv`, `Spec => []TypeOK` |
| `TunnelsAreCounted` | `Spec => []TunnelsCounted` |
| `OnlyVetted` | `Spec => []ConnectsOnlyToVetted` |
| `PreflightIsRight` | `Spec => []PreflightAgrees` |

`Known` says that a request that is under way has a target, `Vetting` that one past its
decision has an address left and that each of them is vetted. `Vetted` and `Resolved`
are lemmas about `NetPolicy`: whatever DNS said, what a decision gives is public and on an allowed port, or is that of a trusted host.
`SameDecision` compares the operators of the API with those of the proxy; it needs
`NormalizedOnce` (normalising a host twice changes nothing more), and that needs
`TargetsAssumption`. That every port the policy allows is one (`PortsAssumption`) is what makes
port 0 the only difference.

**`BrandService_proofs`** (any calls, pages, colors and concurrency).

| Theorem | States |
|---|---|
| `Invariant`, `TypeCorrect` | `Spec => []IInv`, `Spec => []TypeOK` |
| `SlotsInUse` | `Spec => []SlotsAreUsed` |
| `PictureIsOfLogo` | `Spec => []LogoImageIsOfChosen` |
| `RolesAreOfTheBrand` | `Spec => []RolesAreBrandColors` |

`Line` says that the waiters are the queued calls, each once; `Slots` that the count of
active ones is the number of those that hold a slot. Handing a slot on leaves the count
as it is, which is why `Release` must not decrease it for a waiter. `Pictured` relates the
captured look to the one whose candidate was chosen.

`RolesAreOfTheBrand` is a fact about `pickColors` for any finite maps of whole numbers
(`Measured`), which the maps of every look are (`InputsMeasured`: nothing divides by zero,
every sum is of finitely many). `Groups` is what its loops keep: each source of a group has
a color in the pool that is `Alike` the group's (`Fit`), which a color that joins does not
change, because the group keeps the color it began with and takes only near ones
(`JoinFits`, `ClusterFits`). A group that is ranked scores, so it has a source other than the
screenshot (`Supported`, `RankedFits`), and what is in the pool for such a source is the
site's own (`PooledFits`). `SecondFound` and `ThirdFound` tell the roles apart. The folds are
over sets and sequences of any length; as the library's induction theorems cannot be used,
`FoldExists` and `FoldStays` come from `LeastNumber`, that a set of numbers has a least one:
they give the function that a fold's `CHOOSE` stands for, and what it keeps.

**`Accounts_proofs`** (any users, rows, requests, limits and bodies).

| Theorem | States |
|---|---|
| `Invariant`, `TypeCorrect` | `Spec => []IInv`, `Spec => []TypeOK` |
| `OverrunBounded` | `Spec => []LimitsOverrunBounded` |
| `OnlyOwners` | `Spec => OwnersOnly` |
| `StoredFit` | `Spec => []StoredOptionsFit` |

`Pending` says for whom a request runs and what it holds at each query; `Known` that who
has a session is registered. The bound on an overrun counts the rows together with the requests that
were found to be below the limit and have yet to insert. `StoredFit` rests on what a stored body is
(`Taken`: one that `Normalize` accepted), and on lemmas about `JobInput`: `Accepted`,
`ScrapeOptionsFit` (the wait is at most half of the timeout), `AskedFits` (in every variant
of the request), `ScopeFits` and `CrawlFits`.

Of `Dashboard` (any fields, patterns, policy, limits, outcomes and numbers of results that meet
its two assumptions), whose specification is `DashSpec`:

| Theorem | States |
|---|---|
| `DashInvariant` | `DashSpec => []DashInv` |
| `FormAgrees` | `DashSpec => []FormAgreesWithApi` |
| `OneJob` | `DashSpec => []OneJobPerAnswer` |
| `QuietFresh` | `DashSpec => []QuietPageIsFresh` |

`DashInv` has seven parts. `Filling` and `Posting` say that a request on its way is what the
form, which stands still meanwhile, made of itself; `FormAgrees` follows from them field by
field of `Body`, for each mode. `Making` counts jobs against what the form was told: one that
was made is in the answer, is shown, or awaits the sign-in. For `QuietFresh` one must know of
every answer that is still under way what it may show: `EndIsEnd` (an answer that speaks of an
end speaks of the end there is, since `Follows` leaves an end alone and `Advances` its
figures), `Alive` (the page asks again unless it shows an end or an error) and `Following`:
the results are those of the present filter and, once the page knows of the end, at least the
`final` ones, or they are asked for again. That holds because the change of status is itself
a reason to fetch them (`RefreshKey`), and a fetch under way is dropped when there is one.

**`TrafficPipeline_proofs`** (any domains, collectors, workers, requests, caps, attempts,
deferrals and faults).

| Theorem | States |
|---|---|
| `Invariant`, `TypeCorrect` | `Spec => []IInv`, `Spec => []TypeOK` |
| `CapsAreExact` | `Spec => []RunningWithinCap` |
| `CollectedOnce` | `Spec => []OneCollectingRun` |
| `NoSourceIsMissed` | `Spec => []EstimateUsesEverySource` |
| `EndedStays` | `Spec => EndedRunStaysEnded` |

`Claiming` is the argument of the advisory lock: a worker between the snapshot and the
commit holds it, its task is still queued and the kind is still below its cap.
`Requesting` is the same for the row lock of a domain, which has no active run while a
request creates one. `Sources` says that there is a finalize task only when the
collectors have come to an end, and that the features that are read have everything they
stored. `Created` and `Working` say which tasks there are and who executes what.
`EndedStays` is that a run which has ended is never active again; a completed one may
become failed.

**Only model-checked.** The liveness properties (`EveryJobEnds`, `EveryRunEndsOrIsLost`,
`EveryRequestSettles`, `EveryCallSettles`, `EventuallyShowsEnd`), since fairness and
`ENABLED` are out of the prover's reach. Every invariant and action property that a passing
run checks is stated by a theorem.

## 16. What is not modelled, and the plan

Not to be modelled: presentation, metrics, wiring, read-only endpoints, offline
evaluation and training, shell scripts (no state of their own, or pure I/O); HTML parsing,
color arithmetic and the estimators' scoring (real arithmetic and text).

Left out so far: the list loader (file and table across a crash); the crawler's frontier,
rate limiter and circuit breaker; requests of several domains in `TrafficPipeline`, for the
order in which they lock rows (a hazard of `PROJECT.json` without a property); the dashboard's
other pages.

## 17. Running it

```
tlc -workers 2 -config JobSafety.cfg MCJobLifecycle.tla
tlc -workers 2 -config Crawl.cfg MCCrawlSync.tla
tlc -workers 2 -config TrafficSafety.cfg MCTrafficPipeline.tla
tlc -workers 2 -config Results.cfg MCResultStore.tla
tlc -workers 2 -config EngineCalls.cfg MCEngineCalls.tla
tlc -workers 2 -config Egress.cfg MCEgressProxy.tla
tlc -workers 2 -config Brand.cfg MCBrandService.tla
tlc -workers 2 -config Accounts.cfg MCAccounts.tla
tlc -workers 2 -config Dashboard.cfg MCDashboard.tla
for m in JobLifecycle CrawlSync TrafficPipeline ResultStore EngineCalls EgressProxy BrandService Accounts
do tlapm ${m}_proofs.tla; done
```

`PROJECT.json` lists every run with its module and configuration. Each takes up to four
minutes with two workers, the proofs of a module between one and ten.
