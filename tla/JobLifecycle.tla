---------------------------- MODULE JobLifecycle ----------------------------
(***************************************************************************)
(* The life of a scrape or crawl job in apps/api: JobService (create,      *)
(* dispatch, runScrape, startCrawl, cancel) and the Reconciler, run by     *)
(* several API processes over one `jobs` table and one scraping engine.    *)
(*                                                                         *)
(* An async activity of a process is a task; its program counter names the *)
(* statement it is about to execute, so every `await` on the database or   *)
(* the engine is a point where the other tasks may run.  A process crash   *)
(* loses its tasks and nothing else.  Pages of a crawl are abstracted away *)
(* here (CrawlSync has them); a scrape keeps its single page.              *)
(***************************************************************************)
EXTENDS JobView, Sequences, FiniteSets

CONSTANTS
  Instance,    \* API processes
  Job,         \* job ids that may be created, all for one user
  MaxActive,   \* limits.maxActiveJobsPerUser
  Batch,       \* BATCH of the reconciler
  MaxCrashes,  \* bound on process crashes
  Allowed      \* what the environment may do, see Disturbance

\* "throw": a database or storage call of a live process rejects; "engine": an
\* engine request fails; "delete": a project is deleted; "cancel": a user
\* cancels a job.
Disturbance == {"throw", "engine", "delete", "cancel"}

ASSUME ConstantsAssumption ==
  /\ MaxActive \in Nat \ {0}
  /\ Batch \in Nat \ {0}
  /\ MaxCrashes \in Nat
  /\ Allowed \subseteq Disturbance

VARIABLES
  \* columns of the jobs table
  status,      \* "absent" before INSERT, "deleted" after the project's cascade
  type,        \* "scrape" or "crawl", once inserted
  leased,      \* lease_until > now()
  engineId,    \* engine_job_id IS NOT NULL
  progress,    \* what updateProgress last recorded for a scrape's page
  \* clocks read against the row
  overdue,     \* the age limit for the job's present stage has passed
  silent,      \* updated_at is older than ENGINE_OUTAGE_FAIL_MS
  \* other tables
  stored,      \* the scrape's row in `results`
  audit,       \* terminal events in `job_events`, in order of insertion
  \* the engine
  crawl,       \* state of the engine's crawl for the job
  calls,       \* number of times a job was handed to the engine
  \* the processes
  pc,          \* next statement of each task
  to,          \* outcome a task is about to record
  seen,        \* job row a task read and still relies on
  crashes

rowVars == <<status, type, leased, engineId, progress>>
clockVars == <<overdue, silent>>
otherVars == <<stored, audit>>
engineVars == <<crawl, calls>>
taskVars == <<pc, to, seen>>
vars == <<rowVars, clockVars, otherVars, engineVars, taskVars, crashes>>

-----------------------------------------------------------------------------
Status == {"absent", "deleted"} \cup Active \cup Ended

\* "http": the POST that creates a job and the dispatch it starts; "rec": the
\* reconcile() of one leased job, and the dispatch it may await; "cancel": a
\* cancel request.
Role == {"http", "rec", "cancel"}
Task == [inst : Instance, role : Role, job : Job]

DispatchPC == {"started", "engine", "check", "persist", "progress",
               "setid", "release"}
SyncPC == {"overbudget", "sync", "syncprogress", "drain"}
PC == {"idle", "insert", "claim", "leased", "unlease", "redispatch",
       "enginecancel", "finish", "event"} \cup DispatchPC \cup SyncPC

NoRow == [status |-> "absent", engineId |-> FALSE,
          overdue |-> FALSE, silent |-> FALSE]
Row(j) == [status |-> status[j], engineId |-> engineId[j],
           overdue |-> overdue[j], silent |-> silent[j]]
RowSnapshot == [status : Status, engineId : BOOLEAN,
                overdue : BOOLEAN, silent : BOOLEAN]

ActiveJobs == {j \in Job : status[j] \in Active}

\* JobService.inFlight of process i: set before the engine is called, deleted
\* in the finally block when the call returns.
InFlight(i, j) ==
  /\ type[j] = "scrape"
  /\ \E t \in Task : t.inst = i /\ t.job = j /\ pc[t] = "engine"

-----------------------------------------------------------------------------
Init ==
  /\ status = [j \in Job |-> "absent"]
  /\ type = [j \in Job |-> "none"]
  /\ leased = [j \in Job |-> FALSE]
  /\ engineId = [j \in Job |-> FALSE]
  /\ progress = [j \in Job |-> "none"]
  /\ overdue = [j \in Job |-> FALSE]
  /\ silent = [j \in Job |-> FALSE]
  /\ stored = [j \in Job |-> "none"]
  /\ audit = [j \in Job |-> <<>>]
  /\ crawl = [j \in Job |-> "none"]
  /\ calls = [j \in Job |-> 0]
  /\ pc = [t \in Task |-> "idle"]
  /\ to = [t \in Task |-> "none"]
  /\ seen = [t \in Task |-> NoRow]
  /\ crashes = 0

\* Control moves of a task.
Goto(t, p) == pc' = [pc EXCEPT ![t] = p] /\ UNCHANGED <<to, seen>>
GotoWith(t, p, outcome) ==
  /\ pc' = [pc EXCEPT ![t] = p]
  /\ to' = [to EXCEPT ![t] = outcome]
  /\ seen' = [seen EXCEPT ![t] = NoRow]
Return(t) == GotoWith(t, "idle", "none")

\* updated_at = now(), and the row enters a stage with an age limit of its own
\* (none once it has ended).
ResetClocks(j) ==
  /\ overdue' = [overdue EXCEPT ![j] = FALSE]
  /\ silent' = [silent EXCEPT ![j] = FALSE]

-----------------------------------------------------------------------------
(* JobService.create: the active jobs are counted in one statement and the *)
(* row is inserted by a later one; dispatch then starts without await.     *)

CreateCheck(t) ==
  /\ t.role = "http" /\ pc[t] = "idle" /\ status[t.job] = "absent"
  /\ \A u \in Task : u.job = t.job => pc[u] # "insert"
  /\ Cardinality(ActiveJobs) < MaxActive
  /\ Goto(t, "insert")
  /\ UNCHANGED <<rowVars, clockVars, otherVars, engineVars, crashes>>

CreateInsert(t) ==
  /\ pc[t] = "insert" /\ status[t.job] = "absent"
  /\ status' = [status EXCEPT ![t.job] = "queued"]
  /\ \E ty \in {"scrape", "crawl"} : type' = [type EXCEPT ![t.job] = ty]
  /\ Goto(t, "claim")
  /\ UNCHANGED <<leased, engineId, progress, clockVars, otherVars,
                 engineVars, crashes>>

\* The project is gone: the insert violates its foreign key.
CreateRejected(t) ==
  /\ pc[t] = "insert" /\ status[t.job] # "absent"
  /\ Return(t)
  /\ UNCHANGED <<rowVars, clockVars, otherVars, engineVars, crashes>>

-----------------------------------------------------------------------------
(* JobService.dispatch *)

\* Mutant: the UPDATE forgets AND status = 'queued'.
ClaimAnyStatus(t) ==
  /\ pc[t] = "claim" /\ status[t.job] \in Active
  /\ status' = [status EXCEPT ![t.job] = "running"]
  /\ leased' = [leased EXCEPT ![t.job] = TRUE]
  /\ ResetClocks(t.job)
  /\ Goto(t, "started")
  /\ UNCHANGED <<type, engineId, progress, otherVars, engineVars, crashes>>

\* jobs.claim: the atomic queued -> running transition.
Claim(t) ==
  /\ pc[t] = "claim" /\ status[t.job] = "queued"
  /\ status' = [status EXCEPT ![t.job] = "running"]
  /\ leased' = [leased EXCEPT ![t.job] = TRUE]
  /\ ResetClocks(t.job)
  /\ Goto(t, "started")
  /\ UNCHANGED <<type, engineId, progress, otherVars, engineVars, crashes>>

\* The UPDATE matched no row: dispatch returns.
ClaimLost(t) ==
  /\ pc[t] = "claim" /\ status[t.job] # "queued"
  /\ Return(t)
  /\ UNCHANGED <<rowVars, clockVars, otherVars, engineVars, crashes>>

\* The job.started event is written and the job goes to engine.scrape or
\* engine.crawl.
CallEngine(t) ==
  /\ pc[t] = "started"
  /\ calls' = [calls EXCEPT ![t.job] = @ + 1]
  /\ Goto(t, "engine")
  /\ UNCHANGED <<rowVars, clockVars, otherVars, crawl, crashes>>

\* External: the engine accepts POST /v2/crawl; its answer comes later.
EngineAccepts(t) ==
  /\ pc[t] = "engine" /\ type[t.job] = "crawl"
  /\ crawl[t.job] = "none"
  /\ crawl' = [crawl EXCEPT ![t.job] = "scraping"]
  /\ UNCHANGED <<rowVars, clockVars, otherVars, calls, taskVars, crashes>>

\* runScrape: engine.scrape (and branding) resolved with a good or a bad page.
\* An abort() by cancel leaves both possible: a thin first page is kept when
\* the aborted retry fails.
ScrapeReturns(t) ==
  /\ pc[t] = "engine" /\ type[t.job] = "scrape"
  /\ \E outcome \in {"completed", "failed"} : GotoWith(t, "check", outcome)
  /\ UNCHANGED <<rowVars, clockVars, otherVars, engineVars, crashes>>

\* runScrape: the status is read again before anything is stored.
RecheckStatus(t) ==
  /\ pc[t] = "check" /\ status[t.job] = "running"
  /\ Goto(t, "persist")
  /\ UNCHANGED <<rowVars, clockVars, otherVars, engineVars, crashes>>

\* The job ended while the scrape was in flight: its result is dropped.
DropResult(t) ==
  /\ pc[t] = "check" /\ status[t.job] # "running"
  /\ Return(t)
  /\ UNCHANGED <<rowVars, clockVars, otherVars, engineVars, crashes>>

\* Mutant: the counters are not updated after the page is stored.
PersistPageOnly(t) ==
  /\ pc[t] = "persist" /\ status[t.job] # "deleted"
  /\ stored' = [stored EXCEPT ![t.job] = IF @ = "none" THEN to[t] ELSE @]
  /\ Goto(t, "finish")
  /\ UNCHANGED <<rowVars, clockVars, audit, engineVars, crashes>>

\* resultsSvc.persistPage: INSERT ... ON CONFLICT DO NOTHING.
PersistPage(t) ==
  /\ pc[t] = "persist" /\ status[t.job] # "deleted"
  /\ stored' = [stored EXCEPT ![t.job] = IF @ = "none" THEN to[t] ELSE @]
  /\ Goto(t, "progress")
  /\ UNCHANGED <<rowVars, clockVars, audit, engineVars, crashes>>

\* jobs.updateProgress, effective only WHERE status = 'running'.
UpdateProgress(t) ==
  /\ pc[t] = "progress"
  /\ \/ /\ status[t.job] = "running"
        /\ progress' = [progress EXCEPT ![t.job] = to[t]]
        /\ silent' = [silent EXCEPT ![t.job] = FALSE]
     \/ status[t.job] # "running" /\ UNCHANGED <<progress, silent>>
  /\ Goto(t, "finish")
  /\ UNCHANGED <<status, type, leased, engineId, overdue, otherVars, engineVars,
                 crashes>>

\* startCrawl: engine.crawl answered with the id of the crawl it accepted.
CrawlReturns(t) ==
  /\ pc[t] = "engine" /\ type[t.job] = "crawl"
  /\ crawl[t.job] # "none"
  /\ Goto(t, "setid")
  /\ UNCHANGED <<rowVars, clockVars, otherVars, engineVars, crashes>>

\* jobs.setEngineJobId has no condition on the status; it bumps updated_at,
\* and from here on the age limit is the crawl's duration budget.
SetEngineJobId(t) ==
  /\ pc[t] = "setid"
  /\ \/ /\ status[t.job] # "deleted"
        /\ engineId' = [engineId EXCEPT ![t.job] = TRUE]
        /\ ResetClocks(t.job)
     \/ status[t.job] = "deleted" /\ UNCHANGED <<engineId, clockVars>>
  /\ Goto(t, "release")
  /\ UNCHANGED <<status, type, leased, progress, otherVars, engineVars, crashes>>

\* startCrawl's releaseLease, whoever holds the lease now.
ReleaseAfterStart(t) ==
  /\ pc[t] = "release"
  /\ leased' = [leased EXCEPT ![t.job] = FALSE]
  /\ Return(t)
  /\ UNCHANGED <<status, type, engineId, progress, clockVars, otherVars,
                 engineVars, crashes>>

\* Any await of dispatch may reject (engine unreachable or refusing, database
\* or storage error, foreign key of a deleted project): the catch block fails
\* the job.
DispatchThrows(t) ==
  /\ \/ pc[t] \in DispatchPC /\ "throw" \in Allowed
     \/ pc[t] = "engine" /\ "engine" \in Allowed
     \/ pc[t] \in {"started", "persist", "release"} /\ status[t.job] = "deleted"
     \/ pc[t] = "finish" /\ to[t] = "completed" /\ type[t.job] = "scrape"
        /\ "throw" \in Allowed
  /\ GotoWith(t, "finish", "failed")
  /\ UNCHANGED <<rowVars, clockVars, otherVars, engineVars, crashes>>

-----------------------------------------------------------------------------
(* Ended transitions: complete, fail and cancel all go through          *)
(* jobs.finish, which only changes a queued or running row; the event is   *)
(* written by the task whose UPDATE matched.                               *)

\* Mutant: finish() without its condition on the status.
FinishAnyStatus(t) ==
  /\ pc[t] = "finish"
  /\ status' = [status EXCEPT ![t.job] = IF @ = "deleted" THEN @ ELSE to[t]]
  /\ leased' = [leased EXCEPT ![t.job] = FALSE]
  /\ ResetClocks(t.job)
  /\ Goto(t, "event")
  /\ UNCHANGED <<type, engineId, progress, otherVars, engineVars, crashes>>

Finish(t) ==
  /\ pc[t] = "finish" /\ status[t.job] \in Active
  /\ status' = [status EXCEPT ![t.job] = to[t]]
  /\ leased' = [leased EXCEPT ![t.job] = FALSE]
  /\ ResetClocks(t.job)
  /\ Goto(t, "event")
  /\ UNCHANGED <<type, engineId, progress, otherVars, engineVars, crashes>>

\* Mutant: the event is written whether or not the UPDATE matched a row.
FinishLostButLogged(t) ==
  /\ pc[t] = "finish" /\ status[t.job] \notin Active
  /\ Goto(t, "event")
  /\ UNCHANGED <<rowVars, clockVars, otherVars, engineVars, crashes>>

\* The UPDATE matched no row: the job has already ended, nothing is recorded.
FinishLost(t) ==
  /\ pc[t] = "finish" /\ status[t.job] \notin Active
  /\ Return(t)
  /\ UNCHANGED <<rowVars, clockVars, otherVars, engineVars, crashes>>

\* jobEvents.add of the transition that was made.
TerminalEvent(t) ==
  /\ pc[t] = "event" /\ status[t.job] # "deleted"
  /\ audit' = [audit EXCEPT ![t.job] = Append(@, to[t])]
  /\ Return(t)
  /\ UNCHANGED <<rowVars, clockVars, stored, engineVars, crashes>>

\* The insert is rejected (always, when the job row is gone); the exception
\* ends in a second, ineffective fail() or releaseLease.
EventLost(t) ==
  /\ pc[t] = "event" /\ (status[t.job] = "deleted" \/ "throw" \in Allowed)
  /\ Return(t)
  /\ UNCHANGED <<rowVars, clockVars, otherVars, engineVars, crashes>>

-----------------------------------------------------------------------------
(* JobService.cancel: acts on the row it read first. *)

CancelRead(t) ==
  /\ "cancel" \in Allowed
  /\ t.role = "cancel" /\ pc[t] = "idle" /\ status[t.job] \in Active
  /\ \/ engineId[t.job] /\ GotoWith(t, "enginecancel", "cancelled")
     \/ ~engineId[t.job] /\ GotoWith(t, "finish", "cancelled")
  /\ UNCHANGED <<rowVars, clockVars, otherVars, engineVars, crashes>>

\* engine.cancel, by cancel (errors only logged) and by an over-budget sync.
\* A crawl that has ended stays as it is.
EngineCancel(t) ==
  /\ \/ pc[t] = "enginecancel" /\ Goto(t, "finish")
     \/ pc[t] = "overbudget" /\ Goto(t, "drain")
  /\ \/ crawl[t.job] = "scraping" /\ crawl' = [crawl EXCEPT ![t.job] = "cancelled"]
     \/ (crawl[t.job] # "scraping" \/ "engine" \in Allowed) /\ UNCHANGED crawl
  /\ UNCHANGED <<rowVars, clockVars, otherVars, calls, crashes>>

-----------------------------------------------------------------------------
(* The reconciler.  tick() leases a batch in one statement and waits for   *)
(* every reconcile() of the batch before the next one.                     *)

Eligible == {j \in Job : status[j] \in Active /\ ~leased[j]}

Tick(i) ==
  /\ \A t \in Task : t.inst = i /\ t.role = "rec" => pc[t] = "idle"
  /\ \E S \in SUBSET Eligible :
       /\ S # {}
       /\ Cardinality(S) =
            IF Cardinality(Eligible) < Batch THEN Cardinality(Eligible) ELSE Batch
       /\ leased' = [j \in Job |-> leased[j] \/ j \in S]
       /\ pc' = [t \in Task |->
                   IF t.inst = i /\ t.role = "rec" /\ t.job \in S
                     THEN "leased" ELSE pc[t]]
       /\ seen' = [t \in Task |->
                     IF t.inst = i /\ t.role = "rec" /\ t.job \in S
                       THEN Row(t.job) ELSE seen[t]]
  /\ UNCHANGED <<status, type, engineId, progress, clockVars, otherVars, engineVars,
                 to, crashes>>

\* Mutant: an orphaned queued job is failed instead of dispatched again.
FailQueuedOrphan(t) ==
  /\ pc[t] = "leased" /\ seen[t].status = "queued"
  /\ IF seen[t].overdue THEN GotoWith(t, "finish", "failed")
                        ELSE GotoWith(t, "unlease", "none")
  /\ UNCHANGED <<rowVars, clockVars, otherVars, engineVars, crashes>>

\* reconcile of a queued job: an orphan goes back to dispatch.
ReconcileQueued(t) ==
  /\ pc[t] = "leased" /\ seen[t].status = "queued"
  /\ GotoWith(t, IF seen[t].overdue THEN "redispatch" ELSE "unlease", "none")
  /\ UNCHANGED <<rowVars, clockVars, otherVars, engineVars, crashes>>

\* reconcile of a running scrape: too old, and not in flight in this process.
ReconcileScrape(t) ==
  /\ pc[t] = "leased" /\ seen[t].status = "running" /\ type[t.job] = "scrape"
  /\ \/ /\ seen[t].overdue /\ ~InFlight(t.inst, t.job)
        /\ GotoWith(t, "finish", "failed")
     \/ /\ ~seen[t].overdue \/ InFlight(t.inst, t.job)
        /\ GotoWith(t, "unlease", "none")
  /\ UNCHANGED <<rowVars, clockVars, otherVars, engineVars, crashes>>

\* Mutant: a crawl the engine never confirmed is left for later for ever.
ReconcileCrawlWithoutOrphans(t) ==
  /\ pc[t] = "leased" /\ seen[t].status = "running" /\ type[t.job] = "crawl"
  /\ \/ ~seen[t].engineId /\ GotoWith(t, "unlease", "none")
     \/ seen[t].engineId /\ seen[t].overdue /\ GotoWith(t, "overbudget", "failed")
     \/ seen[t].engineId /\ ~seen[t].overdue /\ Goto(t, "sync")
  /\ UNCHANGED <<rowVars, clockVars, otherVars, engineVars, crashes>>

\* syncCrawl: what to do follows from the leased row.
ReconcileCrawl(t) ==
  /\ pc[t] = "leased" /\ seen[t].status = "running" /\ type[t.job] = "crawl"
  /\ \/ ~seen[t].engineId /\ seen[t].overdue /\ GotoWith(t, "finish", "failed")
     \/ ~seen[t].engineId /\ ~seen[t].overdue /\ GotoWith(t, "unlease", "none")
     \/ seen[t].engineId /\ seen[t].overdue /\ GotoWith(t, "overbudget", "failed")
     \/ seen[t].engineId /\ ~seen[t].overdue /\ Goto(t, "sync")
  /\ UNCHANGED <<rowVars, clockVars, otherVars, engineVars, crashes>>

\* pullPages and countsForJob: the engine answers with the crawl's state, or
\* is unreachable; after a long outage the job fails, else the sync is retried.
SyncPull(t) ==
  /\ pc[t] = "sync"
  /\ \/ GotoWith(t, "syncprogress",
                 IF crawl[t.job] = "scraping" THEN "none" ELSE crawl[t.job])
     \/ /\ "engine" \in Allowed
        /\ \/ seen[t].silent /\ GotoWith(t, "finish", "failed")
           \/ ~seen[t].silent /\ GotoWith(t, "unlease", "none")
  /\ UNCHANGED <<rowVars, clockVars, otherVars, engineVars, crashes>>

\* updateProgress with the pulled counts, then release or drain.
SyncProgress(t) ==
  /\ pc[t] = "syncprogress"
  /\ silent' = IF status[t.job] = "running"
                 THEN [silent EXCEPT ![t.job] = FALSE] ELSE silent
  /\ Goto(t, IF to[t] = "none" THEN "unlease" ELSE "drain")
  /\ UNCHANGED <<rowVars, overdue, otherVars, engineVars, crashes>>

\* drainAndFinish up to the terminal transition; a completed crawl without a
\* single good page fails.
DrainAndFinish(t) ==
  /\ pc[t] = "drain"
  /\ silent' = IF status[t.job] = "running"
                 THEN [silent EXCEPT ![t.job] = FALSE] ELSE silent
  /\ \E outcome \in {to[t], "failed"} :
       /\ outcome # to[t] => to[t] = "completed"
       /\ GotoWith(t, "finish", outcome)
  /\ UNCHANGED <<rowVars, overdue, otherVars, engineVars, crashes>>

\* releaseLease at the end of reconcile, or before a queued orphan is
\* dispatched again.
ReleaseLease(t) ==
  /\ \/ pc[t] = "unlease" /\ Return(t)
     \/ pc[t] = "redispatch" /\ Goto(t, "claim")
  /\ leased' = [leased EXCEPT ![t.job] = FALSE]
  /\ UNCHANGED <<status, type, engineId, progress, clockVars, otherVars,
                 engineVars, crashes>>

\* An exception in reconcile is caught and the lease released.
ReconcileThrows(t) ==
  /\ "throw" \in Allowed
  /\ t.role = "rec" /\ pc[t] \in SyncPC \cup {"finish"}
  /\ GotoWith(t, "unlease", "none")
  /\ UNCHANGED <<rowVars, clockVars, otherVars, engineVars, crashes>>

\* A database error before the claim, or in a cancel request, only ends the
\* activity.
RequestThrows(t) ==
  /\ "throw" \in Allowed
  /\ pc[t] = "claim" \/ (t.role = "cancel" /\ pc[t] = "finish")
  /\ Return(t)
  /\ UNCHANGED <<rowVars, clockVars, otherVars, engineVars, crashes>>

-----------------------------------------------------------------------------
(* The environment: the engine's crawl, the clock, crashes, and the        *)
(* deletion of the job's project, whose cascade removes row and results.   *)

CrawlEnds(j) ==
  /\ crawl[j] = "scraping"
  /\ \E s \in Ended : crawl' = [crawl EXCEPT ![j] = s]
  /\ UNCHANGED <<rowVars, clockVars, otherVars, calls, taskVars, crashes>>

LeaseExpires(j) ==
  /\ leased[j]
  /\ leased' = [leased EXCEPT ![j] = FALSE]
  /\ UNCHANGED <<status, type, engineId, progress, clockVars, otherVars,
                 engineVars, taskVars, crashes>>

Elapse(j) ==
  /\ status[j] \in Active /\ ~overdue[j]
  /\ overdue' = [overdue EXCEPT ![j] = TRUE]
  /\ UNCHANGED <<rowVars, silent, otherVars, engineVars, taskVars, crashes>>

Outage(j) ==
  /\ status[j] = "running" /\ engineId[j] /\ ~silent[j]
  /\ silent' = [silent EXCEPT ![j] = TRUE]
  /\ UNCHANGED <<rowVars, overdue, otherVars, engineVars, taskVars, crashes>>

Crash(i) ==
  /\ crashes < MaxCrashes
  /\ crashes' = crashes + 1
  /\ \E t \in Task : t.inst = i /\ pc[t] # "idle"
  /\ pc' = [t \in Task |-> IF t.inst = i THEN "idle" ELSE pc[t]]
  /\ to' = [t \in Task |-> IF t.inst = i THEN "none" ELSE to[t]]
  /\ seen' = [t \in Task |-> IF t.inst = i THEN NoRow ELSE seen[t]]
  /\ UNCHANGED <<rowVars, clockVars, otherVars, engineVars>>

DeleteProject(j) ==
  /\ "delete" \in Allowed /\ status[j] # "deleted"
  /\ status' = [status EXCEPT ![j] = "deleted"]
  /\ leased' = [leased EXCEPT ![j] = FALSE]
  /\ stored' = [stored EXCEPT ![j] = "none"]
  /\ audit' = [audit EXCEPT ![j] = <<>>]
  /\ ResetClocks(j)
  /\ UNCHANGED <<type, engineId, progress, engineVars, taskVars, crashes>>

-----------------------------------------------------------------------------
DispatchStep(t) ==
  \/ CreateInsert(t) \/ CreateRejected(t) \/ Claim(t) \/ ClaimLost(t)
  \/ CallEngine(t) \/ ScrapeReturns(t) \/ RecheckStatus(t) \/ DropResult(t)
  \/ PersistPage(t) \/ UpdateProgress(t)
  \/ CrawlReturns(t) \/ SetEngineJobId(t) \/ ReleaseAfterStart(t)
  \/ DispatchThrows(t)

ReconcileStep(t) ==
  \/ ReconcileQueued(t) \/ ReconcileScrape(t) \/ ReconcileCrawl(t)
  \/ SyncPull(t) \/ SyncProgress(t) \/ DrainAndFinish(t) \/ ReleaseLease(t)

\* The steps a live process takes by itself once a task has begun.
Step(t) ==
  \/ DispatchStep(t) \/ ReconcileStep(t) \/ EngineCancel(t)
  \/ Finish(t) \/ FinishLost(t) \/ TerminalEvent(t) \/ EventLost(t)

Environment(j) ==
  CrawlEnds(j) \/ LeaseExpires(j) \/ Elapse(j) \/ Outage(j) \/ DeleteProject(j)

Next ==
  \/ \E t \in Task : \/ CreateCheck(t) \/ CancelRead(t) \/ Step(t)
                     \/ EngineAccepts(t) \/ ReconcileThrows(t) \/ RequestThrows(t)
  \/ \E i \in Instance : Tick(i) \/ Crash(i)
  \/ \E j \in Job : Environment(j)

Spec == Init /\ [][Next]_vars

\* Fairness: an await on the database or the engine settles (every engine
\* request has a timeout), each process's reconciler keeps ticking, and time
\* passes.  Nothing is assumed of users, faults or the end of a crawl.
Fairness ==
  /\ \A t \in Task : WF_vars(Step(t)) /\ WF_vars(EngineAccepts(t))
  /\ \A i \in Instance : WF_vars(Tick(i))
  /\ \A j \in Job : WF_vars(LeaseExpires(j)) /\ WF_vars(Elapse(j)) /\ WF_vars(Outage(j))

FairSpec == Spec /\ Fairness

-----------------------------------------------------------------------------
(* Properties *)

TypeOK ==
  /\ status \in [Job -> Status]
  /\ type \in [Job -> {"none", "scrape", "crawl"}]
  /\ leased \in [Job -> BOOLEAN]
  /\ engineId \in [Job -> BOOLEAN]
  /\ progress \in [Job -> {"none", "completed", "failed"}]
  /\ overdue \in [Job -> BOOLEAN]
  /\ silent \in [Job -> BOOLEAN]
  /\ stored \in [Job -> {"none", "completed", "failed"}]
  /\ audit \in [Job -> Seq(Ended)]
  /\ crawl \in [Job -> {"none", "scraping"} \cup Ended]
  /\ calls \in [Job -> Nat]
  /\ pc \in [Task -> PC]
  /\ to \in [Task -> {"none"} \cup Ended]
  /\ seen \in [Task -> RowSnapshot]
  /\ crashes \in 0..MaxCrashes

\* "Safe to call more than once": however often create, the reconcilers and
\* restarts dispatch a job, it reaches the engine at most once.
EngineCalledAtMostOnce == \A j \in Job : calls[j] <= 1

\* The timeline of a job holds at most one terminal event, and it is the one
\* the row's status names, whatever complete, fail and cancel raced.
TimelineMatchesStatus ==
  \A j \in Job : audit[j] # <<>> => audit[j] = <<status[j]>>

\* A completed scrape has its good page in `results` and in the counters.
CompletedScrapeHasPage ==
  \A j \in Job : type[j] = "scrape" /\ status[j] = "completed" =>
    stored[j] = "completed" /\ progress[j] = "completed"

\* What a client reads of a scrape changes as JobView promises, which is all that
\* the dashboard relies on: an outcome is final, the figures stand still once the
\* job is over although its scrape may still store a page, and nothing a client
\* has seen is taken back, unless the project is deleted.
View(j) == [status |-> status[j], figures |-> progress[j],
            rows |-> IF stored[j] = "none" THEN 0 ELSE 1]
ViewAdvances ==
  [][\A j \in Job : status[j] # "absent" /\ status'[j] # "deleted" =>
       Advances(View(j), View(j)')]_vars

\* JobService and the reconciler implement the documented lifecycle.
Abstract == INSTANCE JobSpec WITH Job <- Job, status <- status, audit <- audit
ImplementsJobSpec == Abstract!Spec

\* Every job that was created ends, through crashes, lost leases and engine
\* outages: the reconciler re-dispatches, interrupts or times out the rest.
EveryJobEnds ==
  \A j \in Job : status[j] \in Active ~> status[j] \in Ended \cup {"deleted"}

\* Once every request for a cancelled crawl has settled, the engine is no
\* longer crawling for it.
CancelledCrawlIsStopped ==
  \A j \in Job : status[j] = "cancelled" /\ crawl[j] = "scraping"
    => \E t \in Task : t.job = j /\ pc[t] # "idle"
=============================================================================
