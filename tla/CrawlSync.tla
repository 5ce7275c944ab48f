------------------------------ MODULE CrawlSync ------------------------------
(***************************************************************************)
(* How the pages of one crawl get from the engine into `results` and into  *)
(* the job's counters: Reconciler.syncCrawl, pullPages and drainAndFinish  *)
(* with FirecrawlEngine.getJobStatus, in several API processes.  A sync is *)
(* not protected beyond its lease: when the lease expires under it,        *)
(* another process starts its own.  JobLifecycle has the rest of the job.  *)
(***************************************************************************)
EXTENDS JobView, Sequences, FiniteSets, SequencesExt

CONSTANTS
  Instance,  \* API processes
  Page,      \* URLs the crawl may visit
  PageSize,  \* STATUS_PAGE_SIZE: documents per status request
  PerCall,   \* MAX_BATCHES_PER_CALL: status requests per getJobStatus
  Rounds,    \* MAX_SYNC_ROUNDS: getJobStatus calls after the first
  Faults,    \* what else may disturb a sync, see Disturbance
  MaxFaults  \* bound on the disturbances

\* "engine": a request to the engine or its crawl fails; "forget": the engine
\* drops a crawl; "throw": a database call rejects; "cancel": a user cancels the
\* job; "late": a sync outlives its lease.  A process that dies in a sync is one
\* that takes no further step, whose lease expires.
Disturbance == {"engine", "forget", "throw", "cancel", "late"}

ASSUME ConstantsAssumption ==
  /\ IsFiniteSet(Page)
  /\ PageSize \in Nat \ {0} /\ PerCall \in Nat \ {0} /\ Rounds \in Nat
  /\ Faults \subseteq Disturbance /\ MaxFaults \in Nat

VARIABLES
  \* the engine
  fate,     \* of each page: pending, good, bad (an HTTP error page) or error
  docs,     \* the documents of the crawl, as the status endpoint lists them
  total,    \* pages the engine has discovered
  engine,   \* state of the crawl; "gone" once the engine has forgotten it
  \* the job's row
  status, leased, cursor, discovered, processed, succeeded, failed,
  rows,     \* its rows in `results`
  \* the processes
  sync,     \* each process's syncCrawl of the job
  \* history
  warned,     \* a final drain was given up ("final crawl drain incomplete")
  short,      \* the drain of a completed crawl stopped, without a word, in mid-list
  overlapped, \* two syncs of the job ran at the same time
  faults      \* disturbances so far

engineVars == <<fate, docs, total, engine>>
counterVars == <<cursor, discovered, processed, succeeded, failed>>
history == <<warned, short, overlapped, faults>>
vars == <<engineVars, status, leased, counterVars, rows, sync, history>>

-----------------------------------------------------------------------------
PagesWith(f) == {p \in Page : fate[p] = f}
RowsWith(success) == {p \in Page : rows[p] = success}

\* The locals of a sync: `outcome` is "none" until drainAndFinish begins;
\* `snap` is what the last status request said, `seen` the leased row.
Idle == [pc |-> "idle", outcome |-> "none", skip |-> 0, requests |-> 0, round |-> 0,
         pages |-> <<>>, more |-> FALSE,
         snap |-> [status |-> "running", discovered |-> 0, processed |-> 0],
         seen |-> [cursor |-> 0, discovered |-> 0],
         counts |-> [succeeded |-> 0, failed |-> 0]]

Init ==
  /\ fate = [p \in Page |-> "pending"]
  /\ docs = <<>>
  /\ total = 1
  /\ engine = "running"
  /\ status = "running" /\ leased = FALSE
  /\ cursor = 0 /\ discovered = 0 /\ processed = 0 /\ succeeded = 0 /\ failed = 0
  /\ rows = [p \in Page |-> "none"]
  /\ sync = [i \in Instance |-> Idle]
  /\ warned = FALSE /\ short = FALSE /\ overlapped = FALSE /\ faults = 0

\* One disturbance more, of the MaxFaults there may be.
Disturbed(f) ==
  /\ f \in Faults /\ faults < MaxFaults
  /\ faults' = faults + 1

-----------------------------------------------------------------------------
(* External: the engine's crawl, as the status endpoint shows it. *)

Discover ==
  /\ engine = "running" /\ total < Cardinality(Page)
  /\ total' = total + 1
  /\ UNCHANGED <<fate, docs, engine, status, leased, counterVars, rows, sync, history>>

\* A page is crawled.  A document may be listed before earlier ones ("any page
\* whose completion raced our cursor").
CrawlPage(p) ==
  /\ engine = "running" /\ fate[p] = "pending"
  /\ Cardinality(Page) - Cardinality(PagesWith("pending")) < total
  /\ \/ /\ \E f \in {"good", "bad"} : fate' = [fate EXCEPT ![p] = f]
        /\ \E k \in 1..Len(docs) + 1 : docs' = InsertAt(docs, k, p)
     \/ fate' = [fate EXCEPT ![p] = "error"] /\ UNCHANGED docs
  /\ UNCHANGED <<total, engine, status, leased, counterVars, rows, sync, history>>

EngineEnds ==
  /\ \/ /\ engine = "running"
        /\ Cardinality(Page) - Cardinality(PagesWith("pending")) = total
        /\ engine' = "completed" /\ UNCHANGED faults
     \/ engine = "running" /\ Disturbed("engine") /\ engine' \in {"failed", "cancelled"}
     \/ engine # "gone" /\ Disturbed("forget") /\ engine' = "gone"
  /\ UNCHANGED <<fate, docs, total, status, leased, counterVars, rows, sync, warned, short, overlapped>>

-----------------------------------------------------------------------------
(* The reconciler. *)

\* tick leases the job and syncCrawl begins: a pull from the cursor, or, over
\* the duration budget, engine.cancel and the final drain at once.
Tick(i) ==
  /\ sync[i].pc = "idle" /\ status = "running" /\ ~leased
  /\ leased' = TRUE
  /\ overlapped' = (overlapped \/ \E k \in Instance : sync[k].pc # "idle")
  /\ \/ /\ sync' = [sync EXCEPT ![i] =
                     [Idle EXCEPT !.pc = "request", !.skip = cursor,
                                  !.seen = [cursor |-> cursor, discovered |-> discovered]]]
        /\ UNCHANGED <<engine, faults>>
     \/ /\ sync' = [sync EXCEPT ![i] =
                     [Idle EXCEPT !.pc = "request", !.outcome = "failed",
                                  !.seen = [cursor |-> cursor, discovered |-> discovered]]]
        /\ \/ /\ engine' = IF engine = "running" THEN "cancelled" ELSE engine
              /\ UNCHANGED faults
           \/ Disturbed("engine") /\ UNCHANGED engine
  /\ UNCHANGED <<fate, docs, total, status, counterVars, rows, warned, short>>

\* One status request of getJobStatus, which asks again while there is more, up
\* to PerCall times, before its pages are persisted.
Request(i) ==
  /\ sync[i].pc = "request" /\ engine # "gone"
  /\ LET s == sync[i]
         batch == SubSeq(docs, s.skip + 1,
                         IF s.skip + PageSize < Len(docs) THEN s.skip + PageSize ELSE Len(docs))
         more == batch # <<>> /\ s.skip + Len(batch) < total
     IN sync' = [sync EXCEPT ![i] =
          [s EXCEPT !.pages = @ \o batch, !.skip = @ + Len(batch), !.more = more,
                    !.snap = [status |-> engine, discovered |-> total,
                              processed |-> Len(docs)],
                    !.requests = IF more /\ @ + 1 < PerCall THEN @ + 1 ELSE 0,
                    !.pc = IF more /\ s.requests + 1 < PerCall THEN "request" ELSE "persist"]]
  /\ UNCHANGED <<engineVars, status, leased, counterVars, rows, history>>

\* A drain of a completed crawl that ends where it is misses the rest of the list.
CutShort(s) == s.outcome = "completed" /\ s.skip < Len(docs)

\* 404: the engine no longer knows the crawl.  An answer like any other: the pull
\* ends with what it has, and a drain says nothing of it.
RequestGone(i) ==
  /\ sync[i].pc = "request" /\ engine = "gone"
  /\ sync' = [sync EXCEPT ![i] =
       [@ EXCEPT !.pc = "persist", !.more = FALSE, !.requests = 0,
                 !.snap = [status |-> "failed", discovered |-> 0, processed |-> 0]]]
  /\ short' = (short \/ CutShort(sync[i]))
  /\ UNCHANGED <<engineVars, status, leased, counterVars, rows, warned, overlapped, faults>>

\* persistPage: the first row of a URL stays.
Persist(i) ==
  /\ sync[i].pc = "persist" /\ sync[i].pages # <<>>
  /\ LET p == Head(sync[i].pages)
     IN rows' = [rows EXCEPT ![p] =
                   IF @ # "none" THEN @ ELSE IF fate[p] = "good" THEN "good" ELSE "bad"]
  /\ sync' = [sync EXCEPT ![i].pages = Tail(@)]
  /\ UNCHANGED <<engineVars, status, leased, counterVars, history>>

\* The pages of a call are stored: pullPages asks for more or returns, after
\* Rounds more calls also when there is more.
PullNext(i) ==
  /\ sync[i].pc = "persist" /\ sync[i].pages = <<>>
  /\ \/ /\ sync[i].more /\ sync[i].round < Rounds
        /\ sync' = [sync EXCEPT ![i].pc = "request", ![i].round = @ + 1]
        /\ UNCHANGED short
     \/ /\ ~sync[i].more \/ sync[i].round >= Rounds
        /\ sync' = [sync EXCEPT ![i] =
             IF @.outcome = "none"
               THEN [@ EXCEPT !.pc = "count", !.more = FALSE, !.round = 0]
               ELSE [@ EXCEPT !.pc = "failures", !.more = FALSE, !.round = 0, !.skip = 0,
                              !.snap = [Idle.snap EXCEPT !.discovered = sync[i].snap.discovered]]]
        /\ short' = (short \/ CutShort(sync[i]))
  /\ UNCHANGED <<engineVars, status, leased, counterVars, rows, warned, overlapped, faults>>

\* engine.getFailures: none when the engine has forgotten the crawl, for an error
\* status is taken for an empty list.
FailureList == {p \in Page : engine # "gone" /\ fate[p] = "error"}

\* drainAndFinish: each failure is persisted as a failed page.
Failures(i) ==
  /\ sync[i].pc = "failures"
  /\ \/ /\ rows' = [p \in Page |->
                      IF p \in FailureList /\ rows[p] = "none" THEN "bad" ELSE rows[p]]
        /\ UNCHANGED faults
     \/ Disturbed("engine") /\ UNCHANGED rows
  /\ sync' = [sync EXCEPT ![i].pc = "count"]
  /\ UNCHANGED <<engineVars, status, leased, counterVars, warned, short, overlapped>>

\* countsForJob
Count(i) ==
  /\ sync[i].pc = "count"
  /\ sync' = [sync EXCEPT ![i].pc = "progress",
                          ![i].counts = [succeeded |-> Cardinality(RowsWith("good")),
                                         failed |-> Cardinality(RowsWith("bad"))]]
  /\ UNCHANGED <<engineVars, status, leased, counterVars, rows, history>>

\* Mutant: the row is updated whatever its status.
RecordAlways(d, n, counts, at) ==
  /\ discovered' = Max({discovered, d})
  /\ processed' = Max({processed, n})
  /\ succeeded' = counts.succeeded /\ failed' = counts.failed
  /\ cursor' = at

\* updateProgress, effective only WHERE status = 'running'.
Record(d, n, counts, at) ==
  IF status = "running"
    THEN /\ discovered' = Max({discovered, d})
         /\ processed' = Max({processed, n})
         /\ succeeded' = counts.succeeded /\ failed' = counts.failed
         /\ cursor' = at
    ELSE UNCHANGED counterVars

\* Where the drain starts, and with which locals.
DrainFrom(s, outcome, at) ==
  [s EXCEPT !.pc = "request", !.outcome = outcome, !.skip = at, !.round = 0,
            !.snap = Idle.snap, !.counts = Idle.counts, !.more = FALSE]

\* Mutant: the final pull continues from the cursor.
ProgressThenDrainRest(i) ==
  /\ sync[i].pc = "progress" /\ sync[i].outcome = "none"
  /\ LET s == sync[i]
         n == s.counts.succeeded + s.counts.failed
     IN /\ Record(Max({s.snap.discovered, n}), Max({s.snap.processed, n}), s.counts, s.skip)
        /\ sync' = [sync EXCEPT ![i] =
             IF s.snap.status = "running" THEN [Idle EXCEPT !.pc = "release"]
                                          ELSE DrainFrom(s, s.snap.status, s.skip)]
  /\ UNCHANGED <<engineVars, status, leased, rows, history>>

\* Mutant: the figures are the engine's, whatever is stored already.
ProgressAsTold(i) ==
  /\ sync[i].pc = "progress" /\ sync[i].outcome = "none"
  /\ LET s == sync[i]
     IN /\ Record(s.snap.discovered, s.snap.processed, s.counts, s.skip)
        /\ sync' = [sync EXCEPT ![i] =
             IF s.snap.status = "running" THEN [Idle EXCEPT !.pc = "release"]
                                          ELSE DrainFrom(s, s.snap.status, 0)]
  /\ UNCHANGED <<engineVars, status, leased, rows, history>>

\* syncCrawl's updateProgress; a crawl that has ended on the engine is drained
\* from the start.
Progress(i) ==
  /\ sync[i].pc = "progress" /\ sync[i].outcome = "none"
  /\ LET s == sync[i]
         n == s.counts.succeeded + s.counts.failed
     IN /\ Record(Max({s.snap.discovered, n}), Max({s.snap.processed, n}), s.counts, s.skip)
        /\ sync' = [sync EXCEPT ![i] =
             IF s.snap.status = "running" THEN [Idle EXCEPT !.pc = "release"]
                                          ELSE DrainFrom(s, s.snap.status, 0)]
  /\ UNCHANGED <<engineVars, status, leased, rows, history>>

\* Mutant: the counters are left as the last ordinary sync recorded them.
FinalProgressSkipped(i) ==
  /\ sync[i].pc = "progress" /\ sync[i].outcome # "none"
  /\ sync' = [sync EXCEPT ![i].pc = "finish"]
  /\ UNCHANGED <<engineVars, status, leased, counterVars, rows, history>>

\* drainAndFinish's updateProgress, with the cursor of the leased row.
FinalProgress(i) ==
  /\ sync[i].pc = "progress" /\ sync[i].outcome # "none"
  /\ LET s == sync[i]
         n == s.counts.succeeded + s.counts.failed
     IN Record(Max({s.seen.discovered, s.snap.discovered, n}), n, s.counts, s.seen.cursor)
  /\ sync' = [sync EXCEPT ![i] = [Idle EXCEPT !.pc = "finish", !.outcome = sync[i].outcome,
                                              !.counts = sync[i].counts]]
  /\ UNCHANGED <<engineVars, status, leased, rows, history>>

\* jobs.finish by complete, fail or drainAndFinish; a completed crawl with no
\* successful page is a failure.
Finish(i) ==
  /\ sync[i].pc = "finish"
  /\ IF status = "running"
       THEN /\ status' = IF sync[i].outcome = "completed" /\ sync[i].counts.succeeded = 0
                           THEN "failed" ELSE sync[i].outcome
            /\ leased' = FALSE
       ELSE UNCHANGED <<status, leased>>
  /\ sync' = [sync EXCEPT ![i] = Idle]
  /\ UNCHANGED <<engineVars, counterVars, rows, history>>

\* releaseLease, whoever holds it now.
Release(i) ==
  /\ sync[i].pc = "release"
  /\ leased' = FALSE
  /\ sync' = [sync EXCEPT ![i] = Idle]
  /\ UNCHANGED <<engineVars, status, counterVars, rows, history>>

\* drainAndFinish catches what its pull or getFailures throws and goes on to the
\* counts; the pull's figures are known only once it has returned.
GiveUp(i) ==
  /\ LET s == sync[i]
     IN sync' = [sync EXCEPT ![i] =
          [s EXCEPT !.pc = "count", !.pages = <<>>, !.skip = 0, !.more = FALSE, !.round = 0,
                    !.snap = IF s.pc = "failures" THEN s.snap ELSE Idle.snap]]
  /\ warned' = TRUE

\* A request fails.  An ordinary sync is retried later, or gives the job up
\* after a long outage; the final drain is given up and the job finished.
EngineDown(i) ==
  /\ Disturbed("engine") /\ sync[i].pc \in {"request", "failures"}
  /\ \/ /\ sync[i].outcome = "none"
        /\ \/ sync' = [sync EXCEPT ![i] = [Idle EXCEPT !.pc = "release"]]
           \/ sync' = [sync EXCEPT ![i] = [Idle EXCEPT !.pc = "finish", !.outcome = "failed"]]
        /\ UNCHANGED warned
     \/ sync[i].outcome # "none" /\ GiveUp(i)
  /\ UNCHANGED <<engineVars, status, leased, counterVars, rows, short, overlapped>>

\* A storage or database call rejects: inside the drain's pull it is swallowed,
\* elsewhere the sync ends and the lease is released.
Throws(i) ==
  /\ Disturbed("throw")
  /\ \/ sync[i].outcome # "none" /\ sync[i].pc \in {"persist", "failures"} /\ GiveUp(i)
     \/ /\ \/ sync[i].pc \in {"count", "progress", "finish"}
           \/ sync[i].pc = "persist" /\ sync[i].outcome = "none"
        /\ sync' = [sync EXCEPT ![i] = [Idle EXCEPT !.pc = "release"]]
        /\ UNCHANGED warned
  /\ UNCHANGED <<engineVars, status, leased, counterVars, rows, short, overlapped>>

-----------------------------------------------------------------------------
\* lease_until passes, also under a live sync.
LeaseExpires ==
  /\ leased /\ leased' = FALSE
  /\ \/ (\A i \in Instance : sync[i].pc = "idle") /\ UNCHANGED faults
     \/ (\E i \in Instance : sync[i].pc # "idle") /\ Disturbed("late")
  /\ UNCHANGED <<engineVars, status, counterVars, rows, sync, warned, short, overlapped>>

Cancel ==
  /\ Disturbed("cancel") /\ status = "running"
  /\ status' = "cancelled" /\ leased' = FALSE
  /\ engine' = IF engine = "running" THEN "cancelled" ELSE engine
  /\ UNCHANGED <<fate, docs, total, counterVars, rows, sync, warned, short, overlapped>>

Next ==
  \/ Discover \/ EngineEnds \/ LeaseExpires \/ Cancel
  \/ \E p \in Page : CrawlPage(p)
  \/ \E i \in Instance :
       \/ Tick(i) \/ Request(i) \/ RequestGone(i) \/ Persist(i) \/ PullNext(i)
       \/ Failures(i) \/ Count(i) \/ Progress(i) \/ FinalProgress(i) \/ Finish(i)
       \/ Release(i) \/ EngineDown(i) \/ Throws(i)

Spec == Init /\ [][Next]_vars

-----------------------------------------------------------------------------
(* Properties *)

\* A completed crawl has every page the engine delivered, also those listed
\* behind the cursor, unless its drain was given up and logged or stopped short:
\* at a 404 (firecrawl.ts:452-454) or at MAX_SYNC_ROUNDS (reconciler.ts:171).
CompletedCrawlIsComplete ==
  status = "completed" /\ ~warned /\ ~short =>
    \A p \in Page : fate[p] \in {"good", "bad"} => rows[p] = fate[p]

\* The final counters are those of the rows, as long as syncs did not overlap.
CountersMatchRows ==
  status = "completed" /\ ~overlapped =>
    succeeded = Cardinality(RowsWith("good")) /\ failed = Cardinality(RowsWith("bad"))

\* The figures agree at every moment and with the results a client can list,
\* also when two syncs report, each from its own reading of engine and rows: no
\* more pages stored than processed, processed than discovered, counted than there.
FiguresAgree ==
  /\ succeeded + failed <= processed /\ processed <= discovered
  /\ succeeded <= Cardinality(RowsWith("good")) /\ failed <= Cardinality(RowsWith("bad"))

\* What a client reads of the job changes as JobView promises, which is all that
\* the dashboard relies on: a sync that goes on when the job has ended writes
\* nothing any more, but pages that were on their way (repos.ts:302).
View == [status |-> status, figures |-> <<discovered, processed, failed>>,
         rows |-> Cardinality(Page \ RowsWith("none"))]
ViewAdvances == [][Advances(View, View')]_vars
==============================================================================
