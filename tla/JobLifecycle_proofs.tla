------------------------ MODULE JobLifecycle_proofs ------------------------
(***************************************************************************)
(* Proofs about JobLifecycle, for any number of processes, jobs and        *)
(* crashes.  The safety properties are not inductive: what makes them hold *)
(* is that a job has one executor (Executor), that a task only carries an  *)
(* outcome its job can have at that point (Stage), that a matching UPDATE  *)
(* leaves one task with the event to write (Timeline), and that a page is  *)
(* stored and counted before the scrape completes (Page).                  *)
(***************************************************************************)
EXTENDS JobLifecycle, TLAPS

\* The outcome a task holds, by its next statement.
Outcomes ==
  \A t \in Task :
    /\ pc[t] \in {"check", "persist", "progress"} => to[t] \in {"completed", "failed"}
    /\ pc[t] \in {"overbudget", "drain", "finish", "event"} => to[t] \in Ended
    /\ pc[t] = "enginecancel" => to[t] = "cancelled"

\* The claim gives a job one executor, which is yet to call the engine.
Executor ==
  /\ \A j \in Job : status[j] \in {"absent", "queued"} => calls[j] = 0 /\ stored[j] = "none"
  /\ \A t \in Task : pc[t] \in DispatchPC => status[t.job] \notin {"absent", "queued"}
  /\ \A t, u \in Task :
       t.job = u.job /\ pc[t] \in DispatchPC /\ pc[u] \in DispatchPC => t = u
  /\ \A t \in Task : pc[t] = "started" => calls[t.job] = 0
  /\ \A j \in Job : calls[j] <= 1

\* A task that syncs a crawl, or is about to complete or fail a job, works on a
\* job that was started.
Stage ==
  \A t \in Task :
    /\ pc[t] = "leased" /\ seen[t].status = "running"
         => status[t.job] \notin {"absent", "queued"}
    /\ pc[t] \in SyncPC
         => status[t.job] \notin {"absent", "queued"} /\ type[t.job] = "crawl"
    /\ pc[t] = "finish" /\ to[t] \in {"completed", "failed"}
         => status[t.job] \notin {"absent", "queued"}

\* The event still to be written is that of the transition that was made.
Timeline ==
  /\ \A j \in Job : status[j] \in {"absent", "deleted"} \cup Active => audit[j] = <<>>
  /\ \A t \in Task : pc[t] = "event" /\ status[t.job] # "deleted"
       => status[t.job] = to[t] /\ audit[t.job] = <<>>
  /\ \A t, u \in Task :
       /\ t.job = u.job /\ status[t.job] # "deleted"
       /\ pc[t] = "event" /\ pc[u] = "event"
       => t = u
  /\ \A j \in Job : status[j] \in Ended => audit[j] \in {<<>>, <<status[j]>>}

\* The page of a scrape is stored, then counted, before the scrape completes.
Page ==
  /\ \A t \in Task : pc[t] \in {"started", "engine", "check", "persist"}
       => stored[t.job] = "none"
  /\ \A t \in Task : pc[t] = "progress" /\ status[t.job] # "deleted"
       => stored[t.job] = to[t]
  /\ \A t \in Task :
       /\ pc[t] = "finish" /\ to[t] = "completed"
       /\ type[t.job] = "scrape" /\ status[t.job] = "running"
       => stored[t.job] = "completed" /\ progress[t.job] = "completed"
  /\ CompletedScrapeHasPage

IInv == TypeOK /\ Outcomes /\ Executor /\ Stage /\ Timeline /\ Page

\* The components of a task.
LEMMA Fields ==
  \A t \in Task : t.inst \in Instance /\ t.role \in Role /\ t.job \in Job
  BY DEF Task

\* Types; an outcome is known to be one where it is stored or announced.
LEMMA TypeNext ==
  ASSUME TypeOK, Outcomes, [Next]_vars
  PROVE  TypeOK'
<1> USE Fields DEF TypeOK, vars, rowVars, clockVars, otherVars, engineVars, taskVars,
           Ended, Active, Outcomes, Status, PC, DispatchPC, SyncPC,
           RowSnapshot, NoRow
<1>1. ASSUME NEW t \in Task, CreateCheck(t) PROVE TypeOK'
  BY <1>1 DEF CreateCheck, Goto
<1>2. ASSUME NEW t \in Task, CreateInsert(t) PROVE TypeOK'
  BY <1>2 DEF CreateInsert, Goto
<1>3. ASSUME NEW t \in Task, CreateRejected(t) PROVE TypeOK'
  BY <1>3 DEF CreateRejected, Return, GotoWith
<1>4. ASSUME NEW t \in Task, Claim(t) PROVE TypeOK'
  BY <1>4 DEF Claim, Goto, ResetClocks
<1>5. ASSUME NEW t \in Task, ClaimLost(t) PROVE TypeOK'
  BY <1>5 DEF ClaimLost, Return, GotoWith
<1>6. ASSUME NEW t \in Task, CallEngine(t) PROVE TypeOK'
  BY <1>6 DEF CallEngine, Goto
<1>7. ASSUME NEW t \in Task, EngineAccepts(t) PROVE TypeOK'
  BY <1>7 DEF EngineAccepts
<1>8. ASSUME NEW t \in Task, ScrapeReturns(t) PROVE TypeOK'
  BY <1>8 DEF ScrapeReturns, GotoWith
<1>9. ASSUME NEW t \in Task, RecheckStatus(t) PROVE TypeOK'
  BY <1>9 DEF RecheckStatus, Goto
<1>10. ASSUME NEW t \in Task, DropResult(t) PROVE TypeOK'
  BY <1>10 DEF DropResult, Return, GotoWith
<1>11. ASSUME NEW t \in Task, PersistPage(t) PROVE TypeOK'
  BY <1>11 DEF PersistPage, Goto
<1>12. ASSUME NEW t \in Task, UpdateProgress(t) PROVE TypeOK'
  <2>1. to[t] \in {"completed", "failed"}
    BY <1>12 DEF UpdateProgress
  <2>2. pc' \in [Task -> PC] /\ UNCHANGED <<to, seen>>
    BY <1>12 DEF UpdateProgress, Goto
  <2>3. CASE progress' = [progress EXCEPT ![t.job] = to[t]]
             /\ silent' = [silent EXCEPT ![t.job] = FALSE]
    <3>1. progress' \in [Job -> {"none", "completed", "failed"}]
      BY <2>1, <2>3
    <3>2. silent' \in [Job -> BOOLEAN]
      BY <2>3
    <3> QED
      BY <1>12, <2>2, <3>1, <3>2 DEF UpdateProgress
  <2>4. CASE UNCHANGED <<progress, silent>>
    BY <1>12, <2>2, <2>4 DEF UpdateProgress
  <2> QED
    BY <1>12, <2>3, <2>4 DEF UpdateProgress
<1>13. ASSUME NEW t \in Task, CrawlReturns(t) PROVE TypeOK'
  BY <1>13 DEF CrawlReturns, Goto
<1>14. ASSUME NEW t \in Task, SetEngineJobId(t) PROVE TypeOK'
  <2>1. CASE status[t.job] # "deleted"
    BY <1>14, <2>1, ZenonT(60) DEF SetEngineJobId, Goto, ResetClocks
  <2>2. CASE status[t.job] = "deleted"
    BY <1>14, <2>2 DEF SetEngineJobId, Goto, ResetClocks
  <2> QED
    BY <1>14, <2>1, <2>2 DEF SetEngineJobId
<1>15. ASSUME NEW t \in Task, ReleaseAfterStart(t) PROVE TypeOK'
  BY <1>15 DEF ReleaseAfterStart, Return, GotoWith
<1>16. ASSUME NEW t \in Task, DispatchThrows(t) PROVE TypeOK'
  BY <1>16 DEF DispatchThrows, GotoWith
<1>17. ASSUME NEW t \in Task, Finish(t) PROVE TypeOK'
  BY <1>17 DEF Finish, Goto, ResetClocks
<1>18. ASSUME NEW t \in Task, FinishLost(t) PROVE TypeOK'
  BY <1>18 DEF FinishLost, Return, GotoWith
<1>19. ASSUME NEW t \in Task, TerminalEvent(t) PROVE TypeOK'
  BY <1>19 DEF TerminalEvent, Return, GotoWith
<1>20. ASSUME NEW t \in Task, EventLost(t) PROVE TypeOK'
  BY <1>20 DEF EventLost, Return, GotoWith
<1>21. ASSUME NEW t \in Task, CancelRead(t) PROVE TypeOK'
  <2>1. CASE GotoWith(t, "enginecancel", "cancelled")
    BY <1>21, <2>1 DEF CancelRead, GotoWith
  <2>2. CASE GotoWith(t, "finish", "cancelled")
    BY <1>21, <2>2 DEF CancelRead, GotoWith
  <2> QED
    BY <1>21, <2>1, <2>2 DEF CancelRead
<1>22. ASSUME NEW t \in Task, EngineCancel(t) PROVE TypeOK'
  <2>1. crawl' = [crawl EXCEPT ![t.job] = "cancelled"] \/ crawl' = crawl
    BY <1>22 DEF EngineCancel
  <2>2. pc' \in [Task -> PC] /\ UNCHANGED <<to, seen>>
    BY <1>22, ZenonT(60) DEF EngineCancel, Goto
  <2>3. crawl' \in [Job -> {"none", "scraping"} \cup Ended]
    BY <2>1, ZenonT(60)
  <2> QED
    BY <1>22, <2>2, <2>3 DEF EngineCancel
<1>23. ASSUME NEW t \in Task, ReconcileQueued(t) PROVE TypeOK'
  BY <1>23 DEF ReconcileQueued, GotoWith
<1>24. ASSUME NEW t \in Task, ReconcileScrape(t) PROVE TypeOK'
  <2>1. CASE GotoWith(t, "finish", "failed")
    BY <1>24, <2>1 DEF ReconcileScrape, GotoWith
  <2>2. CASE GotoWith(t, "unlease", "none")
    BY <1>24, <2>2 DEF ReconcileScrape, GotoWith
  <2> QED
    BY <1>24, <2>1, <2>2 DEF ReconcileScrape
<1>25. ASSUME NEW t \in Task, ReconcileCrawl(t) PROVE TypeOK'
  <2>1. CASE GotoWith(t, "finish", "failed")
    BY <1>25, <2>1 DEF ReconcileCrawl, Goto, GotoWith
  <2>2. CASE GotoWith(t, "unlease", "none")
    BY <1>25, <2>2 DEF ReconcileCrawl, Goto, GotoWith
  <2>3. CASE GotoWith(t, "overbudget", "failed")
    BY <1>25, <2>3 DEF ReconcileCrawl, Goto, GotoWith
  <2>4. CASE Goto(t, "sync")
    BY <1>25, <2>4 DEF ReconcileCrawl, Goto, GotoWith
  <2> QED
    BY <1>25, <2>1, <2>2, <2>3, <2>4 DEF ReconcileCrawl
<1>26. ASSUME NEW t \in Task, SyncPull(t) PROVE TypeOK'
  <2>1. CASE crawl[t.job] = "scraping" /\ GotoWith(t, "syncprogress", "none")
    BY <1>26, <2>1 DEF SyncPull, GotoWith
  <2>2. CASE crawl[t.job] # "scraping" /\ GotoWith(t, "syncprogress", crawl[t.job])
    BY <1>26, <2>2 DEF SyncPull, GotoWith
  <2>3. CASE GotoWith(t, "finish", "failed")
    BY <1>26, <2>3 DEF SyncPull, GotoWith
  <2>4. CASE GotoWith(t, "unlease", "none")
    BY <1>26, <2>4 DEF SyncPull, GotoWith
  <2> QED
    BY <1>26, <2>1, <2>2, <2>3, <2>4 DEF SyncPull
<1>27. ASSUME NEW t \in Task, SyncProgress(t) PROVE TypeOK'
  BY <1>27 DEF SyncProgress, Goto
<1>28. ASSUME NEW t \in Task, DrainAndFinish(t) PROVE TypeOK'
  <2>1. PICK outcome \in {to[t], "failed"} : GotoWith(t, "finish", outcome)
    BY <1>28 DEF DrainAndFinish
  <2>2. outcome \in Ended
    BY <1>28, <2>1 DEF DrainAndFinish
  <2> QED
    BY <1>28, <2>1, <2>2 DEF DrainAndFinish, GotoWith
<1>29. ASSUME NEW t \in Task, ReleaseLease(t) PROVE TypeOK'
  <2>1. CASE pc[t] = "unlease" /\ Return(t)
    BY <1>29, <2>1 DEF ReleaseLease, Goto, Return, GotoWith
  <2>2. CASE pc[t] = "redispatch" /\ Goto(t, "claim")
    BY <1>29, <2>2 DEF ReleaseLease, Goto, Return, GotoWith
  <2> QED
    BY <1>29, <2>1, <2>2 DEF ReleaseLease
<1>30. ASSUME NEW t \in Task, ReconcileThrows(t) PROVE TypeOK'
  BY <1>30 DEF ReconcileThrows, GotoWith
<1>31. ASSUME NEW t \in Task, RequestThrows(t) PROVE TypeOK'
  BY <1>31 DEF RequestThrows, Return, GotoWith
<1>32. ASSUME NEW i \in Instance, Tick(i) PROVE TypeOK'
  BY <1>32 DEF Tick, Row
<1>33. ASSUME NEW i \in Instance, Crash(i) PROVE TypeOK'
  <2>1. pc' \in [Task -> PC]
    BY <1>33 DEF Crash
  <2>2. to' \in [Task -> {"none"} \cup Ended]
    BY <1>33 DEF Crash
  <2>3. seen' \in [Task -> RowSnapshot]
    BY <1>33 DEF Crash
  <2>4. crashes' \in 0..MaxCrashes
    BY <1>33, ConstantsAssumption DEF Crash
  <2> QED
    BY <1>33, <2>1, <2>2, <2>3, <2>4 DEF Crash
<1>34. ASSUME NEW j \in Job, CrawlEnds(j) PROVE TypeOK'
  BY <1>34 DEF CrawlEnds
<1>35. ASSUME NEW j \in Job, LeaseExpires(j) PROVE TypeOK'
  BY <1>35 DEF LeaseExpires
<1>36. ASSUME NEW j \in Job, Elapse(j) PROVE TypeOK'
  BY <1>36 DEF Elapse
<1>37. ASSUME NEW j \in Job, Outage(j) PROVE TypeOK'
  BY <1>37 DEF Outage
<1>38. ASSUME NEW j \in Job, DeleteProject(j) PROVE TypeOK'
  BY <1>38 DEF DeleteProject, ResetClocks
<1>39. CASE UNCHANGED vars
  BY <1>39
<1> QED
  BY <1>1, <1>2, <1>3, <1>4, <1>5, <1>6, <1>7, <1>8, <1>9, <1>10, <1>11, <1>12, <1>13, <1>14, <1>15, <1>16, <1>17, <1>18, <1>19, <1>20, <1>21, <1>22, <1>23, <1>24, <1>25, <1>26, <1>27, <1>28, <1>29, <1>30, <1>31, <1>32, <1>33, <1>34, <1>35, <1>36, <1>37, <1>38, <1>39
  DEF Next, Step, DispatchStep, ReconcileStep, Environment

\* Each pc is entered with an outcome it allows, and keeps it.
LEMMA OutcomesNext ==
  ASSUME TypeOK, Outcomes, [Next]_vars
  PROVE  Outcomes'
<1> USE Fields DEF TypeOK, vars, rowVars, clockVars, otherVars, engineVars, taskVars,
           Ended, Active, Outcomes
<1>1. ASSUME NEW t \in Task, CreateCheck(t) PROVE Outcomes'
  BY <1>1 DEF CreateCheck, Goto
<1>2. ASSUME NEW t \in Task, CreateInsert(t) PROVE Outcomes'
  BY <1>2 DEF CreateInsert, Goto
<1>3. ASSUME NEW t \in Task, CreateRejected(t) PROVE Outcomes'
  BY <1>3 DEF CreateRejected, Return, GotoWith
<1>4. ASSUME NEW t \in Task, Claim(t) PROVE Outcomes'
  BY <1>4 DEF Claim, Goto, ResetClocks
<1>5. ASSUME NEW t \in Task, ClaimLost(t) PROVE Outcomes'
  BY <1>5 DEF ClaimLost, Return, GotoWith
<1>6. ASSUME NEW t \in Task, CallEngine(t) PROVE Outcomes'
  BY <1>6 DEF CallEngine, Goto
<1>7. ASSUME NEW t \in Task, EngineAccepts(t) PROVE Outcomes'
  BY <1>7 DEF EngineAccepts
<1>8. ASSUME NEW t \in Task, ScrapeReturns(t) PROVE Outcomes'
  BY <1>8 DEF ScrapeReturns, GotoWith
<1>9. ASSUME NEW t \in Task, RecheckStatus(t) PROVE Outcomes'
  BY <1>9 DEF RecheckStatus, Goto
<1>10. ASSUME NEW t \in Task, DropResult(t) PROVE Outcomes'
  BY <1>10 DEF DropResult, Return, GotoWith
<1>11. ASSUME NEW t \in Task, PersistPage(t) PROVE Outcomes'
  BY <1>11 DEF PersistPage, Goto
<1>12. ASSUME NEW t \in Task, UpdateProgress(t) PROVE Outcomes'
  BY <1>12 DEF UpdateProgress, Goto
<1>13. ASSUME NEW t \in Task, CrawlReturns(t) PROVE Outcomes'
  BY <1>13 DEF CrawlReturns, Goto
<1>14. ASSUME NEW t \in Task, SetEngineJobId(t) PROVE Outcomes'
  BY <1>14 DEF SetEngineJobId, Goto, ResetClocks
<1>15. ASSUME NEW t \in Task, ReleaseAfterStart(t) PROVE Outcomes'
  BY <1>15 DEF ReleaseAfterStart, Return, GotoWith
<1>16. ASSUME NEW t \in Task, DispatchThrows(t) PROVE Outcomes'
  BY <1>16 DEF DispatchThrows, GotoWith
<1>17. ASSUME NEW t \in Task, Finish(t) PROVE Outcomes'
  BY <1>17 DEF Finish, Goto, ResetClocks
<1>18. ASSUME NEW t \in Task, FinishLost(t) PROVE Outcomes'
  BY <1>18 DEF FinishLost, Return, GotoWith
<1>19. ASSUME NEW t \in Task, TerminalEvent(t) PROVE Outcomes'
  BY <1>19 DEF TerminalEvent, Return, GotoWith
<1>20. ASSUME NEW t \in Task, EventLost(t) PROVE Outcomes'
  BY <1>20 DEF EventLost, Return, GotoWith
<1>21. ASSUME NEW t \in Task, CancelRead(t) PROVE Outcomes'
  <2>1. CASE GotoWith(t, "enginecancel", "cancelled")
    BY <1>21, <2>1 DEF CancelRead, GotoWith
  <2>2. CASE GotoWith(t, "finish", "cancelled")
    BY <1>21, <2>2 DEF CancelRead, GotoWith
  <2> QED
    BY <1>21, <2>1, <2>2 DEF CancelRead
<1>22. ASSUME NEW t \in Task, EngineCancel(t) PROVE Outcomes'
  <2>1. CASE pc[t] = "enginecancel" /\ Goto(t, "finish")
    BY <1>22, <2>1 DEF EngineCancel, Goto
  <2>2. CASE pc[t] = "overbudget" /\ Goto(t, "drain")
    BY <1>22, <2>2 DEF EngineCancel, Goto
  <2> QED
    BY <1>22, <2>1, <2>2 DEF EngineCancel
<1>23. ASSUME NEW t \in Task, ReconcileQueued(t) PROVE Outcomes'
  BY <1>23 DEF ReconcileQueued, GotoWith
<1>24. ASSUME NEW t \in Task, ReconcileScrape(t) PROVE Outcomes'
  <2>1. CASE GotoWith(t, "finish", "failed")
    BY <1>24, <2>1 DEF ReconcileScrape, GotoWith
  <2>2. CASE GotoWith(t, "unlease", "none")
    BY <1>24, <2>2 DEF ReconcileScrape, GotoWith
  <2> QED
    BY <1>24, <2>1, <2>2 DEF ReconcileScrape
<1>25. ASSUME NEW t \in Task, ReconcileCrawl(t) PROVE Outcomes'
  <2>1. CASE GotoWith(t, "finish", "failed")
    BY <1>25, <2>1 DEF ReconcileCrawl, Goto, GotoWith
  <2>2. CASE GotoWith(t, "unlease", "none")
    BY <1>25, <2>2 DEF ReconcileCrawl, Goto, GotoWith
  <2>3. CASE GotoWith(t, "overbudget", "failed")
    BY <1>25, <2>3 DEF ReconcileCrawl, Goto, GotoWith
  <2>4. CASE Goto(t, "sync")
    BY <1>25, <2>4 DEF ReconcileCrawl, Goto, GotoWith
  <2> QED
    BY <1>25, <2>1, <2>2, <2>3, <2>4 DEF ReconcileCrawl
<1>26. ASSUME NEW t \in Task, SyncPull(t) PROVE Outcomes'
  <2>1. CASE crawl[t.job] = "scraping" /\ GotoWith(t, "syncprogress", "none")
    BY <1>26, <2>1 DEF SyncPull, GotoWith
  <2>2. CASE crawl[t.job] # "scraping" /\ GotoWith(t, "syncprogress", crawl[t.job])
    BY <1>26, <2>2 DEF SyncPull, GotoWith
  <2>3. CASE GotoWith(t, "finish", "failed")
    BY <1>26, <2>3 DEF SyncPull, GotoWith
  <2>4. CASE GotoWith(t, "unlease", "none")
    BY <1>26, <2>4 DEF SyncPull, GotoWith
  <2> QED
    BY <1>26, <2>1, <2>2, <2>3, <2>4 DEF SyncPull
<1>27. ASSUME NEW t \in Task, SyncProgress(t) PROVE Outcomes'
  BY <1>27 DEF SyncProgress, Goto
<1>28. ASSUME NEW t \in Task, DrainAndFinish(t) PROVE Outcomes'
  BY <1>28 DEF DrainAndFinish, GotoWith
<1>29. ASSUME NEW t \in Task, ReleaseLease(t) PROVE Outcomes'
  <2>1. CASE pc[t] = "unlease" /\ Return(t)
    BY <1>29, <2>1 DEF ReleaseLease, Goto, Return, GotoWith
  <2>2. CASE pc[t] = "redispatch" /\ Goto(t, "claim")
    BY <1>29, <2>2 DEF ReleaseLease, Goto, Return, GotoWith
  <2> QED
    BY <1>29, <2>1, <2>2 DEF ReleaseLease
<1>30. ASSUME NEW t \in Task, ReconcileThrows(t) PROVE Outcomes'
  BY <1>30 DEF ReconcileThrows, GotoWith
<1>31. ASSUME NEW t \in Task, RequestThrows(t) PROVE Outcomes'
  BY <1>31 DEF RequestThrows, Return, GotoWith
<1>32. ASSUME NEW i \in Instance, Tick(i) PROVE Outcomes'
  BY <1>32 DEF Tick, Row
<1>33. ASSUME NEW i \in Instance, Crash(i) PROVE Outcomes'
  BY <1>33 DEF Crash
<1>34. ASSUME NEW j \in Job, CrawlEnds(j) PROVE Outcomes'
  BY <1>34 DEF CrawlEnds
<1>35. ASSUME NEW j \in Job, LeaseExpires(j) PROVE Outcomes'
  BY <1>35 DEF LeaseExpires
<1>36. ASSUME NEW j \in Job, Elapse(j) PROVE Outcomes'
  BY <1>36 DEF Elapse
<1>37. ASSUME NEW j \in Job, Outage(j) PROVE Outcomes'
  BY <1>37 DEF Outage
<1>38. ASSUME NEW j \in Job, DeleteProject(j) PROVE Outcomes'
  BY <1>38 DEF DeleteProject, ResetClocks
<1>39. CASE UNCHANGED vars
  BY <1>39
<1> QED
  BY <1>1, <1>2, <1>3, <1>4, <1>5, <1>6, <1>7, <1>8, <1>9, <1>10, <1>11, <1>12, <1>13, <1>14, <1>15, <1>16, <1>17, <1>18, <1>19, <1>20, <1>21, <1>22, <1>23, <1>24, <1>25, <1>26, <1>27, <1>28, <1>29, <1>30, <1>31, <1>32, <1>33, <1>34, <1>35, <1>36, <1>37, <1>38, <1>39
  DEF Next, Step, DispatchStep, ReconcileStep, Environment

\* Only the claim of a queued job makes an executor, and a claimed job is never
\* queued again.
LEMMA ExecutorNext ==
  ASSUME TypeOK, Executor, [Next]_vars
  PROVE  Executor'
<1> USE Fields DEF TypeOK, vars, rowVars, clockVars, otherVars, engineVars, taskVars,
           Ended, Active, Executor, DispatchPC, SyncPC
<1>1. ASSUME NEW t \in Task, CreateCheck(t) PROVE Executor'
  BY <1>1 DEF CreateCheck, Goto
<1>2. ASSUME NEW t \in Task, CreateInsert(t) PROVE Executor'
  BY <1>2 DEF CreateInsert, Goto
<1>3. ASSUME NEW t \in Task, CreateRejected(t) PROVE Executor'
  BY <1>3 DEF CreateRejected, Return, GotoWith
<1>4. ASSUME NEW t \in Task, Claim(t) PROVE Executor'
  BY <1>4 DEF Claim, Goto, ResetClocks
<1>5. ASSUME NEW t \in Task, ClaimLost(t) PROVE Executor'
  BY <1>5 DEF ClaimLost, Return, GotoWith
<1>6. ASSUME NEW t \in Task, CallEngine(t) PROVE Executor'
  BY <1>6 DEF CallEngine, Goto
<1>7. ASSUME NEW t \in Task, EngineAccepts(t) PROVE Executor'
  BY <1>7 DEF EngineAccepts
<1>8. ASSUME NEW t \in Task, ScrapeReturns(t) PROVE Executor'
  BY <1>8 DEF ScrapeReturns, GotoWith
<1>9. ASSUME NEW t \in Task, RecheckStatus(t) PROVE Executor'
  BY <1>9 DEF RecheckStatus, Goto
<1>10. ASSUME NEW t \in Task, DropResult(t) PROVE Executor'
  BY <1>10 DEF DropResult, Return, GotoWith
<1>11. ASSUME NEW t \in Task, PersistPage(t) PROVE Executor'
  BY <1>11 DEF PersistPage, Goto
<1>12. ASSUME NEW t \in Task, UpdateProgress(t) PROVE Executor'
  BY <1>12 DEF UpdateProgress, Goto
<1>13. ASSUME NEW t \in Task, CrawlReturns(t) PROVE Executor'
  BY <1>13 DEF CrawlReturns, Goto
<1>14. ASSUME NEW t \in Task, SetEngineJobId(t) PROVE Executor'
  BY <1>14 DEF SetEngineJobId, Goto, ResetClocks
<1>15. ASSUME NEW t \in Task, ReleaseAfterStart(t) PROVE Executor'
  BY <1>15 DEF ReleaseAfterStart, Return, GotoWith
<1>16. ASSUME NEW t \in Task, DispatchThrows(t) PROVE Executor'
  BY <1>16 DEF DispatchThrows, GotoWith
<1>17. ASSUME NEW t \in Task, Finish(t) PROVE Executor'
  <2>1. status' = [status EXCEPT ![t.job] = to[t]] /\ UNCHANGED <<calls, stored>>
    BY <1>17 DEF Finish
  <2>2. pc' = [pc EXCEPT ![t] = "event"]
    BY <1>17 DEF Finish, Goto
  <2>3. \A j \in Job : status'[j] \in {"absent", "queued"} => status[j] \in {"absent", "queued"}
    BY <2>1
  <2>4. \A u \in Task : pc'[u] # "event" => pc'[u] = pc[u]
    BY <2>2
  <2>5. (\A j \in Job : status[j] \in {"absent", "queued"} => calls[j] = 0 /\ stored[j] = "none")'
    BY <2>1, <2>3
  <2>6. (\A u \in Task : pc[u] \in DispatchPC => status[u.job] \notin {"absent", "queued"})'
    BY <2>3, <2>4
  <2> QED
    BY <2>1, <2>4, <2>5, <2>6
<1>18. ASSUME NEW t \in Task, FinishLost(t) PROVE Executor'
  BY <1>18 DEF FinishLost, Return, GotoWith
<1>19. ASSUME NEW t \in Task, TerminalEvent(t) PROVE Executor'
  BY <1>19 DEF TerminalEvent, Return, GotoWith
<1>20. ASSUME NEW t \in Task, EventLost(t) PROVE Executor'
  BY <1>20 DEF EventLost, Return, GotoWith
<1>21. ASSUME NEW t \in Task, CancelRead(t) PROVE Executor'
  <2>1. CASE GotoWith(t, "enginecancel", "cancelled")
    BY <1>21, <2>1 DEF CancelRead, GotoWith
  <2>2. CASE GotoWith(t, "finish", "cancelled")
    BY <1>21, <2>2 DEF CancelRead, GotoWith
  <2> QED
    BY <1>21, <2>1, <2>2 DEF CancelRead
<1>22. ASSUME NEW t \in Task, EngineCancel(t) PROVE Executor'
  <2>1. CASE pc[t] = "enginecancel" /\ Goto(t, "finish")
    BY <1>22, <2>1 DEF EngineCancel, Goto
  <2>2. CASE pc[t] = "overbudget" /\ Goto(t, "drain")
    BY <1>22, <2>2 DEF EngineCancel, Goto
  <2> QED
    BY <1>22, <2>1, <2>2 DEF EngineCancel
<1>23. ASSUME NEW t \in Task, ReconcileQueued(t) PROVE Executor'
  BY <1>23 DEF ReconcileQueued, GotoWith
<1>24. ASSUME NEW t \in Task, ReconcileScrape(t) PROVE Executor'
  <2>1. CASE GotoWith(t, "finish", "failed")
    BY <1>24, <2>1 DEF ReconcileScrape, GotoWith
  <2>2. CASE GotoWith(t, "unlease", "none")
    BY <1>24, <2>2 DEF ReconcileScrape, GotoWith
  <2> QED
    BY <1>24, <2>1, <2>2 DEF ReconcileScrape
<1>25. ASSUME NEW t \in Task, ReconcileCrawl(t) PROVE Executor'
  <2>1. CASE GotoWith(t, "finish", "failed")
    BY <1>25, <2>1 DEF ReconcileCrawl, Goto, GotoWith
  <2>2. CASE GotoWith(t, "unlease", "none")
    BY <1>25, <2>2 DEF ReconcileCrawl, Goto, GotoWith
  <2>3. CASE GotoWith(t, "overbudget", "failed")
    BY <1>25, <2>3 DEF ReconcileCrawl, Goto, GotoWith
  <2>4. CASE Goto(t, "sync")
    BY <1>25, <2>4 DEF ReconcileCrawl, Goto, GotoWith
  <2> QED
    BY <1>25, <2>1, <2>2, <2>3, <2>4 DEF ReconcileCrawl
<1>26. ASSUME NEW t \in Task, SyncPull(t) PROVE Executor'
  <2>1. CASE crawl[t.job] = "scraping" /\ GotoWith(t, "syncprogress", "none")
    BY <1>26, <2>1 DEF SyncPull, GotoWith
  <2>2. CASE crawl[t.job] # "scraping" /\ GotoWith(t, "syncprogress", crawl[t.job])
    BY <1>26, <2>2 DEF SyncPull, GotoWith
  <2>3. CASE GotoWith(t, "finish", "failed")
    BY <1>26, <2>3 DEF SyncPull, GotoWith
  <2>4. CASE GotoWith(t, "unlease", "none")
    BY <1>26, <2>4 DEF SyncPull, GotoWith
  <2> QED
    BY <1>26, <2>1, <2>2, <2>3, <2>4 DEF SyncPull
<1>27. ASSUME NEW t \in Task, SyncProgress(t) PROVE Executor'
  BY <1>27 DEF SyncProgress, Goto
<1>28. ASSUME NEW t \in Task, DrainAndFinish(t) PROVE Executor'
  BY <1>28 DEF DrainAndFinish, GotoWith
<1>29. ASSUME NEW t \in Task, ReleaseLease(t) PROVE Executor'
  <2>1. CASE pc[t] = "unlease" /\ Return(t)
    BY <1>29, <2>1 DEF ReleaseLease, Goto, Return, GotoWith
  <2>2. CASE pc[t] = "redispatch" /\ Goto(t, "claim")
    BY <1>29, <2>2 DEF ReleaseLease, Goto, Return, GotoWith
  <2> QED
    BY <1>29, <2>1, <2>2 DEF ReleaseLease
<1>30. ASSUME NEW t \in Task, ReconcileThrows(t) PROVE Executor'
  BY <1>30 DEF ReconcileThrows, GotoWith
<1>31. ASSUME NEW t \in Task, RequestThrows(t) PROVE Executor'
  BY <1>31 DEF RequestThrows, Return, GotoWith
<1>32. ASSUME NEW i \in Instance, Tick(i) PROVE Executor'
  BY <1>32 DEF Tick, Row
<1>33. ASSUME NEW i \in Instance, Crash(i) PROVE Executor'
  BY <1>33 DEF Crash
<1>34. ASSUME NEW j \in Job, CrawlEnds(j) PROVE Executor'
  BY <1>34 DEF CrawlEnds
<1>35. ASSUME NEW j \in Job, LeaseExpires(j) PROVE Executor'
  BY <1>35 DEF LeaseExpires
<1>36. ASSUME NEW j \in Job, Elapse(j) PROVE Executor'
  BY <1>36 DEF Elapse
<1>37. ASSUME NEW j \in Job, Outage(j) PROVE Executor'
  BY <1>37 DEF Outage
<1>38. ASSUME NEW j \in Job, DeleteProject(j) PROVE Executor'
  BY <1>38 DEF DeleteProject, ResetClocks
<1>39. CASE UNCHANGED vars
  BY <1>39
<1> QED
  BY <1>1, <1>2, <1>3, <1>4, <1>5, <1>6, <1>7, <1>8, <1>9, <1>10, <1>11, <1>12, <1>13, <1>14, <1>15, <1>16, <1>17, <1>18, <1>19, <1>20, <1>21, <1>22, <1>23, <1>24, <1>25, <1>26, <1>27, <1>28, <1>29, <1>30, <1>31, <1>32, <1>33, <1>34, <1>35, <1>36, <1>37, <1>38, <1>39
  DEF Next, Step, DispatchStep, ReconcileStep, Environment

\* What a task learned of a started job stays true: no job goes back to queued.
LEMMA StageNext ==
  ASSUME TypeOK, Outcomes, Executor, Stage, [Next]_vars
  PROVE  Stage'
<1> USE Fields DEF TypeOK, vars, rowVars, clockVars, otherVars, engineVars, taskVars,
           Ended, Active, Outcomes, Executor, Stage,
           DispatchPC, SyncPC
<1>1. ASSUME NEW t \in Task, CreateCheck(t) PROVE Stage'
  BY <1>1 DEF CreateCheck, Goto
<1>2. ASSUME NEW t \in Task, CreateInsert(t) PROVE Stage'
  BY <1>2 DEF CreateInsert, Goto
<1>3. ASSUME NEW t \in Task, CreateRejected(t) PROVE Stage'
  BY <1>3 DEF CreateRejected, Return, GotoWith
<1>4. ASSUME NEW t \in Task, Claim(t) PROVE Stage'
  BY <1>4 DEF Claim, Goto, ResetClocks
<1>5. ASSUME NEW t \in Task, ClaimLost(t) PROVE Stage'
  BY <1>5 DEF ClaimLost, Return, GotoWith
<1>6. ASSUME NEW t \in Task, CallEngine(t) PROVE Stage'
  BY <1>6 DEF CallEngine, Goto
<1>7. ASSUME NEW t \in Task, EngineAccepts(t) PROVE Stage'
  BY <1>7 DEF EngineAccepts
<1>8. ASSUME NEW t \in Task, ScrapeReturns(t) PROVE Stage'
  BY <1>8 DEF ScrapeReturns, GotoWith
<1>9. ASSUME NEW t \in Task, RecheckStatus(t) PROVE Stage'
  BY <1>9 DEF RecheckStatus, Goto
<1>10. ASSUME NEW t \in Task, DropResult(t) PROVE Stage'
  BY <1>10 DEF DropResult, Return, GotoWith
<1>11. ASSUME NEW t \in Task, PersistPage(t) PROVE Stage'
  BY <1>11 DEF PersistPage, Goto
<1>12. ASSUME NEW t \in Task, UpdateProgress(t) PROVE Stage'
  BY <1>12 DEF UpdateProgress, Goto
<1>13. ASSUME NEW t \in Task, CrawlReturns(t) PROVE Stage'
  BY <1>13 DEF CrawlReturns, Goto
<1>14. ASSUME NEW t \in Task, SetEngineJobId(t) PROVE Stage'
  BY <1>14 DEF SetEngineJobId, Goto, ResetClocks
<1>15. ASSUME NEW t \in Task, ReleaseAfterStart(t) PROVE Stage'
  BY <1>15 DEF ReleaseAfterStart, Return, GotoWith
<1>16. ASSUME NEW t \in Task, DispatchThrows(t) PROVE Stage'
  BY <1>16 DEF DispatchThrows, GotoWith
<1>17. ASSUME NEW t \in Task, Finish(t) PROVE Stage'
  <2>1. /\ status' = [status EXCEPT ![t.job] = to[t]] /\ to[t] \in Ended
        /\ UNCHANGED <<type, to, seen>>
    BY <1>17 DEF Finish, Goto
  <2>2. pc' = [pc EXCEPT ![t] = "event"]
    BY <1>17 DEF Finish, Goto
  <2> QED
    BY <2>1, <2>2
<1>18. ASSUME NEW t \in Task, FinishLost(t) PROVE Stage'
  BY <1>18 DEF FinishLost, Return, GotoWith
<1>19. ASSUME NEW t \in Task, TerminalEvent(t) PROVE Stage'
  BY <1>19 DEF TerminalEvent, Return, GotoWith
<1>20. ASSUME NEW t \in Task, EventLost(t) PROVE Stage'
  BY <1>20 DEF EventLost, Return, GotoWith
<1>21. ASSUME NEW t \in Task, CancelRead(t) PROVE Stage'
  BY <1>21 DEF CancelRead, GotoWith
<1>22. ASSUME NEW t \in Task, EngineCancel(t) PROVE Stage'
  BY <1>22 DEF EngineCancel, Goto
<1>23. ASSUME NEW t \in Task, ReconcileQueued(t) PROVE Stage'
  BY <1>23 DEF ReconcileQueued, GotoWith
<1>24. ASSUME NEW t \in Task, ReconcileScrape(t) PROVE Stage'
  <2>1. CASE GotoWith(t, "finish", "failed")
    BY <1>24, <2>1 DEF ReconcileScrape, GotoWith
  <2>2. CASE GotoWith(t, "unlease", "none")
    BY <1>24, <2>2 DEF ReconcileScrape, GotoWith
  <2> QED
    BY <1>24, <2>1, <2>2 DEF ReconcileScrape
<1>25. ASSUME NEW t \in Task, ReconcileCrawl(t) PROVE Stage'
  BY <1>25 DEF ReconcileCrawl, Goto, GotoWith
<1>26. ASSUME NEW t \in Task, SyncPull(t) PROVE Stage'
  <2>1. CASE crawl[t.job] = "scraping" /\ GotoWith(t, "syncprogress", "none")
    BY <1>26, <2>1 DEF SyncPull, GotoWith
  <2>2. CASE crawl[t.job] # "scraping" /\ GotoWith(t, "syncprogress", crawl[t.job])
    BY <1>26, <2>2 DEF SyncPull, GotoWith
  <2>3. CASE GotoWith(t, "finish", "failed")
    BY <1>26, <2>3 DEF SyncPull, GotoWith
  <2>4. CASE GotoWith(t, "unlease", "none")
    BY <1>26, <2>4 DEF SyncPull, GotoWith
  <2> QED
    BY <1>26, <2>1, <2>2, <2>3, <2>4 DEF SyncPull
<1>27. ASSUME NEW t \in Task, SyncProgress(t) PROVE Stage'
  BY <1>27 DEF SyncProgress, Goto
<1>28. ASSUME NEW t \in Task, DrainAndFinish(t) PROVE Stage'
  BY <1>28 DEF DrainAndFinish, GotoWith
<1>29. ASSUME NEW t \in Task, ReleaseLease(t) PROVE Stage'
  BY <1>29 DEF ReleaseLease, Goto, Return, GotoWith
<1>30. ASSUME NEW t \in Task, ReconcileThrows(t) PROVE Stage'
  BY <1>30 DEF ReconcileThrows, GotoWith
<1>31. ASSUME NEW t \in Task, RequestThrows(t) PROVE Stage'
  BY <1>31 DEF RequestThrows, Return, GotoWith
<1>32. ASSUME NEW i \in Instance, Tick(i) PROVE Stage'
  BY <1>32 DEF Tick, Row
<1>33. ASSUME NEW i \in Instance, Crash(i) PROVE Stage'
  BY <1>33 DEF Crash
<1>34. ASSUME NEW j \in Job, CrawlEnds(j) PROVE Stage'
  BY <1>34 DEF CrawlEnds
<1>35. ASSUME NEW j \in Job, LeaseExpires(j) PROVE Stage'
  BY <1>35 DEF LeaseExpires
<1>36. ASSUME NEW j \in Job, Elapse(j) PROVE Stage'
  BY <1>36 DEF Elapse
<1>37. ASSUME NEW j \in Job, Outage(j) PROVE Stage'
  BY <1>37 DEF Outage
<1>38. ASSUME NEW j \in Job, DeleteProject(j) PROVE Stage'
  BY <1>38 DEF DeleteProject, ResetClocks
<1>39. CASE UNCHANGED vars
  BY <1>39
<1> QED
  BY <1>1, <1>2, <1>3, <1>4, <1>5, <1>6, <1>7, <1>8, <1>9, <1>10, <1>11, <1>12, <1>13, <1>14, <1>15, <1>16, <1>17, <1>18, <1>19, <1>20, <1>21, <1>22, <1>23, <1>24, <1>25, <1>26, <1>27, <1>28, <1>29, <1>30, <1>31, <1>32, <1>33, <1>34, <1>35, <1>36, <1>37, <1>38, <1>39
  DEF Next, Step, DispatchStep, ReconcileStep, Environment

\* While a job has not ended, no task has a terminal event of it to write.
LEMMA NoEventPending ==
  ASSUME TypeOK, Outcomes, Timeline,
         NEW j \in Job, status[j] \in {"absent"} \cup Active
  PROVE  \A u \in Task : pc[u] = "event" => u.job # j
<1> SUFFICES ASSUME NEW u \in Task, pc[u] = "event", u.job = j PROVE FALSE
  OBVIOUS
<1>1. to[u] \in Ended
  BY DEF Outcomes
<1>2. status[j] = to[u]
  BY DEF Timeline, Active
<1> QED
  BY <1>1, <1>2 DEF Ended, Active

\* A terminal UPDATE finds no other event pending; the event empties the slot.
LEMMA TimelineNext ==
  ASSUME TypeOK, Outcomes, Timeline, [Next]_vars
  PROVE  Timeline'
<1> USE Fields DEF TypeOK, vars, rowVars, clockVars, otherVars, engineVars, taskVars,
           Ended, Active, Outcomes, Timeline, DispatchPC, SyncPC
<1>1. ASSUME NEW t \in Task, CreateCheck(t) PROVE Timeline'
  BY <1>1 DEF CreateCheck, Goto
<1>2. ASSUME NEW t \in Task, CreateInsert(t) PROVE Timeline'
  <2>1. /\ status[t.job] = "absent" /\ status' = [status EXCEPT ![t.job] = "queued"]
        /\ UNCHANGED <<audit, to>>
    BY <1>2 DEF CreateInsert, Goto
  <2>2. \A u \in Task : pc'[u] = "event" => pc[u] = "event" /\ u.job # t.job
    <3>1. pc' = [pc EXCEPT ![t] = "claim"]
      BY <1>2 DEF CreateInsert, Goto
    <3>2. \A u \in Task : pc[u] = "event" => u.job # t.job
      BY <2>1, NoEventPending
    <3> QED
      BY <3>1, <3>2
  <2>3. (\A j \in Job : status[j] \in {"absent", "deleted"} \cup Active => audit[j] = <<>>)'
    BY <2>1
  <2>4. (\A j \in Job : status[j] \in Ended => audit[j] \in {<<>>, <<status[j]>>})'
    BY <2>1
  <2> QED
    BY <2>1, <2>2, <2>3, <2>4
<1>3. ASSUME NEW t \in Task, CreateRejected(t) PROVE Timeline'
  BY <1>3 DEF CreateRejected, Return, GotoWith
<1>4. ASSUME NEW t \in Task, Claim(t) PROVE Timeline'
  <2>1. /\ status[t.job] = "queued" /\ status' = [status EXCEPT ![t.job] = "running"]
        /\ UNCHANGED <<audit, to>>
    BY <1>4 DEF Claim, Goto
  <2>2. \A u \in Task : pc'[u] = "event" => pc[u] = "event" /\ u.job # t.job
    <3>1. pc' = [pc EXCEPT ![t] = "started"]
      BY <1>4 DEF Claim, Goto
    <3>2. \A u \in Task : pc[u] = "event" => u.job # t.job
      BY <2>1, NoEventPending
    <3> QED
      BY <3>1, <3>2
  <2>3. (\A j \in Job : status[j] \in {"absent", "deleted"} \cup Active => audit[j] = <<>>)'
    BY <2>1
  <2>4. (\A j \in Job : status[j] \in Ended => audit[j] \in {<<>>, <<status[j]>>})'
    BY <2>1
  <2> QED
    BY <2>1, <2>2, <2>3, <2>4
<1>5. ASSUME NEW t \in Task, ClaimLost(t) PROVE Timeline'
  BY <1>5 DEF ClaimLost, Return, GotoWith
<1>6. ASSUME NEW t \in Task, CallEngine(t) PROVE Timeline'
  BY <1>6 DEF CallEngine, Goto
<1>7. ASSUME NEW t \in Task, EngineAccepts(t) PROVE Timeline'
  BY <1>7 DEF EngineAccepts
<1>8. ASSUME NEW t \in Task, ScrapeReturns(t) PROVE Timeline'
  BY <1>8 DEF ScrapeReturns, GotoWith
<1>9. ASSUME NEW t \in Task, RecheckStatus(t) PROVE Timeline'
  BY <1>9 DEF RecheckStatus, Goto
<1>10. ASSUME NEW t \in Task, DropResult(t) PROVE Timeline'
  BY <1>10 DEF DropResult, Return, GotoWith
<1>11. ASSUME NEW t \in Task, PersistPage(t) PROVE Timeline'
  BY <1>11 DEF PersistPage, Goto
<1>12. ASSUME NEW t \in Task, UpdateProgress(t) PROVE Timeline'
  BY <1>12 DEF UpdateProgress, Goto
<1>13. ASSUME NEW t \in Task, CrawlReturns(t) PROVE Timeline'
  BY <1>13 DEF CrawlReturns, Goto
<1>14. ASSUME NEW t \in Task, SetEngineJobId(t) PROVE Timeline'
  BY <1>14 DEF SetEngineJobId, Goto, ResetClocks
<1>15. ASSUME NEW t \in Task, ReleaseAfterStart(t) PROVE Timeline'
  BY <1>15 DEF ReleaseAfterStart, Return, GotoWith
<1>16. ASSUME NEW t \in Task, DispatchThrows(t) PROVE Timeline'
  BY <1>16 DEF DispatchThrows, GotoWith
<1>17. ASSUME NEW t \in Task, Finish(t) PROVE Timeline'
  <2>1. /\ status[t.job] \in Active /\ to[t] \in Ended
        /\ status' = [status EXCEPT ![t.job] = to[t]]
        /\ UNCHANGED <<audit, to>>
    BY <1>17 DEF Finish, Goto
  <2>2. audit[t.job] = <<>>
    BY <2>1
  <2>3. \A u \in Task : pc'[u] = "event" => u = t \/ (pc[u] = "event" /\ u.job # t.job)
    <3>1. pc' = [pc EXCEPT ![t] = "event"] /\ pc \in [Task -> PC]
      BY <1>17 DEF Finish, Goto
    <3>2. \A u \in Task : pc[u] = "event" => u.job # t.job
      BY <2>1, NoEventPending
    <3> QED
      BY <3>1, <3>2
  <2>4. (\A j \in Job : status[j] \in {"absent", "deleted"} \cup Active => audit[j] = <<>>)'
    BY <2>1
  <2>5. (\A j \in Job : status[j] \in Ended => audit[j] \in {<<>>, <<status[j]>>})'
    BY <2>1, <2>2
  <2>6. (\A u \in Task : pc[u] = "event" /\ status[u.job] # "deleted"
           => status[u.job] = to[u] /\ audit[u.job] = <<>>)'
    BY <2>1, <2>2, <2>3
  <2>7. (\A u, v \in Task :
           /\ u.job = v.job /\ status[u.job] # "deleted"
           /\ pc[u] = "event" /\ pc[v] = "event"
           => u = v)'
    <3> SUFFICES ASSUME NEW u \in Task, NEW v \in Task, u.job = v.job,
                        (status[u.job] # "deleted")',
                        (pc[u] = "event")', (pc[v] = "event")'
                 PROVE  u = v
      OBVIOUS
    <3>1. CASE u = t \/ v = t
      BY <2>3, <3>1
    <3>2. CASE u # t /\ v # t
      <4>1. u.job # t.job /\ pc[u] = "event" /\ pc[v] = "event"
        BY <2>3, <3>2
      <4>2. status[u.job] # "deleted"
        BY <2>1, <4>1
      <4> QED
        BY <4>1, <4>2
    <3> QED
      BY <3>1, <3>2
  <2> QED
    BY <2>4, <2>5, <2>6, <2>7
<1>18. ASSUME NEW t \in Task, FinishLost(t) PROVE Timeline'
  BY <1>18 DEF FinishLost, Return, GotoWith
<1>19. ASSUME NEW t \in Task, TerminalEvent(t) PROVE Timeline'
  <2>1. status[t.job] = to[t] /\ audit[t.job] = <<>> /\ to[t] \in Ended
    BY <1>19 DEF TerminalEvent
  <2>2. audit' = [audit EXCEPT ![t.job] = <<to[t]>>] /\ UNCHANGED status
    BY <1>19, <2>1 DEF TerminalEvent
  <2>3. \A u \in Task : pc'[u] = "event" => pc[u] = "event" /\ u # t /\ to'[u] = to[u]
    BY <1>19 DEF TerminalEvent, Return, GotoWith
  <2>4. (\A j \in Job : status[j] \in {"absent", "deleted"} \cup Active => audit[j] = <<>>)'
    BY <2>1, <2>2
  <2>5. (\A j \in Job : status[j] \in Ended => audit[j] \in {<<>>, <<status[j]>>})'
    BY <2>1, <2>2
  <2>6. \A u \in Task : pc'[u] = "event" /\ status[u.job] # "deleted" => u.job # t.job
    BY <1>19, <2>3 DEF TerminalEvent
  <2> QED
    BY <2>2, <2>3, <2>4, <2>5, <2>6
<1>20. ASSUME NEW t \in Task, EventLost(t) PROVE Timeline'
  BY <1>20 DEF EventLost, Return, GotoWith
<1>21. ASSUME NEW t \in Task, CancelRead(t) PROVE Timeline'
  <2>1. CASE GotoWith(t, "enginecancel", "cancelled")
    BY <1>21, <2>1 DEF CancelRead, GotoWith
  <2>2. CASE GotoWith(t, "finish", "cancelled")
    BY <1>21, <2>2 DEF CancelRead, GotoWith
  <2> QED
    BY <1>21, <2>1, <2>2 DEF CancelRead
<1>22. ASSUME NEW t \in Task, EngineCancel(t) PROVE Timeline'
  <2>1. CASE pc[t] = "enginecancel" /\ Goto(t, "finish")
    BY <1>22, <2>1 DEF EngineCancel, Goto
  <2>2. CASE pc[t] = "overbudget" /\ Goto(t, "drain")
    BY <1>22, <2>2 DEF EngineCancel, Goto
  <2> QED
    BY <1>22, <2>1, <2>2 DEF EngineCancel
<1>23. ASSUME NEW t \in Task, ReconcileQueued(t) PROVE Timeline'
  BY <1>23 DEF ReconcileQueued, GotoWith
<1>24. ASSUME NEW t \in Task, ReconcileScrape(t) PROVE Timeline'
  <2>1. CASE GotoWith(t, "finish", "failed")
    BY <1>24, <2>1 DEF ReconcileScrape, GotoWith
  <2>2. CASE GotoWith(t, "unlease", "none")
    BY <1>24, <2>2 DEF ReconcileScrape, GotoWith
  <2> QED
    BY <1>24, <2>1, <2>2 DEF ReconcileScrape
<1>25. ASSUME NEW t \in Task, ReconcileCrawl(t) PROVE Timeline'
  <2>1. CASE GotoWith(t, "finish", "failed")
    BY <1>25, <2>1 DEF ReconcileCrawl, Goto, GotoWith
  <2>2. CASE GotoWith(t, "unlease", "none")
    BY <1>25, <2>2 DEF ReconcileCrawl, Goto, GotoWith
  <2>3. CASE GotoWith(t, "overbudget", "failed")
    BY <1>25, <2>3 DEF ReconcileCrawl, Goto, GotoWith
  <2>4. CASE Goto(t, "sync")
    BY <1>25, <2>4 DEF ReconcileCrawl, Goto, GotoWith
  <2> QED
    BY <1>25, <2>1, <2>2, <2>3, <2>4 DEF ReconcileCrawl
<1>26. ASSUME NEW t \in Task, SyncPull(t) PROVE Timeline'
  <2>1. CASE crawl[t.job] = "scraping" /\ GotoWith(t, "syncprogress", "none")
    BY <1>26, <2>1 DEF SyncPull, GotoWith
  <2>2. CASE crawl[t.job] # "scraping" /\ GotoWith(t, "syncprogress", crawl[t.job])
    BY <1>26, <2>2 DEF SyncPull, GotoWith
  <2>3. CASE GotoWith(t, "finish", "failed")
    BY <1>26, <2>3 DEF SyncPull, GotoWith
  <2>4. CASE GotoWith(t, "unlease", "none")
    BY <1>26, <2>4 DEF SyncPull, GotoWith
  <2> QED
    BY <1>26, <2>1, <2>2, <2>3, <2>4 DEF SyncPull
<1>27. ASSUME NEW t \in Task, SyncProgress(t) PROVE Timeline'
  BY <1>27 DEF SyncProgress, Goto
<1>28. ASSUME NEW t \in Task, DrainAndFinish(t) PROVE Timeline'
  BY <1>28 DEF DrainAndFinish, GotoWith
<1>29. ASSUME NEW t \in Task, ReleaseLease(t) PROVE Timeline'
  BY <1>29 DEF ReleaseLease, Goto, Return, GotoWith
<1>30. ASSUME NEW t \in Task, ReconcileThrows(t) PROVE Timeline'
  BY <1>30 DEF ReconcileThrows, GotoWith
<1>31. ASSUME NEW t \in Task, RequestThrows(t) PROVE Timeline'
  BY <1>31 DEF RequestThrows, Return, GotoWith
<1>32. ASSUME NEW i \in Instance, Tick(i) PROVE Timeline'
  BY <1>32 DEF Tick, Row
<1>33. ASSUME NEW i \in Instance, Crash(i) PROVE Timeline'
  BY <1>33 DEF Crash
<1>34. ASSUME NEW j \in Job, CrawlEnds(j) PROVE Timeline'
  BY <1>34 DEF CrawlEnds
<1>35. ASSUME NEW j \in Job, LeaseExpires(j) PROVE Timeline'
  BY <1>35 DEF LeaseExpires
<1>36. ASSUME NEW j \in Job, Elapse(j) PROVE Timeline'
  BY <1>36 DEF Elapse
<1>37. ASSUME NEW j \in Job, Outage(j) PROVE Timeline'
  BY <1>37 DEF Outage
<1>38. ASSUME NEW j \in Job, DeleteProject(j) PROVE Timeline'
  BY <1>38 DEF DeleteProject, ResetClocks
<1>39. CASE UNCHANGED vars
  BY <1>39
<1> QED
  BY <1>1, <1>2, <1>3, <1>4, <1>5, <1>6, <1>7, <1>8, <1>9, <1>10, <1>11, <1>12, <1>13, <1>14, <1>15, <1>16, <1>17, <1>18, <1>19, <1>20, <1>21, <1>22, <1>23, <1>24, <1>25, <1>26, <1>27, <1>28, <1>29, <1>30, <1>31, <1>32, <1>33, <1>34, <1>35, <1>36, <1>37, <1>38, <1>39
  DEF Next, Step, DispatchStep, ReconcileStep, Environment

\* The executor stores the page, then counts it, then completes the job.
LEMMA PageNext ==
  ASSUME TypeOK, Outcomes, Executor, Stage, Page, [Next]_vars
  PROVE  Page'
<1> USE Fields DEF TypeOK, vars, rowVars, clockVars, otherVars, engineVars, taskVars,
           Ended, Active, Outcomes, Executor, Stage, Page,
           CompletedScrapeHasPage, DispatchPC, SyncPC
<1>1. ASSUME NEW t \in Task, CreateCheck(t) PROVE Page'
  BY <1>1 DEF CreateCheck, Goto
<1>2. ASSUME NEW t \in Task, CreateInsert(t) PROVE Page'
  BY <1>2 DEF CreateInsert, Goto
<1>3. ASSUME NEW t \in Task, CreateRejected(t) PROVE Page'
  BY <1>3 DEF CreateRejected, Return, GotoWith
<1>4. ASSUME NEW t \in Task, Claim(t) PROVE Page'
  BY <1>4 DEF Claim, Goto, ResetClocks
<1>5. ASSUME NEW t \in Task, ClaimLost(t) PROVE Page'
  BY <1>5 DEF ClaimLost, Return, GotoWith
<1>6. ASSUME NEW t \in Task, CallEngine(t) PROVE Page'
  BY <1>6 DEF CallEngine, Goto
<1>7. ASSUME NEW t \in Task, EngineAccepts(t) PROVE Page'
  BY <1>7 DEF EngineAccepts
<1>8. ASSUME NEW t \in Task, ScrapeReturns(t) PROVE Page'
  BY <1>8 DEF ScrapeReturns, GotoWith
<1>9. ASSUME NEW t \in Task, RecheckStatus(t) PROVE Page'
  BY <1>9 DEF RecheckStatus, Goto
<1>10. ASSUME NEW t \in Task, DropResult(t) PROVE Page'
  BY <1>10 DEF DropResult, Return, GotoWith
<1>11. ASSUME NEW t \in Task, PersistPage(t) PROVE Page'
  BY <1>11 DEF PersistPage, Goto
<1>12. ASSUME NEW t \in Task, UpdateProgress(t) PROVE Page'
  BY <1>12 DEF UpdateProgress, Goto
<1>13. ASSUME NEW t \in Task, CrawlReturns(t) PROVE Page'
  BY <1>13 DEF CrawlReturns, Goto
<1>14. ASSUME NEW t \in Task, SetEngineJobId(t) PROVE Page'
  BY <1>14 DEF SetEngineJobId, Goto, ResetClocks
<1>15. ASSUME NEW t \in Task, ReleaseAfterStart(t) PROVE Page'
  BY <1>15 DEF ReleaseAfterStart, Return, GotoWith
<1>16. ASSUME NEW t \in Task, DispatchThrows(t) PROVE Page'
  BY <1>16 DEF DispatchThrows, GotoWith
<1>17. ASSUME NEW t \in Task, Finish(t) PROVE Page'
  BY <1>17 DEF Finish, Goto, ResetClocks
<1>18. ASSUME NEW t \in Task, FinishLost(t) PROVE Page'
  BY <1>18 DEF FinishLost, Return, GotoWith
<1>19. ASSUME NEW t \in Task, TerminalEvent(t) PROVE Page'
  BY <1>19 DEF TerminalEvent, Return, GotoWith
<1>20. ASSUME NEW t \in Task, EventLost(t) PROVE Page'
  BY <1>20 DEF EventLost, Return, GotoWith
<1>21. ASSUME NEW t \in Task, CancelRead(t) PROVE Page'
  <2>1. CASE GotoWith(t, "enginecancel", "cancelled")
    BY <1>21, <2>1 DEF CancelRead, GotoWith
  <2>2. CASE GotoWith(t, "finish", "cancelled")
    BY <1>21, <2>2 DEF CancelRead, GotoWith
  <2> QED
    BY <1>21, <2>1, <2>2 DEF CancelRead
<1>22. ASSUME NEW t \in Task, EngineCancel(t) PROVE Page'
  BY <1>22 DEF EngineCancel, Goto
<1>23. ASSUME NEW t \in Task, ReconcileQueued(t) PROVE Page'
  BY <1>23 DEF ReconcileQueued, GotoWith
<1>24. ASSUME NEW t \in Task, ReconcileScrape(t) PROVE Page'
  <2>1. CASE GotoWith(t, "finish", "failed")
    BY <1>24, <2>1 DEF ReconcileScrape, GotoWith
  <2>2. CASE GotoWith(t, "unlease", "none")
    BY <1>24, <2>2 DEF ReconcileScrape, GotoWith
  <2> QED
    BY <1>24, <2>1, <2>2 DEF ReconcileScrape
<1>25. ASSUME NEW t \in Task, ReconcileCrawl(t) PROVE Page'
  <2>1. CASE GotoWith(t, "finish", "failed")
    BY <1>25, <2>1 DEF ReconcileCrawl, Goto, GotoWith
  <2>2. CASE GotoWith(t, "unlease", "none")
    BY <1>25, <2>2 DEF ReconcileCrawl, Goto, GotoWith
  <2>3. CASE GotoWith(t, "overbudget", "failed")
    BY <1>25, <2>3 DEF ReconcileCrawl, Goto, GotoWith
  <2>4. CASE Goto(t, "sync")
    BY <1>25, <2>4 DEF ReconcileCrawl, Goto, GotoWith
  <2> QED
    BY <1>25, <2>1, <2>2, <2>3, <2>4 DEF ReconcileCrawl
<1>26. ASSUME NEW t \in Task, SyncPull(t) PROVE Page'
  <2>1. CASE crawl[t.job] = "scraping" /\ GotoWith(t, "syncprogress", "none")
    BY <1>26, <2>1 DEF SyncPull, GotoWith
  <2>2. CASE crawl[t.job] # "scraping" /\ GotoWith(t, "syncprogress", crawl[t.job])
    BY <1>26, <2>2 DEF SyncPull, GotoWith
  <2>3. CASE GotoWith(t, "finish", "failed")
    BY <1>26, <2>3 DEF SyncPull, GotoWith
  <2>4. CASE GotoWith(t, "unlease", "none")
    BY <1>26, <2>4 DEF SyncPull, GotoWith
  <2> QED
    BY <1>26, <2>1, <2>2, <2>3, <2>4 DEF SyncPull
<1>27. ASSUME NEW t \in Task, SyncProgress(t) PROVE Page'
  BY <1>27 DEF SyncProgress, Goto
<1>28. ASSUME NEW t \in Task, DrainAndFinish(t) PROVE Page'
  BY <1>28 DEF DrainAndFinish, GotoWith
<1>29. ASSUME NEW t \in Task, ReleaseLease(t) PROVE Page'
  <2>1. CASE pc[t] = "unlease" /\ Return(t)
    BY <1>29, <2>1 DEF ReleaseLease, Goto, Return, GotoWith
  <2>2. CASE pc[t] = "redispatch" /\ Goto(t, "claim")
    BY <1>29, <2>2 DEF ReleaseLease, Goto, Return, GotoWith
  <2> QED
    BY <1>29, <2>1, <2>2 DEF ReleaseLease
<1>30. ASSUME NEW t \in Task, ReconcileThrows(t) PROVE Page'
  BY <1>30 DEF ReconcileThrows, GotoWith
<1>31. ASSUME NEW t \in Task, RequestThrows(t) PROVE Page'
  BY <1>31 DEF RequestThrows, Return, GotoWith
<1>32. ASSUME NEW i \in Instance, Tick(i) PROVE Page'
  BY <1>32 DEF Tick, Row
<1>33. ASSUME NEW i \in Instance, Crash(i) PROVE Page'
  BY <1>33 DEF Crash
<1>34. ASSUME NEW j \in Job, CrawlEnds(j) PROVE Page'
  BY <1>34 DEF CrawlEnds
<1>35. ASSUME NEW j \in Job, LeaseExpires(j) PROVE Page'
  BY <1>35 DEF LeaseExpires
<1>36. ASSUME NEW j \in Job, Elapse(j) PROVE Page'
  BY <1>36 DEF Elapse
<1>37. ASSUME NEW j \in Job, Outage(j) PROVE Page'
  BY <1>37 DEF Outage
<1>38. ASSUME NEW j \in Job, DeleteProject(j) PROVE Page'
  BY <1>38 DEF DeleteProject, ResetClocks
<1>39. CASE UNCHANGED vars
  BY <1>39
<1> QED
  BY <1>1, <1>2, <1>3, <1>4, <1>5, <1>6, <1>7, <1>8, <1>9, <1>10, <1>11, <1>12, <1>13, <1>14, <1>15, <1>16, <1>17, <1>18, <1>19, <1>20, <1>21, <1>22, <1>23, <1>24, <1>25, <1>26, <1>27, <1>28, <1>29, <1>30, <1>31, <1>32, <1>33, <1>34, <1>35, <1>36, <1>37, <1>38, <1>39
  DEF Next, Step, DispatchStep, ReconcileStep, Environment

-----------------------------------------------------------------------------
\* IInv holds initially and is preserved: it is inductive.
LEMMA InvariantInit == Init => IInv
  BY ConstantsAssumption, Fields
     DEF Init, IInv, TypeOK, Outcomes, Executor, Stage, Timeline, Page,
         CompletedScrapeHasPage, Status, Active, Ended, PC, DispatchPC,
         SyncPC, RowSnapshot, NoRow

LEMMA InvariantNext == IInv /\ [Next]_vars => IInv'
  BY TypeNext, OutcomesNext, ExecutorNext, StageNext, TimelineNext, PageNext DEF IInv

\* The inductive invariant holds in every reachable state.
THEOREM Invariant == Spec => []IInv
  BY InvariantInit, InvariantNext, PTL DEF Spec

\* Every column, counter and task-local value keeps its type.
THEOREM TypeCorrect == Spec => []TypeOK
  BY Invariant, PTL DEF IInv

\* However many processes create, reconcile and crash, no job is handed to the
\* engine twice (JobService.dispatch, "Safe to call more than once").
THEOREM EngineCalledOnce == Spec => []EngineCalledAtMostOnce
<1>1. IInv => EngineCalledAtMostOnce
  BY DEF IInv, Executor, EngineCalledAtMostOnce
<1> QED
  BY <1>1, Invariant, PTL

\* complete, fail and cancel may race in any number of processes: the timeline
\* of a job keeps at most one terminal event, and it names the final status.
THEOREM TimelineIsTruthful == Spec => []TimelineMatchesStatus
<1>1. IInv => TimelineMatchesStatus
  BY DEF IInv, TypeOK, Timeline, TimelineMatchesStatus, Status, Active, Ended
<1> QED
  BY <1>1, Invariant, PTL

\* A scrape is only completed with its page stored and counted.
THEOREM CompletedScrapesHavePages == Spec => []CompletedScrapeHasPage
<1>1. IInv => CompletedScrapeHasPage
  BY DEF IInv, Page
<1> QED
  BY <1>1, Invariant, PTL

-----------------------------------------------------------------------------
\* Only these steps change what a client can see of a job.
LEMMA VisibleSteps ==
  ASSUME [Next]_vars
  PROVE  \/ \E t \in Task : \/ CreateInsert(t) \/ Claim(t) \/ Finish(t) \/ TerminalEvent(t)
                          \/ PersistPage(t) \/ UpdateProgress(t)
         \/ \E j \in Job : DeleteProject(j)
         \/ UNCHANGED <<status, audit, progress, stored>>
<1> USE DEF vars, rowVars, otherVars
<1>1. ASSUME NEW t \in Task, CreateCheck(t) \/ CancelRead(t) \/ EngineAccepts(t)
                             \/ ReconcileThrows(t) \/ RequestThrows(t)
      PROVE  UNCHANGED <<status, audit, progress, stored>>
  BY <1>1 DEF CreateCheck, CancelRead, EngineAccepts, ReconcileThrows, RequestThrows
<1>2. ASSUME NEW t \in Task, DispatchStep(t)
      PROVE  \/ CreateInsert(t) \/ Claim(t) \/ PersistPage(t) \/ UpdateProgress(t)
             \/ UNCHANGED <<status, audit, progress, stored>>
  BY <1>2 DEF DispatchStep, CreateRejected, ClaimLost, CallEngine, ScrapeReturns,
     RecheckStatus, DropResult, CrawlReturns,
     SetEngineJobId, ReleaseAfterStart, DispatchThrows
<1>3. ASSUME NEW t \in Task, ReconcileStep(t) PROVE UNCHANGED <<status, audit, progress, stored>>
  BY <1>3 DEF ReconcileStep, ReconcileQueued, ReconcileScrape, ReconcileCrawl,
     SyncPull, SyncProgress, DrainAndFinish, ReleaseLease
<1>4. ASSUME NEW t \in Task, EngineCancel(t) \/ FinishLost(t) \/ EventLost(t)
      PROVE  UNCHANGED <<status, audit, progress, stored>>
  BY <1>4 DEF EngineCancel, FinishLost, EventLost
<1>5. ASSUME NEW i \in Instance, Tick(i) \/ Crash(i) PROVE UNCHANGED <<status, audit, progress, stored>>
  BY <1>5 DEF Tick, Crash
<1>6. ASSUME NEW j \in Job, Environment(j)
      PROVE  DeleteProject(j) \/ UNCHANGED <<status, audit, progress, stored>>
  BY <1>6 DEF Environment, CrawlEnds, LeaseExpires, Elapse, Outage
<1> QED
  BY <1>1, <1>2, <1>3, <1>4, <1>5, <1>6 DEF Next, Step

\* A client that reads a scrape again and again sees it go on as JobView promises:
\* only the executor stores and counts its page, which it does not have while the
\* job is queued, and updateProgress and finish check the status they change.
THEOREM ViewKept == Spec => ViewAdvances
<1>1. IInv /\ [Next]_vars
        => [\A j \in Job : status[j] # "absent" /\ status'[j] # "deleted" =>
              Advances(View(j), View(j)')]_vars
  <2> SUFFICES ASSUME IInv, [Next]_vars, NEW j \in Job,
                      status[j] # "absent", status'[j] # "deleted"
               PROVE  Advances(View(j), View(j)')
    OBVIOUS
  <2> USE Fields DEF IInv, TypeOK
  <2> DEFINE Onward == /\ Follows(status[j], status'[j])
                       /\ status[j] # "running" => progress'[j] = progress[j]
                       /\ stored[j] # "none" => stored'[j] # "none"
                       /\ status[j] = "queued" => stored'[j] = stored[j]
  <2>1. Onward
    <3>1. ASSUME NEW t \in Task, CreateInsert(t) PROVE Onward
      BY <3>1 DEF CreateInsert, otherVars, Follows
    <3>2. ASSUME NEW t \in Task, Claim(t) PROVE Onward
      BY <3>2 DEF Claim, otherVars, Follows
    <3>3. ASSUME NEW t \in Task, Finish(t) PROVE Onward
      <4>1. to[t] \in Ended /\ (status[t.job] = "queued" => to[t] = "cancelled")
        BY <3>3 DEF Finish, Outcomes, Stage, Ended
      <4> QED BY <3>3, <4>1 DEF Finish, otherVars, Follows, Active
    <3>4. ASSUME NEW t \in Task, TerminalEvent(t) PROVE Onward
      BY <3>4 DEF TerminalEvent, rowVars, Follows
    <3>5. ASSUME NEW t \in Task, PersistPage(t) PROVE Onward
      <4>1. status[t.job] # "queued" /\ to[t] # "none"
        BY <3>5 DEF PersistPage, Executor, Outcomes, DispatchPC
      <4> QED BY <3>5, <4>1 DEF PersistPage, rowVars, Follows
    <3>6. ASSUME NEW t \in Task, UpdateProgress(t) PROVE Onward
      BY <3>6 DEF UpdateProgress, otherVars, Follows
    <3>7. ASSUME NEW k \in Job, DeleteProject(k) PROVE Onward
      BY <3>7 DEF DeleteProject, Follows
    <3>8. CASE UNCHANGED <<status, audit, progress, stored>>
      BY <3>8 DEF Follows
    <3> QED
      BY <3>1, <3>2, <3>3, <3>4, <3>5, <3>6, <3>7, <3>8, VisibleSteps
  <2> QED
    BY <2>1 DEF View, Advances
<1> QED
  BY <1>1, Invariant, PTL DEF Spec, ViewAdvances

\* JobService and the reconciler, in any number of processes, are a correct
\* implementation of the documented job lifecycle.
THEOREM Refinement == Spec => ImplementsJobSpec
<1>1. Init => Abstract!Init
  BY DEF Init, Abstract!Init
<1>2. IInv /\ [Next]_vars => [Abstract!Next]_<<status, audit>>
  <2> SUFFICES ASSUME IInv, [Next]_vars
               PROVE  Abstract!Next \/ UNCHANGED <<status, audit>>
    OBVIOUS
  <2> USE Fields DEF IInv
  <2>1. ASSUME NEW t \in Task, CreateInsert(t) PROVE Abstract!Next
    <3>1. Abstract!Create(t.job)
      BY <2>1 DEF CreateInsert, Abstract!Create, otherVars
    <3> QED
      BY <3>1 DEF Abstract!Next
  <2>2. ASSUME NEW t \in Task, Claim(t) PROVE Abstract!Next
    <3>1. Abstract!Start(t.job)
      BY <2>2 DEF Claim, Abstract!Start, otherVars
    <3> QED
      BY <3>1 DEF Abstract!Next
  <2>3. ASSUME NEW t \in Task, Finish(t) PROVE Abstract!Next
    <3>1. to[t] \in Abstract!Outcome
      BY <2>3 DEF Finish, Outcomes, Ended, Abstract!Outcome
    <3>2. status[t.job] = "running" \/ (status[t.job] = "queued" /\ to[t] = "cancelled")
      BY <2>3, <3>1 DEF Finish, Stage, Active, Abstract!Outcome
    <3>3. Abstract!End(t.job, to[t])
      BY <2>3, <3>2 DEF Finish, Abstract!End, otherVars
    <3> QED
      BY <3>1, <3>3 DEF Abstract!Next
  <2>4. ASSUME NEW t \in Task, TerminalEvent(t) PROVE Abstract!Next
    <3>1. status[t.job] = to[t] /\ audit[t.job] = <<>> /\ to[t] \in Abstract!Outcome
      BY <2>4 DEF TerminalEvent, Timeline, Outcomes, Ended, Abstract!Outcome
    <3>2. Append(<<>>, to[t]) = <<status[t.job]>>
      BY <3>1
    <3>3. Abstract!Announce(t.job)
      BY <2>4, <3>1, <3>2 DEF TerminalEvent, Abstract!Announce, rowVars
    <3> QED
      BY <3>3 DEF Abstract!Next
  <2>5. ASSUME NEW j \in Job, DeleteProject(j) PROVE Abstract!Next
    <3>1. Abstract!Delete(j)
      BY <2>5 DEF DeleteProject, Abstract!Delete
    <3> QED
      BY <3>1 DEF Abstract!Next
  <2>6. ASSUME NEW t \in Task, PersistPage(t) \/ UpdateProgress(t)
        PROVE  UNCHANGED <<status, audit>>
    BY <2>6 DEF PersistPage, UpdateProgress, rowVars, otherVars
  <2> QED
    BY <2>1, <2>2, <2>3, <2>4, <2>5, <2>6, VisibleSteps
<1> QED
  BY <1>1, <1>2, Invariant, PTL DEF Spec, ImplementsJobSpec, Abstract!Spec
=============================================================================
