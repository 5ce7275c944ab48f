--------------------------- MODULE TrafficPipeline ---------------------------
(***************************************************************************)
(* The traffic estimator's pipeline: queue.py, worker.py, pipeline.py and  *)
(* scheduler.py.  API processes ingest domains, which creates a run with a *)
(* task per collector; workers claim tasks, collect, and finalize the run; *)
(* the scheduler recovers lost tasks and stale runs.  They share only the  *)
(* database: one action is one transaction, or the part of one another     *)
(* transaction can see (a lock that is held, a snapshot that was read).    *)
(* list_refresh tasks belong to no run and are left out.                   *)
(***************************************************************************)
EXTENDS Naturals, FiniteSets

CONSTANTS
  Domain,     \* registrable domains
  PerDomain,  \* bound on the runs of a domain
  Collector,  \* enabled collectors
  Finalize,   \* FINALIZE_KIND
  Worker,     \* tasks that may execute at a time, each in a process of its own
  Client,     \* API requests that may be in progress
  Cap,        \* source_concurrency: tasks of a kind running at once
  Attempts,   \* max_attempts of a kind: task_max_attempts, and 3 for finalize
  Defers,     \* bound on deferrals of a task, MAX_DEFERS of the lists collector
  Sweep,      \* runs a tick looks at, LIMIT 100
  Faults,     \* what may go wrong, see Disturbance
  MaxCrashes  \* bound on worker crashes

\* "throw": a database call rejects; "late": a task outlives its lease, for one
\* failed extend_lease ends the heartbeat.
Disturbance == {"throw", "late"}

Kind == Collector \cup {Finalize}
Executor == Worker \cup Client
Run == Domain \X (1..PerDomain)
Task == Run \X Kind

ASSUME ConstantsAssumption ==
  /\ IsFiniteSet(Domain) /\ PerDomain \in Nat
  /\ IsFiniteSet(Collector) /\ Finalize \notin Collector
  /\ IsFiniteSet(Worker) /\ Worker \cap Client = {} /\ "none" \notin Executor
  /\ Cap \in [Kind -> Nat]
  /\ Attempts \in [Kind -> Nat \ {0}] /\ Defers \in Nat /\ Sweep \in Nat \ {0}
  /\ Faults \subseteq Disturbance /\ MaxCrashes \in Nat

VARIABLES
  runStatus,   \* pipeline_runs.status, "absent" before the insert
  stale,       \* runs older than STALE_RUN_HOURS
  taskStatus,  \* tasks.status, "absent" before the insert
  attempts, defers,
  lockedBy,    \* tasks.locked_by
  lease,       \* tasks.lease_until >= now()
  obs,         \* collectors with an observation of the domain
  estimate,    \* collectors whose observations the run's last estimate used
  domainLock,  \* the transaction holding a row of domains
  claimLock,   \* the worker holding CLAIM_LOCK
  exec,        \* what each worker or request is executing
  crashes,
  rewritten    \* history: runs with a task written by a worker not holding it

runVars == <<runStatus, stale, estimate>>
taskVars == <<taskStatus, attempts, defers, lockedBy, lease>>
lockVars == <<domainLock, claimLock>>
vars == <<runVars, taskVars, obs, lockVars, exec, crashes, rewritten>>

-----------------------------------------------------------------------------
None == "none"
ActiveStatus == {"queued", "running"}
DoneTask == {"succeeded", "failed", "skipped"}

\* An executor with nothing to do.
NoTask == [pc |-> "idle", task |-> <<>>, attempt |-> 0, outcome |-> None, sources |-> {}]

RunOf(t) == t[1]
DomainOf(r) == r[1]
FinalizeTask(r) == <<r, Finalize>>
RunTasks(r) == {<<r, k>> : k \in Collector}

Running(k) == {t \in Task : t[2] = k /\ taskStatus[t] = "running"}
RunActive(r) == runStatus[r] \in ActiveStatus

\* FOR UPDATE: other writers of the row wait for the claim's commit.
RowFree(t) == \A w \in Worker : exec[w].pc = "claiming" => exec[w].task # t

Init ==
  /\ runStatus = [r \in Run |-> "absent"]
  /\ stale = {}
  /\ estimate = [r \in Run |-> {}]
  /\ taskStatus = [t \in Task |-> "absent"]
  /\ attempts = [t \in Task |-> 0]
  /\ defers = [t \in Task |-> 0]
  /\ lockedBy = [t \in Task |-> None]
  /\ lease = [t \in Task |-> FALSE]
  /\ obs = [d \in Domain |-> {}]
  /\ domainLock = [d \in Domain |-> None]
  /\ claimLock = None
  /\ exec = [x \in Executor |-> NoTask]
  /\ crashes = 0
  /\ rewritten = {}

Goto(x, pc) == exec' = [exec EXCEPT ![x].pc = pc]
GotoWith(x, pc, outcome) == exec' = [exec EXCEPT ![x].pc = pc, ![x].outcome = outcome]
Return(x) == exec' = [exec EXCEPT ![x] = NoTask]

-----------------------------------------------------------------------------
(* API requests: ingest_domains, one domain at a time, and reestimate.     *)

\* The id the next run of a domain gets: no other transaction has taken it.
NextRun(d, r) ==
  /\ DomainOf(r) = d /\ runStatus[r] = "absent"
  /\ \A x \in Executor : exec[x].task # FinalizeTask(r)
  /\ \A q \in Run : DomainOf(q) = d /\ q[2] < r[2] =>
       runStatus[q] # "absent" \/ \E x \in Executor : exec[x].task = FinalizeTask(q)

\* Mutant: ON CONFLICT DO NOTHING, which takes no lock on the row.
IngestCheckUnlocked(c, d) ==
  /\ exec[c].pc = "idle"
  /\ \A r \in Run : DomainOf(r) = d => ~RunActive(r)
  /\ \E r \in Run : /\ NextRun(d, r)
                    /\ exec' = [exec EXCEPT ![c].pc = "create", ![c].task = FinalizeTask(r)]
  /\ UNCHANGED <<runVars, taskVars, obs, lockVars, crashes, rewritten>>

\* The upsert of the domain locks its row; no run of it is active and none is
\* recent (or force is set).  Otherwise the request changes nothing.
IngestCheck(c, d) ==
  /\ exec[c].pc = "idle" /\ domainLock[d] = None
  /\ \A r \in Run : DomainOf(r) = d => ~RunActive(r)
  /\ domainLock' = [domainLock EXCEPT ![d] = c]
  /\ \E r \in Run : /\ NextRun(d, r)
                    /\ exec' = [exec EXCEPT ![c].pc = "create", ![c].task = FinalizeTask(r)]
  /\ UNCHANGED <<runVars, taskVars, obs, claimLock, crashes, rewritten>>

\* create_run and the commit: a task per requested collector, or finalize at
\* once when there is none.
IngestCommit(c) ==
  /\ exec[c].pc = "create"
  /\ LET r == RunOf(exec[c].task)
     IN /\ runStatus' = [runStatus EXCEPT ![r] = "queued"]
        /\ \E K \in SUBSET Collector :
             taskStatus' = [t \in Task |->
               IF RunOf(t) = r /\ t[2] \in (IF K = {} THEN {Finalize} ELSE K)
                 THEN "queued" ELSE taskStatus[t]]
        /\ domainLock' = [domainLock EXCEPT ![DomainOf(r)] = None]
  /\ Return(c)
  /\ UNCHANGED <<stale, estimate, attempts, defers, lockedBy, lease, obs, claimLock,
                 crashes, rewritten>>

\* reestimate commits a run without collectors, finalize task included, and
\* goes on to finalize it itself.
Reestimate(c, d) ==
  /\ exec[c].pc = "idle" /\ domainLock[d] = None
  /\ \E r \in Run :
       /\ NextRun(d, r)
       /\ runStatus' = [runStatus EXCEPT ![r] = "queued"]
       /\ taskStatus' = [taskStatus EXCEPT ![FinalizeTask(r)] = "queued"]
       /\ exec' = [exec EXCEPT ![c].pc = "features", ![c].task = FinalizeTask(r)]
  /\ UNCHANGED <<stale, estimate, attempts, defers, lockedBy, lease, obs, lockVars,
                 crashes, rewritten>>

\* The request fails: its open transaction is rolled back.
RequestFails(c) ==
  /\ "throw" \in Faults /\ exec[c].pc # "idle"
  /\ domainLock' = [d \in Domain |-> IF domainLock[d] = c THEN None ELSE domainLock[d]]
  /\ Return(c)
  /\ UNCHANGED <<runVars, taskVars, obs, claimLock, crashes, rewritten>>

-----------------------------------------------------------------------------
(* Worker._claim and queue.claim *)

\* Mutant: claims without the advisory lock.
ClaimSelectUnserialised(w, t) ==
  /\ exec[w].pc = "idle"
  /\ taskStatus[t] = "queued" /\ RowFree(t)
  /\ Cardinality(Running(t[2])) < Cap[t[2]]
  /\ exec' = [exec EXCEPT ![w].pc = "claiming", ![w].task = t]
  /\ UNCHANGED <<runVars, taskVars, obs, lockVars, crashes, rewritten>>

\* The claim's statement picks a queued task of a kind below its cap; which one
\* is left open, for it depends on run_after and the order of ids.
ClaimSelect(w, t) ==
  /\ exec[w].pc = "idle" /\ claimLock = None
  /\ taskStatus[t] = "queued" /\ RowFree(t)
  /\ Cardinality(Running(t[2])) < Cap[t[2]]
  /\ claimLock' = w
  /\ exec' = [exec EXCEPT ![w].pc = "claiming", ![w].task = t]
  /\ UNCHANGED <<runVars, taskVars, obs, domainLock, crashes, rewritten>>

ClaimCommit(w) ==
  /\ exec[w].pc = "claiming"
  /\ LET t == exec[w].task
     IN /\ taskStatus' = [taskStatus EXCEPT ![t] = "running"]
        /\ lockedBy' = [lockedBy EXCEPT ![t] = w]
        /\ lease' = [lease EXCEPT ![t] = TRUE]
        /\ attempts' = [attempts EXCEPT ![t] = @ + 1]
        /\ exec' = [exec EXCEPT ![w].pc = IF t[2] = Finalize THEN "features" ELSE "begin",
                                ![w].attempt = attempts[t] + 1]
  /\ claimLock' = None
  /\ UNCHANGED <<runVars, defers, obs, domainLock, crashes, rewritten>>

-----------------------------------------------------------------------------
(* run_collector_task *)

\* Mutant: the run becomes running whatever it was.
BeginAnyRun(w) ==
  /\ exec[w].pc = "begin"
  /\ LET t == exec[w].task
     IN /\ runStatus' = [runStatus EXCEPT ![RunOf(t)] = "running"]
        /\ \/ t[2] \in obs[DomainOf(RunOf(t))] /\ GotoWith(w, "settle", "skipped")
           \/ Goto(w, "collect")
  /\ UNCHANGED <<stale, estimate, taskVars, obs, lockVars, crashes, rewritten>>

\* The run is running; a recent observation is reused, unless force is set.
Begin(w) ==
  /\ exec[w].pc = "begin"
  /\ LET t == exec[w].task
     IN /\ runStatus' = [runStatus EXCEPT ![RunOf(t)] = IF @ = "queued" THEN "running" ELSE @]
        /\ \/ t[2] \in obs[DomainOf(RunOf(t))] /\ GotoWith(w, "settle", "skipped")
           \/ Goto(w, "collect")
  /\ UNCHANGED <<stale, estimate, taskVars, obs, lockVars, crashes, rewritten>>

\* collector.collect and the transaction that stores what it found.
Collect(w) ==
  /\ exec[w].pc = "collect"
  /\ LET t == exec[w].task
     IN \/ /\ obs' = [obs EXCEPT ![DomainOf(RunOf(t))] = @ \cup {t[2]}]
           /\ GotoWith(w, "settle", "succeeded")
        \/ /\ \E outcome \in {"skipped", "failed", "retry"} : GotoWith(w, "settle", outcome)
           /\ UNCHANGED obs
        \/ /\ defers[t] < Defers
           /\ GotoWith(w, "settle", "defer")
           /\ UNCHANGED obs
  /\ UNCHANGED <<runVars, taskVars, lockVars, crashes, rewritten>>

-----------------------------------------------------------------------------
(* finalize_run, by a worker or by reestimate *)

ReadFeatures(x) ==
  /\ exec[x].pc = "features"
  /\ exec' = [exec EXCEPT ![x].pc = "estimate",
                          ![x].sources = obs[DomainOf(RunOf(exec[x].task))]]
  /\ UNCHANGED <<runVars, taskVars, obs, lockVars, crashes, rewritten>>

StoreEstimate(x) ==
  /\ exec[x].pc = "estimate"
  /\ LET r == RunOf(exec[x].task)
     IN /\ domainLock[DomainOf(r)] = None
        /\ estimate' = [estimate EXCEPT ![r] = exec[x].sources]
        /\ runStatus' = [runStatus EXCEPT ![r] = "completed"]
  /\ \/ x \in Worker /\ GotoWith(x, "settle", "succeeded")
     \/ x \in Client /\ Return(x)
  /\ UNCHANGED <<stale, taskVars, obs, lockVars, crashes, rewritten>>

-----------------------------------------------------------------------------
(* The end of a task: Worker._finish, _fail and _defer with queue.complete *)
(* and queue.fail.  None of their UPDATEs looks at status or locked_by.    *)

Holds(w, t) == taskStatus[t] = "running" /\ lockedBy[t] = w

\* The row of a worker's task is written and unlocked.
Write(w, status) ==
  LET t == exec[w].task
  IN /\ RowFree(t)
     /\ taskStatus' = [taskStatus EXCEPT ![t] = status]
     /\ lockedBy' = [lockedBy EXCEPT ![t] = None]
     /\ lease' = [lease EXCEPT ![t] = FALSE]
     /\ rewritten' = rewritten \cup (IF Holds(w, t) THEN {} ELSE {RunOf(t)})

\* After a collector the run may be ready to finalize; finalize just ends.
AfterTask(w) ==
  IF exec[w].task[2] = Finalize THEN Return(w) ELSE Goto(w, "after")

Complete(w) ==
  /\ exec[w].pc = "settle" /\ exec[w].outcome \in {"succeeded", "skipped"}
  /\ Write(w, exec[w].outcome)
  /\ AfterTask(w)
  /\ UNCHANGED <<runVars, attempts, defers, obs, lockVars, crashes>>

\* The collector reported a failure.
Fail(w) ==
  /\ exec[w].pc = "settle" /\ exec[w].outcome \in {"failed", "retry"}
  /\ Write(w, IF exec[w].outcome = "retry" /\ exec[w].attempt < Attempts[exec[w].task[2]]
                THEN "queued" ELSE "failed")
  /\ AfterTask(w)
  /\ UNCHANGED <<runVars, attempts, defers, obs, lockVars, crashes>>

Defer(w) ==
  /\ exec[w].pc = "settle" /\ exec[w].outcome = "defer"
  /\ Write(w, "queued")
  /\ LET t == exec[w].task
     IN /\ attempts' = [attempts EXCEPT ![t] = IF @ > 0 THEN @ - 1 ELSE 0]
        /\ defers' = [defers EXCEPT ![t] = @ + 1]
  /\ Return(w)
  /\ UNCHANGED <<runVars, obs, lockVars, crashes>>

\* An exception: _execute takes the task as failed, to be retried.
Raise(w) ==
  /\ "throw" \in Faults
  /\ exec[w].pc \in {"begin", "collect", "features", "estimate", "settle", "after"}
  /\ GotoWith(w, "failing", "retry")
  /\ UNCHANGED <<runVars, taskVars, obs, lockVars, crashes, rewritten>>

\* The _fail of the exception handler; with the last attempt of finalize its
\* run fails too.
FailRaised(w) ==
  /\ exec[w].pc = "failing"
  /\ LET t == exec[w].task
         again == exec[w].attempt < Attempts[t[2]]
     IN /\ Write(w, IF again THEN "queued" ELSE "failed")
        /\ runStatus' = [runStatus EXCEPT ![RunOf(t)] =
                           IF t[2] = Finalize /\ ~again THEN "failed" ELSE @]
  /\ Return(w)
  /\ UNCHANGED <<stale, estimate, attempts, defers, obs, lockVars, crashes>>

\* A second exception ends the coroutine and leaves the row as it is.
RaiseAgain(w) ==
  /\ "throw" \in Faults /\ exec[w].pc = "failing"
  /\ Return(w)
  /\ UNCHANGED <<runVars, taskVars, obs, lockVars, crashes, rewritten>>

\* Mutant: only running tasks count as open.
OpenRunningOnly(r, status) == \E t \in RunTasks(r) : status[t] = "running"

Open(r, status) == \E t \in RunTasks(r) : status[t] \in ActiveStatus

\* maybe_finalize over the runs R: finalize is queued, once, for each of them
\* that has no open collector task.
MaybeFinalize(R, status) ==
  [t \in Task |-> IF /\ t[2] = Finalize /\ RunOf(t) \in R
                     /\ ~Open(RunOf(t), status) /\ status[t] = "absent"
                    THEN "queued" ELSE status[t]]

\* _after_collector: nothing to do for a task queued again.
AfterCollector(w) ==
  /\ exec[w].pc = "after"
  /\ LET t == exec[w].task
     IN taskStatus' = IF taskStatus[t] \in DoneTask
                        THEN MaybeFinalize({RunOf(t)}, taskStatus) ELSE taskStatus
  /\ Return(w)
  /\ UNCHANGED <<runVars, attempts, defers, lockedBy, lease, obs, lockVars, crashes, rewritten>>

-----------------------------------------------------------------------------
(* Recovery *)

Lost == {t \in Task : taskStatus[t] = "running" /\ ~lease[t]}

\* recover_lost, for all rows at once.
Recovered ==
  LET lost == Lost
  IN  [t \in Task |-> IF t \notin lost THEN taskStatus[t]
                      ELSE IF attempts[t] < Attempts[t[2]] THEN "queued" ELSE "failed"]
Unlocked == LET lost == Lost IN [t \in Task |-> IF t \in lost THEN None ELSE lockedBy[t]]

\* A worker's recover_lost, every 60 s.
RecoverLost ==
  /\ Lost # {}
  /\ taskStatus' = Recovered
  /\ lockedBy' = Unlocked
  /\ UNCHANGED <<runVars, attempts, defers, lease, obs, lockVars, exec, crashes, rewritten>>

\* Mutant: runs that have ended are looked at too, and fill the LIMIT.
NeverFinalizedOfAll(status) ==
  {r \in stale : \A k \in Kind : status[<<r, k>>] \notin ActiveStatus}

\* The runs that count as never finalized, and the choices the LIMIT of their
\* SELECT has: it names no order.
NeverFinalized(status) ==
  {r \in stale : RunActive(r) /\ \A k \in Kind : status[<<r, k>>] \notin ActiveStatus}
Swept(status) ==
  LET N == NeverFinalized(status)
  IN  {R \in SUBSET N : Cardinality(R) = Sweep \/ (R = N /\ Cardinality(N) < Sweep)}

\* scheduler.tick
Tick ==
  /\ \E R \in Swept(Recovered) : taskStatus' = MaybeFinalize(R, Recovered)
  /\ lockedBy' = Unlocked
  /\ UNCHANGED <<runVars, attempts, defers, lease, obs, lockVars, exec, crashes, rewritten>>

-----------------------------------------------------------------------------
(* The environment *)

\* A worker's heartbeat keeps the lease of the task it executes.
Abandoned(t) == \A w \in Worker : exec[w].task # t \/ lockedBy[t] # w

LeaseExpires(t) ==
  /\ taskStatus[t] = "running" /\ lease[t]
  /\ Abandoned(t) \/ "late" \in Faults
  /\ lease' = [lease EXCEPT ![t] = FALSE]
  /\ UNCHANGED <<runVars, taskStatus, attempts, defers, lockedBy, obs, lockVars, exec,
                 crashes, rewritten>>

\* STALE_RUN_HOURS have passed since the run was created.
Age(r) ==
  /\ RunActive(r) /\ r \notin stale
  /\ stale' = stale \cup {r}
  /\ UNCHANGED <<runStatus, estimate, taskVars, obs, lockVars, exec, crashes, rewritten>>

Crash(w) ==
  /\ crashes < MaxCrashes /\ exec[w].pc # "idle"
  /\ crashes' = crashes + 1
  /\ claimLock' = IF claimLock = w THEN None ELSE claimLock
  /\ Return(w)
  /\ UNCHANGED <<runVars, taskVars, obs, domainLock, rewritten>>

-----------------------------------------------------------------------------
Work(w) ==
  \/ ClaimCommit(w) \/ Begin(w) \/ Collect(w) \/ ReadFeatures(w) \/ StoreEstimate(w)
  \/ Complete(w) \/ Fail(w) \/ Defer(w) \/ FailRaised(w) \/ AfterCollector(w)

Next ==
  \/ \E c \in Client, d \in Domain : IngestCheck(c, d) \/ Reestimate(c, d)
  \/ \E c \in Client : IngestCommit(c) \/ ReadFeatures(c) \/ StoreEstimate(c) \/ RequestFails(c)
  \/ \E w \in Worker, t \in Task : ClaimSelect(w, t)
  \/ \E w \in Worker : Work(w) \/ Raise(w) \/ RaiseAgain(w) \/ Crash(w)
  \/ RecoverLost \/ Tick
  \/ \E t \in Task : LeaseExpires(t)
  \/ \E r \in Run : Age(r)

Spec == Init /\ [][Next]_vars

\* A tick that changes something whichever runs the LIMIT lets it see: only that
\* it can be counted on, for it may look at the same runs for ever.
SureTick == Tick /\ \A R \in Swept(Recovered) : MaybeFinalize(R, Recovered) # taskStatus

\* Fairness: a worker claims while it can and works on, the scheduler keeps
\* ticking, and time passes: leases run out and runs grow old.
Fairness ==
  /\ \A w \in Worker : WF_vars(Work(w) \/ \E t \in Task : ClaimSelect(w, t))
  /\ WF_vars(SureTick)
  /\ WF_vars(\E t \in Task : Abandoned(t) /\ LeaseExpires(t))
  /\ WF_vars(\E r \in Run : Age(r))

FairSpec == Spec /\ Fairness

-----------------------------------------------------------------------------
(* Properties *)

ExecPC == {"idle", "create", "claiming", "begin", "collect", "features", "estimate",
           "settle", "after", "failing"}

TypeOK ==
  /\ runStatus \in [Run -> {"absent", "queued", "running", "completed", "failed"}]
  /\ stale \subseteq Run /\ rewritten \subseteq Run
  /\ estimate \in [Run -> SUBSET Collector]
  /\ taskStatus \in [Task -> {"absent"} \cup ActiveStatus \cup DoneTask]
  /\ attempts \in [Task -> Nat] /\ defers \in [Task -> Nat]
  /\ lockedBy \in [Task -> Worker \cup {None}]
  /\ lease \in [Task -> BOOLEAN]
  /\ obs \in [Domain -> SUBSET Collector]
  /\ domainLock \in [Domain -> Client \cup {None}] /\ claimLock \in Worker \cup {None}
  /\ exec \in [Executor -> [pc : ExecPC, task : Task \cup {<<>>}, attempt : Nat,
                            outcome : {None, "succeeded", "skipped", "failed", "retry", "defer"},
                            sources : SUBSET Collector]]
  /\ crashes \in 0..MaxCrashes

\* "Per-kind caps are exact": no more tasks of a kind are running, as the table
\* has it, than its cap, however many workers claim at once.
RunningWithinCap == \A k \in Kind : Cardinality(Running(k)) <= Cap[k]

Collecting(r) == RunActive(r) /\ \E t \in RunTasks(r) : taskStatus[t] # "absent"

\* "Active run? Reuse it": concurrent requests never start collecting the same
\* domain twice.
OneCollectingRun ==
  \A r, q \in Run : Collecting(r) /\ Collecting(q) /\ DomainOf(r) = DomainOf(q) => r = q

\* A run completes only after every one of its collector tasks has ended, and
\* its estimate has used what each successful one stored; unless a task was
\* written by a worker that no longer held it.
EstimateUsesEverySource ==
  \A r \in Run : runStatus[r] = "completed" /\ r \notin rewritten =>
    \A t \in RunTasks(r) :
      /\ taskStatus[t] \in DoneTask \cup {"absent"}
      /\ taskStatus[t] = "succeeded" => t[2] \in estimate[r]

\* A run that has ended is not active again, whatever late workers do; they may
\* only make a failed run completed or a completed one failed (worker.py:152-156).
EndedRunStaysEnded ==
  [][\A r \in Run : runStatus[r] \in {"completed", "failed"} =>
       runStatus'[r] \in {"completed", "failed"}]_vars

\* recover_lost fails a finalize task that was lost too often, and leaves its run
\* active: maybe_finalize has queued a finalize for it, which it does only once.
GivenUp == {r \in Run : RunActive(r) /\ taskStatus[FinalizeTask(r)] = "failed"}

\* Every run ends, unless its finalize task was failed by recover_lost, or a
\* finalize was never queued for it and so many runs were given up that a tick
\* need not look at any other: they stay in its LIMIT 100 (scheduler.py:54).
EveryRunEndsOrIsLost ==
  \A r \in Run :
    RunActive(r) ~> \/ ~RunActive(r) \/ r \in GivenUp
                    \/ taskStatus[FinalizeTask(r)] = "absent" /\ Cardinality(GivenUp) >= Sweep
==============================================================================
