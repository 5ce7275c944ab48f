------------------------ MODULE TrafficPipeline_proofs ------------------------
(***************************************************************************)
(* What holds of TrafficPipeline for any domains, collectors, workers and  *)
(* requests, any caps, attempts and deferrals, and whatever goes wrong:    *)
(* exceptions, leases that run out and any number of crashes.              *)
(***************************************************************************)
EXTENDS TrafficPipeline, FiniteSetTheorems, TLAPS

Outcomes == {None, "succeeded", "skipped", "failed", "retry", "defer"}
Exec == [pc : ExecPC, task : Task \cup {<<>>}, attempt : Nat, outcome : Outcomes, sources : SUBSET Collector]

\* A run has tasks once it is there.
Created == \A r \in Run : runStatus[r] = "absent" => \A k \in Kind : taskStatus[<<r, k>>] = "absent"

\* A worker executes a task that is there, the right way for its kind; it says
\* that a collector succeeded after the observation was stored.
Working(w) ==
  /\ exec[w].pc # "create"
  /\ exec[w].pc # "idle" => exec[w].task \in Task /\ taskStatus[exec[w].task] # "absent"
  /\ exec[w].pc \in {"features", "estimate"} => exec[w].task[2] = Finalize
  /\ exec[w].pc \in {"begin", "collect"} => exec[w].task[2] \in Collector
  /\ exec[w].pc = "settle" /\ exec[w].outcome = "succeeded" /\ exec[w].task[2] \in Collector =>
       exec[w].task[2] \in obs[DomainOf(RunOf(exec[w].task))]

\* A worker that claims holds the lock, and its task still waits below the cap.
Claiming(w) ==
  exec[w].pc = "claiming" =>
    LET t == exec[w].task
    IN  claimLock = w /\ taskStatus[t] = "queued" /\ Cardinality(Running(t[2])) < Cap[t[2]]

\* A request that creates a run holds the domain, which has no active run; one
\* that estimates has committed its run.
Requesting(c) ==
  /\ exec[c].pc \in {"idle", "create", "features", "estimate"}
  /\ exec[c].pc # "idle" => exec[c].task \in Task /\ exec[c].task[2] = Finalize
  /\ exec[c].pc = "create" =>
       LET r == RunOf(exec[c].task)
       IN  /\ domainLock[DomainOf(r)] = c /\ runStatus[r] = "absent"
           /\ \A q \in Run : DomainOf(q) = DomainOf(r) => ~RunActive(q)
  /\ exec[c].pc \in {"features", "estimate"} => taskStatus[exec[c].task] # "absent"

\* The collectors have come to an end when there is a finalize task, and what
\* succeeded is stored; the features that are read have all of it.
Settled(r) == \A k \in Collector : taskStatus[<<r, k>>] \in DoneTask \cup {"absent"}
Uses(r, sources) == \A k \in Collector : taskStatus[<<r, k>>] = "succeeded" => k \in sources
Sources ==
  /\ \A r \in Run, k \in Collector : taskStatus[<<r, k>>] = "succeeded" => k \in obs[DomainOf(r)]
  /\ \A r \in Run : taskStatus[FinalizeTask(r)] # "absent" /\ r \notin rewritten => Settled(r)
  /\ \A r \in Run : runStatus[r] = "completed" => taskStatus[FinalizeTask(r)] # "absent"
  /\ \A r \in Run : runStatus[r] = "completed" /\ r \notin rewritten => Uses(r, estimate[r])
  /\ \A x \in Executor : exec[x].pc = "estimate" /\ RunOf(exec[x].task) \notin rewritten =>
       Uses(RunOf(exec[x].task), exec[x].sources)

IInv ==
  /\ TypeOK /\ Created /\ Sources
  /\ \A w \in Worker : Working(w) /\ Claiming(w)
  /\ \A c \in Client : Requesting(c)
  /\ RunningWithinCap /\ OneCollectingRun

-----------------------------------------------------------------------------
(* Runs and tasks, and what a step does to its executor.                   *)

LEMMA Tasks ==
  /\ \A t \in Task : RunOf(t) \in Run /\ t[2] \in Kind /\ t = <<RunOf(t), t[2]>>
  /\ \A r \in Run, k \in Kind : <<r, k>> \in Task /\ RunOf(<<r, k>>) = r /\ <<r, k>>[2] = k
  /\ \A r \in Run : DomainOf(r) \in Domain
  /\ \A r \in Run : FinalizeTask(r) \in Task /\ RunOf(FinalizeTask(r)) = r /\ FinalizeTask(r)[2] = Finalize
  /\ \A r \in Run : RunTasks(r) = {<<r, k>> : k \in Collector}
BY DEF Task, Run, RunOf, DomainOf, Kind, FinalizeTask, RunTasks

LEMMA FiniteTask == IsFiniteSet(Task)
<1>1. IsFiniteSet(1..PerDomain)
  BY ConstantsAssumption, FS_Interval
<1>2. IsFiniteSet(Run)
  BY <1>1, ConstantsAssumption, FS_Product DEF Run
<1>3. IsFiniteSet(Kind)
  BY ConstantsAssumption, FS_AddElement DEF Kind
<1> QED BY <1>2, <1>3, FS_Product DEF Task

LEMMA GotoExec ==
  ASSUME exec \in [Executor -> Exec], NEW x \in Executor, NEW pc \in ExecPC, Goto(x, pc)
  PROVE  /\ exec' \in [Executor -> Exec] /\ exec'[x].pc = pc /\ exec'[x].task = exec[x].task
         /\ exec'[x].outcome = exec[x].outcome /\ exec'[x].sources = exec[x].sources
         /\ \A y \in Executor \ {x} : exec'[y] = exec[y]
<1> DEFINE row == [exec[x] EXCEPT !.pc = pc]
<1>1. exec' = [exec EXCEPT ![x] = row]
  BY DEF Goto
<1>2. /\ row \in Exec /\ row.pc = pc /\ row.task = exec[x].task /\ row.outcome = exec[x].outcome
      /\ row.sources = exec[x].sources
  <2>1. exec[x] \in Exec
    OBVIOUS
  <2> QED BY <2>1 DEF Exec
<1> HIDE DEF row
<1> QED BY <1>1, <1>2

LEMMA GotoWithExec ==
  ASSUME exec \in [Executor -> Exec], NEW x \in Executor, NEW pc \in ExecPC, NEW outcome \in Outcomes,
         GotoWith(x, pc, outcome)
  PROVE  /\ exec' \in [Executor -> Exec] /\ exec'[x].pc = pc /\ exec'[x].task = exec[x].task
         /\ exec'[x].outcome = outcome
         /\ \A y \in Executor \ {x} : exec'[y] = exec[y]
<1> DEFINE row == [exec[x] EXCEPT !.pc = pc, !.outcome = outcome]
<1>1. exec' = [exec EXCEPT ![x] = row]
  BY DEF GotoWith
<1>2. row \in Exec /\ row.pc = pc /\ row.task = exec[x].task /\ row.outcome = outcome
  <2>1. exec[x] \in Exec
    OBVIOUS
  <2> QED BY <2>1 DEF Exec
<1> HIDE DEF row
<1> QED BY <1>1, <1>2

LEMMA TakeExec ==
  ASSUME exec \in [Executor -> Exec], NEW x \in Executor, NEW pc \in ExecPC, NEW t \in Task,
         exec' = [exec EXCEPT ![x].pc = pc, ![x].task = t]
  PROVE  /\ exec' \in [Executor -> Exec] /\ exec'[x].pc = pc /\ exec'[x].task = t
         /\ \A y \in Executor \ {x} : exec'[y] = exec[y]
<1> DEFINE row == [exec[x] EXCEPT !.pc = pc, !.task = t]
<1>1. exec' = [exec EXCEPT ![x] = row]
  OBVIOUS
<1>2. row \in Exec /\ row.pc = pc /\ row.task = t
  <2>1. exec[x] \in Exec
    OBVIOUS
  <2> QED BY <2>1 DEF Exec
<1> HIDE DEF row
<1> QED BY <1>1, <1>2

LEMMA ReturnExec ==
  ASSUME exec \in [Executor -> Exec], NEW x \in Executor, Return(x)
  PROVE  /\ exec' \in [Executor -> Exec] /\ exec'[x].pc = "idle" /\ \A y \in Executor \ {x} : exec'[y] = exec[y]
<1>1. NoTask \in Exec /\ NoTask.pc = "idle"
  BY DEF NoTask, Exec, ExecPC, Outcomes
<1> QED BY <1>1 DEF Return

-----------------------------------------------------------------------------
(* What a step of x leaves to the others.                                  *)

\* A task that is there stays, a claimed one waits, and a domain that another
\* request holds gets no run.
Kept(x) ==
  /\ \A y \in Executor \ {x} : exec'[y] = exec[y]
  /\ \A t \in Task : taskStatus[t] # "absent" => taskStatus'[t] # "absent"
  /\ \A d \in Domain : obs[d] \subseteq obs'[d]
  /\ \A w \in Worker \ {x} : exec[w].pc = "claiming" =>
       /\ claimLock' = claimLock /\ taskStatus'[exec[w].task] = "queued"
       /\ \A k \in Kind : Running(k)' \subseteq Running(k)
  /\ \A r \in Run : domainLock[DomainOf(r)] \notin {None, x} =>
       /\ domainLock'[DomainOf(r)] = domainLock[DomainOf(r)]
       /\ RunActive(r)' => RunActive(r)
       /\ runStatus[r] = "absent" => runStatus'[r] = "absent"

LEMMA TypedExec == ASSUME IInv PROVE exec \in [Executor -> Exec]
BY DEF IInv, TypeOK, Exec, Outcomes

LEMMA FewerRunning ==
  ASSUME NEW k, Running(k)' \subseteq Running(k)
  PROVE  /\ Cardinality(Running(k))' \in Nat /\ Cardinality(Running(k)) \in Nat
         /\ Cardinality(Running(k))' <= Cardinality(Running(k))
<1>1. IsFiniteSet(Running(k)) /\ IsFiniteSet(Running(k)')
  BY FiniteTask, FS_Subset DEF Running
<1> QED BY <1>1, FS_Subset, FS_CardinalityType

LEMMA WithinCap ==
  ASSUME IInv, \A k \in Kind : Running(k)' \subseteq Running(k)
  PROVE  RunningWithinCap'
<1>1. ASSUME NEW k \in Kind PROVE Cardinality(Running(k))' <= Cap[k]
  BY FewerRunning, ConstantsAssumption DEF IInv, RunningWithinCap
<1> QED BY <1>1 DEF RunningWithinCap

LEMMA Others ==
  ASSUME IInv, NEW x, Kept(x)
  PROVE  /\ \A w \in Worker \ {x} : Working(w)' /\ Claiming(w)'
         /\ \A c \in Client \ {x} : Requesting(c)'
<1>1. ASSUME NEW w \in Worker \ {x} PROVE Working(w)'
  <2>1. exec'[w] = exec[w] /\ Working(w)
    BY DEF IInv, Kept, Executor
  <2>2. ASSUME exec[w].pc # "idle"
        PROVE  /\ exec[w].task \in Task /\ taskStatus'[exec[w].task] # "absent"
               /\ DomainOf(RunOf(exec[w].task)) \in Domain
    <3>1. exec[w].task \in Task /\ taskStatus[exec[w].task] # "absent"
      BY <2>1, <2>2 DEF Working
    <3>2. taskStatus'[exec[w].task] # "absent"
      BY <3>1 DEF Kept
    <3>3. DomainOf(RunOf(exec[w].task)) \in Domain
      BY <3>1, Tasks
    <3> QED BY <3>1, <3>2, <3>3
  <2> QED BY <2>1, <2>2 DEF Working, Kept
<1>2. ASSUME NEW w \in Worker \ {x} PROVE Claiming(w)'
  <2>1. exec'[w] = exec[w] /\ Claiming(w) /\ Working(w)
    BY DEF IInv, Kept, Executor
  <2>2. SUFFICES ASSUME exec[w].pc = "claiming" PROVE Claiming(w)'
    BY <2>1 DEF Claiming
  <2>3. PICK k \in Kind : k = exec[w].task[2]
    BY <2>1, <2>2, Tasks DEF Working
  <2>4. /\ claimLock' = w /\ taskStatus'[exec[w].task] = "queued" /\ Running(k)' \subseteq Running(k)
        /\ Cardinality(Running(k)) < Cap[k]
    BY <2>1, <2>2, <2>3 DEF Claiming, Kept
  <2>5. Cardinality(Running(k))' < Cap[k]
    BY <2>3, <2>4, FewerRunning, ConstantsAssumption
  <2> QED BY <2>1, <2>3, <2>4, <2>5 DEF Claiming
<1>3. ASSUME NEW c \in Client \ {x} PROVE Requesting(c)'
  <2>1. exec'[c] = exec[c] /\ Requesting(c)
    BY DEF IInv, Kept, Executor
  <2>2. ASSUME exec[c].pc \in {"features", "estimate"} PROVE taskStatus'[exec[c].task] # "absent"
    BY <2>1, <2>2 DEF Requesting, Kept
  <2>3. ASSUME exec[c].pc = "create"
        PROVE  LET r == RunOf(exec[c].task)
               IN  /\ domainLock'[DomainOf(r)] = c /\ runStatus'[r] = "absent"
                   /\ \A q \in Run : DomainOf(q) = DomainOf(r) => ~RunActive(q)'
    <3> DEFINE r == RunOf(exec[c].task)
    <3>1. /\ r \in Run /\ domainLock[DomainOf(r)] = c /\ runStatus[r] = "absent"
          /\ \A q \in Run : DomainOf(q) = DomainOf(r) => ~RunActive(q)
      BY <2>1, <2>3, Tasks DEF Requesting
    <3>2. c \notin {None, x}
      BY ConstantsAssumption DEF Executor, None
    <3> HIDE DEF r
    <3>3. domainLock'[DomainOf(r)] = c /\ runStatus'[r] = "absent"
      BY <3>1, <3>2 DEF Kept
    <3>4. \A q \in Run : DomainOf(q) = DomainOf(r) => ~RunActive(q)'
      BY <3>1, <3>2 DEF Kept
    <3> QED BY <3>3, <3>4 DEF r
  <2> QED BY <2>1, <2>2, <2>3 DEF Requesting
<1> QED BY <1>1, <1>2, <1>3

\* The invariant after a step of x, from what x and its effect alone decide.
LEMMA Together ==
  ASSUME IInv, NEW x, Kept(x), TypeOK', Created', Sources', RunningWithinCap', OneCollectingRun',
         x \in Worker => Working(x)' /\ Claiming(x)', x \in Client => Requesting(x)'
  PROVE  IInv'
BY Others DEF IInv

LEMMA OneCollecting ==
  ASSUME IInv, \A r \in Run : Collecting(r)' => Collecting(r)
  PROVE  OneCollectingRun'
BY DEF IInv, OneCollectingRun

LEMMA InitIInv == Init => IInv
<1> SUFFICES ASSUME Init PROVE IInv
  OBVIOUS
<1>1. NoTask \in Exec /\ NoTask.pc = "idle"
  BY DEF NoTask, Exec, ExecPC, Outcomes
<1>2. exec \in [Executor -> Exec] /\ \A x \in Executor : exec[x].pc = "idle"
  BY <1>1 DEF Init
<1>3. TypeOK
  BY <1>2, ConstantsAssumption DEF Init, TypeOK, Exec, Outcomes, ActiveStatus, DoneTask
<1>4. Created
  BY Tasks DEF Init, Created
<1>5. Sources
  <2>1. \A r \in Run, k \in Kind : taskStatus[<<r, k>>] = "absent"
    BY Tasks DEF Init
  <2>2. \A r \in Run : taskStatus[FinalizeTask(r)] = "absent" /\ runStatus[r] = "absent"
    BY Tasks DEF Init
  <2> QED BY <1>2, <2>1, <2>2 DEF Sources, Kind
<1>6. (\A w \in Worker : Working(w) /\ Claiming(w)) /\ \A c \in Client : Requesting(c)
  BY <1>2 DEF Working, Claiming, Requesting, Executor
<1>7. RunningWithinCap
  <2>1. \A k \in Kind : Running(k) = {}
    BY DEF Init, Running
  <2>2. Cap \in [Kind -> Nat]
    BY ConstantsAssumption
  <2>3. \A k \in Kind : 0 <= Cap[k]
    BY <2>2
  <2> QED BY <2>1, <2>3, FS_EmptySet DEF RunningWithinCap
<1>8. OneCollectingRun
  BY DEF Init, OneCollectingRun, Collecting, RunActive, ActiveStatus
<1> QED BY <1>3, <1>4, <1>5, <1>6, <1>7, <1>8 DEF IInv

-----------------------------------------------------------------------------
(* Steps that change no run, task or observation.                          *)

LEMMA Quiet ==
  ASSUME IInv, NEW x, UNCHANGED <<runStatus, estimate, taskStatus, obs, rewritten>>,
         TypeOK', \A y \in Executor \ {x} : exec'[y] = exec[y],
         \A w \in Worker \ {x} : exec[w].pc = "claiming" => claimLock' = claimLock,
         \A d \in Domain : domainLock[d] \notin {None, x} => domainLock'[d] = domainLock[d],
         x \in Worker => Working(x)' /\ Claiming(x)', x \in Client => Requesting(x)',
         x \in Executor /\ exec'[x].pc = "estimate" /\ RunOf(exec'[x].task) \notin rewritten =>
           Uses(RunOf(exec'[x].task), exec'[x].sources)
  PROVE  IInv'
<1>1. Kept(x)
  <2>1. \A w \in Worker : exec[w].pc = "claiming" => taskStatus[exec[w].task] = "queued"
    BY DEF IInv, Claiming
  <2> QED BY <2>1, Tasks DEF Kept, Running, RunActive
<1>2. Created'
  BY DEF IInv, Created
<1>3. Sources'
  <2>1. \A r : Settled(r)' <=> Settled(r)
    BY DEF Settled
  <2>2. \A r, s : Uses(r, s)' <=> Uses(r, s)
    BY DEF Uses
  <2>3. ASSUME NEW y \in Executor, exec'[y].pc = "estimate", RunOf(exec'[y].task) \notin rewritten
        PROVE  Uses(RunOf(exec'[y].task), exec'[y].sources)
    BY <2>3 DEF IInv, Sources
  <2> QED BY <2>1, <2>3 DEF IInv, Sources, Uses
<1>4. RunningWithinCap'
  BY WithinCap DEF Running
<1>5. OneCollectingRun'
  BY OneCollecting DEF Collecting, RunActive
<1> QED BY <1>1, <1>2, <1>3, <1>4, <1>5, Together

\* The lock of a domain, the read of the features, what an exception or a crash
\* leaves, and time.
LEMMA IngestCheckIInv == ASSUME IInv, NEW c \in Client, NEW d \in Domain, IngestCheck(c, d) PROVE IInv'
<1>1. PICK r \in Run : NextRun(d, r) /\ exec' = [exec EXCEPT ![c].pc = "create", ![c].task = FinalizeTask(r)]
  BY DEF IngestCheck
<1>2. /\ exec' \in [Executor -> Exec] /\ exec'[c].pc = "create" /\ exec'[c].task = FinalizeTask(r)
      /\ \A y \in Executor \ {c} : exec'[y] = exec[y]
  BY <1>1, TypedExec, TakeExec, Tasks DEF ExecPC, Executor
<1>3. /\ domainLock[d] = None /\ domainLock' = [domainLock EXCEPT ![d] = c] /\ DomainOf(r) = d
      /\ runStatus[r] = "absent" /\ \A q \in Run : DomainOf(q) = d => ~RunActive(q)
      /\ UNCHANGED <<runVars, taskVars, obs, claimLock, crashes, rewritten>>
  BY <1>1 DEF IngestCheck, NextRun
<1>4. TypeOK'
  BY <1>2, <1>3 DEF IInv, TypeOK, Exec, Outcomes, runVars, taskVars
<1>5. Requesting(c)'
  <2>1. domainLock'[d] = c
    BY <1>3 DEF IInv, TypeOK
  <2> QED BY <1>2, <1>3, <2>1, Tasks DEF Requesting, runVars, RunActive
<1>6. c \notin Worker
  BY ConstantsAssumption
<1>7. \A e \in Domain : domainLock[e] \notin {None, c} => domainLock'[e] = domainLock[e]
  BY <1>3 DEF IInv, TypeOK
<1> QED BY <1>2, <1>3, <1>4, <1>5, <1>6, <1>7, Quiet DEF runVars, taskVars

LEMMA RequestFailsIInv == ASSUME IInv, NEW c \in Client, RequestFails(c) PROVE IInv'
<1>1. /\ exec' \in [Executor -> Exec] /\ exec'[c].pc = "idle" /\ \A y \in Executor \ {c} : exec'[y] = exec[y]
  BY TypedExec, ReturnExec DEF RequestFails, Executor
<1>2. /\ domainLock' = [d \in Domain |-> IF domainLock[d] = c THEN None ELSE domainLock[d]]
      /\ UNCHANGED <<runVars, taskVars, obs, claimLock, crashes, rewritten>>
  BY DEF RequestFails
<1>3. TypeOK'
  BY <1>1, <1>2 DEF IInv, TypeOK, Exec, Outcomes, runVars, taskVars
<1>4. Requesting(c)'
  BY <1>1 DEF Requesting
<1>5. c \notin Worker
  BY ConstantsAssumption
<1>6. \A e \in Domain : domainLock[e] \notin {None, c} => domainLock'[e] = domainLock[e]
  BY <1>2
<1> QED BY <1>1, <1>2, <1>3, <1>4, <1>5, <1>6, Quiet DEF runVars, taskVars

LEMMA ClaimSelectIInv == ASSUME IInv, NEW w \in Worker, NEW t \in Task, ClaimSelect(w, t) PROVE IInv'
<1>1. /\ claimLock = None /\ claimLock' = w /\ taskStatus[t] = "queued" /\ Cardinality(Running(t[2])) < Cap[t[2]]
      /\ exec' = [exec EXCEPT ![w].pc = "claiming", ![w].task = t]
      /\ UNCHANGED <<runVars, taskVars, obs, domainLock, crashes, rewritten>>
  BY DEF ClaimSelect
<1>2. /\ exec' \in [Executor -> Exec] /\ exec'[w].pc = "claiming" /\ exec'[w].task = t
      /\ \A y \in Executor \ {w} : exec'[y] = exec[y]
  BY <1>1, TypedExec, TakeExec DEF ExecPC, Executor
<1>3. TypeOK'
  BY <1>1, <1>2 DEF IInv, TypeOK, Exec, Outcomes, runVars, taskVars
<1>4. Working(w)'
  BY <1>1, <1>2 DEF Working, taskVars
<1>5. Claiming(w)'
  BY <1>1, <1>2 DEF Claiming, taskVars, Running
<1>6. w \notin Client /\ \A v \in Worker : exec[v].pc # "claiming"
  BY <1>1, ConstantsAssumption DEF IInv, Claiming, Executor, None
<1> QED BY <1>1, <1>2, <1>3, <1>4, <1>5, <1>6, Quiet DEF runVars, taskVars

\* Nothing but the place of x.
LEMMA Places ==
  ASSUME IInv, NEW x \in Executor, UNCHANGED <<runVars, taskVars, obs, domainLock, rewritten>>,
         crashes' \in 0..MaxCrashes, claimLock' = IF claimLock = x THEN None ELSE claimLock,
         exec' \in [Executor -> Exec], \A y \in Executor \ {x} : exec'[y] = exec[y],
         exec'[x].pc = "idle"
  PROVE  IInv'
<1>1. TypeOK'
  BY DEF IInv, TypeOK, Exec, Outcomes, runVars, taskVars
<1>2. \A w \in Worker \ {x} : exec[w].pc = "claiming" => claimLock' = claimLock
  BY DEF IInv, Claiming
<1>3. (x \in Worker => Working(x)' /\ Claiming(x)') /\ (x \in Client => Requesting(x)')
  BY DEF Working, Claiming, Requesting
<1> QED BY <1>1, <1>2, <1>3, Quiet DEF runVars, taskVars

LEMMA CrashIInv == ASSUME IInv, NEW w \in Worker, Crash(w) PROVE IInv'
<1>1. /\ exec' \in [Executor -> Exec] /\ exec'[w].pc = "idle" /\ \A y \in Executor \ {w} : exec'[y] = exec[y]
  BY TypedExec, ReturnExec DEF Crash, Executor
<1>2. crashes' \in 0..MaxCrashes
  BY ConstantsAssumption DEF Crash, IInv, TypeOK
<1> QED BY <1>1, <1>2, Places DEF Crash, Executor

LEMMA RaiseAgainIInv == ASSUME IInv, NEW w \in Worker, RaiseAgain(w) PROVE IInv'
<1>1. /\ exec' \in [Executor -> Exec] /\ exec'[w].pc = "idle" /\ \A y \in Executor \ {w} : exec'[y] = exec[y]
  BY TypedExec, ReturnExec DEF RaiseAgain, Executor
<1>2. UNCHANGED <<runVars, taskVars, obs, lockVars, crashes, rewritten>> /\ exec[w].pc = "failing"
  BY DEF RaiseAgain
<1>3. TypeOK'
  BY <1>1, <1>2 DEF IInv, TypeOK, Exec, Outcomes, runVars, taskVars, lockVars
<1>4. Working(w)' /\ Claiming(w)' /\ w \notin Client
  BY <1>1, ConstantsAssumption DEF Working, Claiming
<1> QED BY <1>1, <1>2, <1>3, <1>4, Quiet DEF runVars, taskVars, lockVars

LEMMA RaiseIInv == ASSUME IInv, NEW w \in Worker, Raise(w) PROVE IInv'
<1>1. /\ exec' \in [Executor -> Exec] /\ exec'[w].pc = "failing" /\ exec'[w].task = exec[w].task
      /\ \A y \in Executor \ {w} : exec'[y] = exec[y]
  BY TypedExec, GotoWithExec DEF Raise, Executor, ExecPC, Outcomes
<1>2. UNCHANGED <<runVars, taskVars, obs, lockVars, crashes, rewritten>> /\ exec[w].pc # "idle"
  BY DEF Raise
<1>3. TypeOK'
  BY <1>1, <1>2 DEF IInv, TypeOK, Exec, Outcomes, runVars, taskVars, lockVars
<1>4. Working(w)' /\ Claiming(w)' /\ w \notin Client
  BY <1>1, <1>2, ConstantsAssumption DEF IInv, Working, Claiming, taskVars
<1> QED BY <1>1, <1>2, <1>3, <1>4, Quiet DEF runVars, taskVars, lockVars

LEMMA TimeIInv ==
  ASSUME IInv, (\E t \in Task : LeaseExpires(t)) \/ (\E r \in Run : Age(r)) \/ UNCHANGED vars
  PROVE  IInv'
<1>1. UNCHANGED <<runStatus, estimate, taskStatus, attempts, defers, lockedBy, obs, lockVars, exec, crashes, rewritten>>
  BY DEF LeaseExpires, Age, vars, runVars, taskVars
<1>2. stale' \subseteq Run /\ lease' \in [Task -> BOOLEAN]
  BY DEF LeaseExpires, Age, vars, runVars, taskVars, IInv, TypeOK
<1>3. TypeOK'
  BY <1>1, <1>2 DEF IInv, TypeOK, lockVars
<1>4. PICK x : x \notin Executor
  <2>1. None \notin Executor
    BY ConstantsAssumption DEF None
  <2> QED BY <2>1
<1> QED BY <1>1, <1>3, <1>4, Quiet DEF lockVars, Executor

LEMMA ReadFeaturesIInv == ASSUME IInv, NEW x \in Executor, ReadFeatures(x) PROVE IInv'
<1> DEFINE t == exec[x].task
           row == [exec[x] EXCEPT !.pc = "estimate", !.sources = obs[DomainOf(RunOf(t))]]
<1>1. /\ exec[x].pc = "features" /\ exec' = [exec EXCEPT ![x] = row]
      /\ UNCHANGED <<runVars, taskVars, obs, lockVars, crashes, rewritten>>
  BY DEF ReadFeatures
<1>2. /\ t \in Task /\ t[2] = Finalize /\ taskStatus[t] # "absent"
      /\ RunOf(t) \in Run /\ DomainOf(RunOf(t)) \in Domain /\ t = FinalizeTask(RunOf(t))
  <2>1. t \in Task /\ t[2] = Finalize /\ taskStatus[t] # "absent"
    BY <1>1 DEF IInv, Working, Requesting, Executor
  <2>2. t = <<RunOf(t), Finalize>>
    BY <2>1, Tasks
  <2> QED BY <2>1, <2>2, Tasks DEF FinalizeTask
<1>3. row \in Exec /\ row.pc = "estimate" /\ row.task = t /\ row.sources = obs[DomainOf(RunOf(t))]
  <2>1. exec[x] \in Exec /\ obs[DomainOf(RunOf(t))] \in SUBSET Collector
    BY <1>2, TypedExec DEF IInv, TypeOK
  <2> QED BY <2>1 DEF Exec, ExecPC
<1>4. /\ exec' \in [Executor -> Exec] /\ exec'[x] = row /\ \A y \in Executor \ {x} : exec'[y] = exec[y]
  BY <1>1, <1>3, TypedExec
<1>5. TypeOK'
  BY <1>1, <1>4 DEF IInv, TypeOK, Exec, Outcomes, runVars, taskVars, lockVars
<1> HIDE DEF row, t
<1>6. x \in Worker => Working(x)' /\ Claiming(x)'
  BY <1>1, <1>2, <1>3, <1>4 DEF Working, Claiming, taskVars
<1>7. x \in Client => Requesting(x)'
  BY <1>1, <1>2, <1>3, <1>4 DEF Requesting, taskVars
<1>8. Uses(RunOf(t), obs[DomainOf(RunOf(t))])
  BY <1>2 DEF IInv, Sources, Uses
<1> QED BY <1>1, <1>3, <1>4, <1>5, <1>6, <1>7, <1>8, Quiet DEF runVars, taskVars, lockVars

-----------------------------------------------------------------------------
(* Steps that change a run, an observation or one task.                    *)

\* The sources, when no task changes.
LEMMA SameTasks ==
  ASSUME IInv, NEW x, UNCHANGED <<taskStatus, rewritten>>, \A y \in Executor \ {x} : exec'[y] = exec[y],
         \A d \in Domain : obs[d] \subseteq obs'[d],
         \A r \in Run : runStatus'[r] = "completed" =>
           \/ runStatus[r] = "completed" /\ estimate'[r] = estimate[r]
           \/ taskStatus[FinalizeTask(r)] # "absent" /\ (r \notin rewritten => Uses(r, estimate'[r])),
         x \in Executor => exec'[x].pc # "estimate"
  PROVE  Sources'
<1>1. \A r \in Run, k \in Collector : taskStatus[<<r, k>>] = "succeeded" => k \in obs'[DomainOf(r)]
  BY Tasks DEF IInv, Sources
<1>2. \A r \in Run : taskStatus[FinalizeTask(r)] # "absent" /\ r \notin rewritten => Settled(r)
  BY DEF IInv, Sources
<1>3. \A r \in Run : runStatus'[r] = "completed" =>
        taskStatus[FinalizeTask(r)] # "absent" /\ (r \notin rewritten => Uses(r, estimate'[r]))
  BY DEF IInv, Sources
<1>4. ASSUME NEW y \in Executor, exec'[y].pc = "estimate", RunOf(exec'[y].task) \notin rewritten
      PROVE  Uses(RunOf(exec'[y].task), exec'[y].sources)
  <2>1. exec'[y] = exec[y]
    BY <1>4
  <2> QED BY <1>4, <2>1 DEF IInv, Sources
<1> QED BY <1>1, <1>2, <1>3, <1>4 DEF Sources, Settled, Uses

\* The one whose turn it is: what it executes.
LEMMA Turn ==
  ASSUME IInv, NEW w \in Worker, exec[w].pc # "idle"
  PROVE  /\ exec[w].task \in Task /\ taskStatus[exec[w].task] # "absent"
         /\ RunOf(exec[w].task) \in Run /\ DomainOf(RunOf(exec[w].task)) \in Domain
         /\ exec[w].task = <<RunOf(exec[w].task), exec[w].task[2]>> /\ exec[w].task[2] \in Kind
         /\ runStatus[RunOf(exec[w].task)] # "absent"
         /\ w \in Executor /\ w \notin Client
<1>1. exec[w].task \in Task /\ taskStatus[exec[w].task] # "absent"
  BY DEF IInv, Working
<1>2. /\ RunOf(exec[w].task) \in Run /\ DomainOf(RunOf(exec[w].task)) \in Domain
      /\ exec[w].task = <<RunOf(exec[w].task), exec[w].task[2]>> /\ exec[w].task[2] \in Kind
  BY <1>1, Tasks
<1>3. runStatus[RunOf(exec[w].task)] # "absent"
  BY <1>1, <1>2 DEF IInv, Created
<1> QED BY <1>1, <1>2, <1>3, ConstantsAssumption DEF Executor

LEMMA Claimed == ASSUME IInv PROVE \A w \in Worker : exec[w].pc = "claiming" => taskStatus[exec[w].task] = "queued"
BY DEF IInv, Claiming

LEMMA BeginIInv == ASSUME IInv, NEW w \in Worker, Begin(w) PROVE IInv'
<1> DEFINE t == exec[w].task
           r == RunOf(t)
<1>1. /\ exec[w].pc = "begin" /\ UNCHANGED <<stale, estimate, taskVars, obs, lockVars, crashes, rewritten>>
      /\ runStatus' = [runStatus EXCEPT ![r] = IF @ = "queued" THEN "running" ELSE @]
      /\ \/ t[2] \in obs[DomainOf(r)] /\ GotoWith(w, "settle", "skipped")
         \/ Goto(w, "collect")
  BY DEF Begin
<1>2. t \in Task /\ r \in Run /\ w \in Executor /\ w \notin Client /\ t[2] \in Collector /\ taskStatus[t] # "absent"
  BY <1>1, Turn DEF IInv, Working
<1>3. /\ exec' \in [Executor -> Exec] /\ exec'[w].task = t /\ \A y \in Executor \ {w} : exec'[y] = exec[y]
      /\ exec'[w].pc = "collect" \/ (exec'[w].pc = "settle" /\ exec'[w].outcome = "skipped")
  BY <1>1, <1>2, TypedExec, GotoExec, GotoWithExec DEF ExecPC, Outcomes
<1> HIDE DEF t, r
<1>4. /\ runStatus' \in [Run -> {"absent", "queued", "running", "completed", "failed"}]
      /\ \A q \in Run : RunActive(q)' <=> RunActive(q)
      /\ \A q \in Run : runStatus'[q] = "absent" <=> runStatus[q] = "absent"
      /\ \A q \in Run : runStatus'[q] = "completed" <=> runStatus[q] = "completed"
  BY <1>1, <1>2 DEF IInv, TypeOK, RunActive, ActiveStatus
<1>5. TypeOK'
  BY <1>1, <1>3, <1>4 DEF IInv, TypeOK, Exec, Outcomes, taskVars, lockVars
<1>6. Created'
  BY <1>1, <1>4 DEF IInv, Created, taskVars
<1>7. Sources'
  BY <1>1, <1>3, <1>4, SameTasks DEF taskVars
<1>8. Kept(w)
  BY <1>1, <1>3, <1>4, Claimed DEF Kept, taskVars, lockVars, Running
<1>9. RunningWithinCap' /\ OneCollectingRun'
  BY <1>1, <1>4, WithinCap, OneCollecting DEF taskVars, Running, Collecting
<1>10. Working(w)' /\ Claiming(w)'
  BY <1>1, <1>2, <1>3 DEF Working, Claiming, taskVars
<1> QED BY <1>2, <1>5, <1>6, <1>7, <1>8, <1>9, <1>10, Together

LEMMA CollectIInv == ASSUME IInv, NEW w \in Worker, Collect(w) PROVE IInv'
<1> DEFINE t == exec[w].task
           d == DomainOf(RunOf(t))
<1>1. /\ exec[w].pc = "collect" /\ UNCHANGED <<runVars, taskVars, lockVars, crashes, rewritten>>
      /\ \/ obs' = [obs EXCEPT ![d] = @ \cup {t[2]}] /\ GotoWith(w, "settle", "succeeded")
         \/ \E outcome \in {"skipped", "failed", "retry", "defer"} : GotoWith(w, "settle", outcome) /\ UNCHANGED obs
  BY DEF Collect
<1>2. t \in Task /\ d \in Domain /\ w \in Executor /\ w \notin Client /\ t[2] \in Collector /\ taskStatus[t] # "absent"
  BY <1>1, Turn DEF IInv, Working
<1>3. /\ exec' \in [Executor -> Exec] /\ exec'[w].task = t /\ exec'[w].pc = "settle"
      /\ \A y \in Executor \ {w} : exec'[y] = exec[y]
  BY <1>1, <1>2, TypedExec, GotoWithExec DEF ExecPC, Outcomes
<1>4. exec'[w].outcome = "succeeded" => obs' = [obs EXCEPT ![d] = @ \cup {t[2]}]
  BY <1>1, <1>2, TypedExec, GotoWithExec DEF ExecPC, Outcomes
<1>5. /\ obs' \in [Domain -> SUBSET Collector] /\ \A e \in Domain : obs[e] \subseteq obs'[e]
      /\ exec'[w].outcome = "succeeded" => t[2] \in obs'[d]
  <2>1. obs \in [Domain -> SUBSET Collector]
    BY DEF IInv, TypeOK
  <2>2. CASE obs' = [obs EXCEPT ![d] = @ \cup {t[2]}]
    <3> HIDE DEF t, d
    <3>1. obs' \in [Domain -> SUBSET Collector] /\ t[2] \in obs'[d]
      BY <1>2, <2>1, <2>2
    <3>2. \A e \in Domain : obs[e] \subseteq obs'[e]
      BY <1>2, <2>1, <2>2
    <3> QED BY <3>1, <3>2
  <2>3. CASE UNCHANGED obs /\ obs' # [obs EXCEPT ![d] = @ \cup {t[2]}]
    BY <1>4, <2>1, <2>3
  <2> QED BY <1>1, <2>2, <2>3
<1>6. TypeOK'
  BY <1>1, <1>3, <1>5 DEF IInv, TypeOK, Exec, Outcomes, taskVars, lockVars, runVars
<1>7. Created'
  BY <1>1 DEF IInv, Created, taskVars, runVars
<1>8. Sources'
  BY <1>1, <1>3, <1>5, SameTasks DEF taskVars, runVars
<1>9. Kept(w)
  BY <1>1, <1>3, <1>5, Claimed DEF Kept, taskVars, runVars, lockVars, Running, RunActive
<1>10. RunningWithinCap' /\ OneCollectingRun'
  BY <1>1, WithinCap, OneCollecting DEF taskVars, runVars, Running, Collecting, RunActive
<1>11. Working(w)' /\ Claiming(w)'
  BY <1>1, <1>2, <1>3, <1>5 DEF Working, Claiming, taskVars
<1> QED BY <1>2, <1>6, <1>7, <1>8, <1>9, <1>10, <1>11, Together

LEMMA StoreEstimateIInv == ASSUME IInv, NEW x \in Executor, StoreEstimate(x) PROVE IInv'
<1> DEFINE t == exec[x].task
           r == RunOf(t)
<1>1. /\ exec[x].pc = "estimate" /\ UNCHANGED <<stale, taskVars, obs, lockVars, crashes, rewritten>>
      /\ estimate' = [estimate EXCEPT ![r] = exec[x].sources] /\ runStatus' = [runStatus EXCEPT ![r] = "completed"]
      /\ \/ x \in Worker /\ GotoWith(x, "settle", "succeeded")
         \/ x \in Client /\ Return(x)
  BY DEF StoreEstimate
<1>2. t \in Task /\ t[2] = Finalize /\ taskStatus[t] # "absent"
  BY <1>1 DEF IInv, Working, Requesting, Executor
<1>3. r \in Run /\ t = FinalizeTask(r) /\ runStatus[r] # "absent" /\ Finalize \notin Collector
  <2>1. r \in Run /\ t = <<r, Finalize>>
    BY <1>2, Tasks
  <2> QED BY <1>2, <2>1, ConstantsAssumption DEF FinalizeTask, IInv, Created, Kind
<1>4. /\ exec' \in [Executor -> Exec] /\ \A y \in Executor \ {x} : exec'[y] = exec[y]
      /\ exec'[x].pc # "estimate"
      /\ x \in Worker => exec'[x].task = t /\ exec'[x].pc = "settle"
      /\ x \in Client => exec'[x].pc = "idle"
  BY <1>1, TypedExec, GotoWithExec, ReturnExec, ConstantsAssumption DEF ExecPC, Outcomes
<1>5. exec[x].sources \in SUBSET Collector /\ (r \notin rewritten => Uses(r, exec[x].sources))
  BY <1>1, TypedExec DEF Exec, IInv, Sources
<1> HIDE DEF t, r
<1>6. /\ runStatus' \in [Run -> {"absent", "queued", "running", "completed", "failed"}]
      /\ \A q \in Run : RunActive(q)' => RunActive(q)
      /\ \A q \in Run : runStatus'[q] = "absent" <=> runStatus[q] = "absent"
      /\ \A q \in Run : q # r => runStatus'[q] = runStatus[q] /\ estimate'[q] = estimate[q]
      /\ estimate' \in [Run -> SUBSET Collector] /\ estimate'[r] = exec[x].sources
  BY <1>1, <1>3, <1>5 DEF IInv, TypeOK, RunActive, ActiveStatus
<1>7. TypeOK'
  BY <1>1, <1>4, <1>6 DEF IInv, TypeOK, Exec, Outcomes, taskVars, lockVars
<1>8. Created'
  BY <1>1, <1>6 DEF IInv, Created, taskVars
<1>9. Sources'
  <2>1. \A q \in Run : runStatus'[q] = "completed" =>
           \/ runStatus[q] = "completed" /\ estimate'[q] = estimate[q]
           \/ taskStatus[FinalizeTask(q)] # "absent" /\ (q \notin rewritten => Uses(q, estimate'[q]))
    BY <1>2, <1>3, <1>5, <1>6
  <2> QED BY <1>1, <1>4, <2>1, SameTasks DEF taskVars
<1>10. Kept(x)
  BY <1>1, <1>4, <1>6, Claimed DEF Kept, taskVars, lockVars, Running
<1>11. RunningWithinCap' /\ OneCollectingRun'
  BY <1>1, <1>6, WithinCap, OneCollecting DEF taskVars, Running, Collecting
<1>12. (x \in Worker => Working(x)' /\ Claiming(x)') /\ (x \in Client => Requesting(x)')
  BY <1>1, <1>2, <1>3, <1>4 DEF Working, Claiming, Requesting, taskVars
<1> QED BY <1>7, <1>8, <1>9, <1>10, <1>11, <1>12, Together
-----------------------------------------------------------------------------
(* Steps that write tasks.                                                 *)

\* The sources, when the collector tasks that have ended are left alone once
\* there is a finalize task.
LEMMA NewTasks ==
  ASSUME IInv, NEW x, Kept(x), UNCHANGED <<estimate, obs>>, rewritten \subseteq rewritten',
         x \in Executor => exec'[x].pc # "estimate",
         \A r \in Run : runStatus'[r] = "completed" => runStatus[r] = "completed",
         \A r \in Run, k \in Collector :
           /\ r \notin rewritten' /\ taskStatus[FinalizeTask(r)] # "absent"
           /\ taskStatus[<<r, k>>] \in DoneTask \cup {"absent"}
           => taskStatus'[<<r, k>>] = taskStatus[<<r, k>>],
         \A r \in Run :
           taskStatus[FinalizeTask(r)] = "absent" /\ taskStatus'[FinalizeTask(r)] # "absent" /\ r \notin rewritten' =>
             Settled(r)',
         \A r \in Run, k \in Collector :
           taskStatus'[<<r, k>>] = "succeeded" => taskStatus[<<r, k>>] = "succeeded" \/ k \in obs[DomainOf(r)]
  PROVE  Sources'
<1>1. \A r \in Run, k \in Collector : taskStatus'[<<r, k>>] = "succeeded" => k \in obs'[DomainOf(r)]
  BY DEF IInv, Sources
<1>2. ASSUME NEW r \in Run, r \notin rewritten', taskStatus[FinalizeTask(r)] # "absent"
      PROVE  /\ \A k \in Collector : taskStatus'[<<r, k>>] = taskStatus[<<r, k>>]
             /\ Settled(r)' /\ \A s : Uses(r, s) => \A k \in Collector : taskStatus'[<<r, k>>] = "succeeded" => k \in s
  <2>1. Settled(r)
    BY <1>2 DEF IInv, Sources
  <2>2. \A k \in Collector : taskStatus'[<<r, k>>] = taskStatus[<<r, k>>]
    BY <1>2, <2>1 DEF Settled
  <2> QED BY <2>1, <2>2 DEF Settled, Uses
<1>3. ASSUME NEW r \in Run, taskStatus'[FinalizeTask(r)] # "absent", r \notin rewritten' PROVE Settled(r)'
  BY <1>2, <1>3
<1>4. \A r \in Run : runStatus'[r] = "completed" => taskStatus'[FinalizeTask(r)] # "absent"
  BY Tasks DEF IInv, Sources, Kept
<1>5. ASSUME NEW r \in Run, runStatus'[r] = "completed", r \notin rewritten' PROVE Uses(r, estimate[r])'
  <2>1. taskStatus[FinalizeTask(r)] # "absent" /\ Uses(r, estimate[r])
    BY <1>5 DEF IInv, Sources
  <2> QED BY <1>2, <1>5, <2>1 DEF Uses
<1>6. ASSUME NEW y \in Executor, exec'[y].pc = "estimate", RunOf(exec'[y].task) \notin rewritten'
      PROVE  Uses(RunOf(exec[y].task), exec[y].sources)' 
  <2>1. exec'[y] = exec[y]
    BY <1>6 DEF Kept
  <2>2. exec[y].task \in Task /\ exec[y].task[2] = Finalize /\ taskStatus[exec[y].task] # "absent"
    BY <1>6, <2>1 DEF IInv, Working, Requesting, Executor
  <2>3. PICK r \in Run : r = RunOf(exec[y].task) /\ taskStatus[FinalizeTask(r)] # "absent"
    BY <2>2, Tasks DEF FinalizeTask
  <2>4. Uses(r, exec[y].sources)
    BY <1>6, <2>1, <2>3 DEF IInv, Sources
  <2> QED BY <1>2, <1>6, <2>1, <2>3, <2>4 DEF Uses
<1> QED BY <1>1, <1>3, <1>4, <1>5, <1>6 DEF Sources

LEMMA OneMoreRunning ==
  ASSUME NEW k, NEW t, t \in Task, t \notin Running(k), Running(k)' = Running(k) \cup {t}, NEW n \in Nat,
         Cardinality(Running(k)) < n
  PROVE  Cardinality(Running(k))' <= n
<1>1. IsFiniteSet(Running(k))
  BY FiniteTask, FS_Subset DEF Running
<1>2. Cardinality(Running(k) \cup {t}) = Cardinality(Running(k)) + 1
  <2>1. Cardinality(Running(k) \cup {t}) =
          IF t \in Running(k) THEN Cardinality(Running(k)) ELSE Cardinality(Running(k)) + 1
    BY <1>1, FS_AddElement
  <2> QED BY <2>1
<1> QED BY <1>1, <1>2, FS_CardinalityType

LEMMA ClaimCommitIInv == ASSUME IInv, NEW w \in Worker, ClaimCommit(w) PROVE IInv'
<1> DEFINE t == exec[w].task
           pc == IF t[2] = Finalize THEN "features" ELSE "begin"
           n == attempts[t] + 1
           row == [exec[w] EXCEPT !.pc = pc, !.attempt = n]
<1>1. /\ exec[w].pc = "claiming" /\ taskStatus' = [taskStatus EXCEPT ![t] = "running"]
      /\ lockedBy' = [lockedBy EXCEPT ![t] = w] /\ lease' = [lease EXCEPT ![t] = TRUE]
      /\ attempts' = [attempts EXCEPT ![t] = @ + 1] /\ exec' = [exec EXCEPT ![w] = row]
      /\ claimLock' = None /\ UNCHANGED <<runVars, defers, obs, domainLock, crashes, rewritten>>
  BY DEF ClaimCommit
<1>2. /\ t \in Task /\ RunOf(t) \in Run /\ t = <<RunOf(t), t[2]>> /\ t[2] \in Kind
      /\ runStatus[RunOf(t)] # "absent" /\ w \in Executor /\ w \notin Client
  BY <1>1, Turn
<1>3. claimLock = w /\ taskStatus[t] = "queued" /\ Cardinality(Running(t[2])) < Cap[t[2]]
  BY <1>1 DEF IInv, Claiming
<1>4. /\ row \in Exec /\ row.task = t /\ row.pc \in {"features", "begin"}
      /\ (row.pc = "features" <=> t[2] = Finalize)
  <2>1. exec[w] \in Exec /\ n \in Nat
    BY <1>2, TypedExec DEF IInv, TypeOK
  <2>2. pc \in {"features", "begin"} /\ pc \in ExecPC /\ (pc = "features" <=> t[2] = Finalize)
    BY DEF ExecPC
  <2> HIDE DEF pc, n
  <2>3. row \in Exec /\ row.task = t /\ row.pc = pc
    BY <2>1, <2>2 DEF Exec
  <2> QED BY <2>2, <2>3
<1> HIDE DEF t, pc, n, row
<1>5. exec' \in [Executor -> Exec] /\ exec'[w] = row /\ \A y \in Executor \ {w} : exec'[y] = exec[y]
  BY <1>1, <1>2, <1>4, TypedExec
<1>6. taskStatus'[t] = "running" /\ \A u \in Task : u # t => taskStatus'[u] = taskStatus[u]
  BY <1>1, <1>2 DEF IInv, TypeOK
<1>7. TypeOK'
  BY <1>1, <1>2, <1>5 DEF IInv, TypeOK, Exec, Outcomes, runVars, ActiveStatus
<1>8. Created'
  BY <1>1, <1>2, <1>6, Tasks DEF IInv, Created, runVars
<1>9. Kept(w)
  <2>1. \A v \in Worker \ {w} : exec[v].pc # "claiming"
    BY <1>3 DEF IInv, Claiming
  <2> QED BY <1>1, <1>3, <1>5, <1>6, <2>1 DEF Kept, runVars, RunActive
<1>10. Sources'
  <2>1. \A r \in Run, k \in Kind : <<r, k>> = t \/ taskStatus'[<<r, k>>] = taskStatus[<<r, k>>]
    BY <1>6, Tasks
  <2>2. \A r \in Run : taskStatus[FinalizeTask(r)] = "absent" => taskStatus'[FinalizeTask(r)] = "absent"
    BY <1>3, <1>6, Tasks
  <2> QED BY <1>1, <1>3, <1>4, <1>5, <1>6, <1>9, <2>1, <2>2, NewTasks DEF runVars, DoneTask, Kind
<1>11. RunningWithinCap'
  <2>1. ASSUME NEW k \in Kind PROVE Cardinality(Running(k))' <= Cap[k]
    <3>1. CASE k = t[2]
      <4>1. Running(k)' = Running(k) \cup {t} /\ t \notin Running(k)
        BY <1>2, <1>3, <1>6, <3>1 DEF Running
      <4>2. Cap[k] \in Nat
        BY ConstantsAssumption
      <4> QED BY <1>2, <1>3, <3>1, <4>1, <4>2, OneMoreRunning
    <3>2. CASE k # t[2]
      <4>1. Running(k)' \subseteq Running(k)
        BY <1>6, <3>2 DEF Running
      <4>2. Cardinality(Running(k)) <= Cap[k] /\ Cap[k] \in Nat
        BY ConstantsAssumption DEF IInv, RunningWithinCap
      <4>3. /\ Cardinality(Running(k))' \in Nat /\ Cardinality(Running(k)) \in Nat
            /\ Cardinality(Running(k))' <= Cardinality(Running(k))
        BY <4>1, FewerRunning
      <4> QED BY <4>2, <4>3
    <3> QED BY <3>1, <3>2
  <2> QED BY <2>1 DEF RunningWithinCap
<1>12. OneCollectingRun'
  <2>1. \A u \in Task : taskStatus'[u] # "absent" => taskStatus[u] # "absent"
    BY <1>3, <1>6
  <2>2. \A r \in Run : RunTasks(r) \subseteq Task
    BY Tasks DEF Kind
  <2> QED BY <1>1, <2>1, <2>2, OneCollecting DEF Collecting, RunActive, runVars
<1>13. Working(w)' /\ Claiming(w)'
  BY <1>2, <1>4, <1>5, <1>6 DEF Working, Claiming, Kind
<1> QED BY <1>2, <1>7, <1>8, <1>9, <1>10, <1>11, <1>12, <1>13, Together
\* A new run has no task yet.
LEMMA Fresh ==
  ASSUME IInv, NEW r \in Run, runStatus[r] = "absent"
  PROVE  \A t \in Task : RunOf(t) = r => taskStatus[t] = "absent"
BY Tasks DEF IInv, Created

LEMMA IngestCommitIInv == ASSUME IInv, NEW c \in Client, IngestCommit(c) PROVE IInv'
<1> DEFINE r == RunOf(exec[c].task)
<1>1. /\ exec[c].pc = "create" /\ runStatus' = [runStatus EXCEPT ![r] = "queued"]
      /\ domainLock' = [domainLock EXCEPT ![DomainOf(r)] = None] /\ Return(c)
      /\ UNCHANGED <<stale, estimate, attempts, defers, lockedBy, lease, obs, claimLock, crashes, rewritten>>
  BY DEF IngestCommit
<1>2. PICK K \in SUBSET Collector :
        taskStatus' = [t \in Task |->
          IF RunOf(t) = r /\ t[2] \in (IF K = {} THEN {Finalize} ELSE K) THEN "queued" ELSE taskStatus[t]]
  BY DEF IngestCommit
<1>3. /\ r \in Run /\ DomainOf(r) \in Domain /\ runStatus[r] = "absent" /\ domainLock[DomainOf(r)] = c
      /\ \A q \in Run : DomainOf(q) = DomainOf(r) => ~RunActive(q)
  <2>1. exec[c].task \in Task
    BY <1>1 DEF IInv, Requesting
  <2>2. r \in Run /\ DomainOf(r) \in Domain
    BY <2>1, Tasks
  <2> QED BY <1>1, <2>2 DEF IInv, Requesting
<1> HIDE DEF r
<1>4. c \in Executor /\ c \notin Worker /\ c # None
  BY ConstantsAssumption DEF Executor, None
<1>5. exec' \in [Executor -> Exec] /\ exec'[c].pc = "idle" /\ \A y \in Executor \ {c} : exec'[y] = exec[y]
  BY <1>1, <1>4, TypedExec, ReturnExec
<1>6. /\ \A t \in Task : RunOf(t) # r => taskStatus'[t] = taskStatus[t]
      /\ \A t \in Task : taskStatus'[t] = taskStatus[t] \/ (taskStatus'[t] = "queued" /\ RunOf(t) = r)
      /\ taskStatus'[FinalizeTask(r)] # "absent" => \A k \in Collector : taskStatus'[<<r, k>>] = taskStatus[<<r, k>>]
  <2>1. \A t \in Task : /\ RunOf(t) # r => taskStatus'[t] = taskStatus[t]
                        /\ taskStatus'[t] = taskStatus[t] \/ (taskStatus'[t] = "queued" /\ RunOf(t) = r)
    BY <1>2
  <2>2. ASSUME taskStatus'[FinalizeTask(r)] # "absent" PROVE K = {}
    <3>1. FinalizeTask(r) \in Task /\ RunOf(FinalizeTask(r)) = r /\ FinalizeTask(r)[2] = Finalize
      BY <1>3, Tasks
    <3>2. taskStatus[FinalizeTask(r)] = "absent"
      BY <1>3, <3>1, Fresh
    <3> QED BY <1>2, <2>2, <3>1, <3>2, ConstantsAssumption
  <2>3. ASSUME K = {}, NEW k \in Collector PROVE taskStatus'[<<r, k>>] = taskStatus[<<r, k>>]
    <3>1. <<r, k>> \in Task /\ <<r, k>>[2] = k /\ k # Finalize
      BY <1>3, ConstantsAssumption, Tasks DEF Kind
    <3> QED BY <1>2, <2>3, <3>1
  <2> QED BY <2>1, <2>2, <2>3
<1>7. /\ \A q \in Run : q # r => runStatus'[q] = runStatus[q]
      /\ runStatus'[r] = "queued"
      /\ \A d \in Domain : d # DomainOf(r) => domainLock'[d] = domainLock[d]
  BY <1>1, <1>3 DEF IInv, TypeOK
<1>8. \A t \in Task : RunOf(t) = r => taskStatus[t] = "absent"
  BY <1>3, Fresh
<1>9. TypeOK'
  <2>1. taskStatus' \in [Task -> {"absent"} \cup ActiveStatus \cup DoneTask]
    BY <1>2 DEF IInv, TypeOK, ActiveStatus
  <2>2. runStatus' \in [Run -> {"absent", "queued", "running", "completed", "failed"}]
    BY <1>1, <1>3 DEF IInv, TypeOK
  <2>3. domainLock' \in [Domain -> Client \cup {None}]
    BY <1>1, <1>3 DEF IInv, TypeOK
  <2> QED BY <1>1, <1>5, <2>1, <2>2, <2>3 DEF IInv, TypeOK, Exec, Outcomes
<1>10. Created'
  <2>1. ASSUME NEW q \in Run, runStatus'[q] = "absent", NEW k \in Kind PROVE taskStatus'[<<q, k>>] = "absent"
    <3>1. q # r /\ runStatus[q] = "absent"
      BY <1>7, <2>1
    <3> QED BY <1>6, <2>1, <3>1, Tasks DEF IInv, Created
  <2> QED BY <2>1 DEF Created
<1>11. \A q \in Run : RunActive(q)' => RunActive(q) \/ q = r
  BY <1>7 DEF RunActive
<1>12. Kept(c)
  <2>1. \A q \in Run : domainLock[DomainOf(q)] \notin {None, c} => q # r /\ DomainOf(q) # DomainOf(r)
    BY <1>3
  <2>2. \A w \in Worker : exec[w].pc = "claiming" => taskStatus'[exec[w].task] = "queued"
    BY <1>6, Claimed DEF IInv, Working
  <2>3. \A k \in Kind : Running(k)' \subseteq Running(k)
    BY <1>6 DEF Running
  <2>4. \A t \in Task : taskStatus[t] # "absent" => taskStatus'[t] # "absent"
    BY <1>6
  <2>5. ASSUME NEW q \in Run, domainLock[DomainOf(q)] \notin {None, c}
        PROVE  /\ domainLock'[DomainOf(q)] = domainLock[DomainOf(q)]
               /\ RunActive(q)' => RunActive(q)
               /\ runStatus[q] = "absent" => runStatus'[q] = "absent"
    BY <1>7, <1>11, <2>1, <2>5, Tasks
  <2> QED BY <1>1, <1>5, <2>2, <2>3, <2>4, <2>5 DEF Kept
<1>13. Sources'
  <2>1. \A q \in Run : runStatus'[q] = "completed" => runStatus[q] = "completed"
    BY <1>7
  <2>2. \A q \in Run, k \in Collector :
           taskStatus[FinalizeTask(q)] # "absent" => taskStatus'[<<q, k>>] = taskStatus[<<q, k>>]
    <3>1. taskStatus[FinalizeTask(r)] = "absent"
      BY <1>3, <1>8, Tasks
    <3> QED BY <1>6, <3>1, Tasks DEF Kind
  <2>3. \A q \in Run :
          taskStatus[FinalizeTask(q)] = "absent" /\ taskStatus'[FinalizeTask(q)] # "absent" => Settled(q)'
    <3>1. ASSUME NEW q \in Run, taskStatus[FinalizeTask(q)] = "absent", taskStatus'[FinalizeTask(q)] # "absent"
          PROVE  Settled(q)'
      <4>1. q = r
        BY <1>6, <3>1, Tasks
      <4>2. \A k \in Collector : taskStatus'[<<r, k>>] = "absent"
        BY <1>3, <1>6, <1>8, <3>1, <4>1, Tasks DEF Kind
      <4> QED BY <4>1, <4>2 DEF Settled
    <3> QED BY <3>1
  <2>4. \A q \in Run, k \in Collector : taskStatus'[<<q, k>>] = "succeeded" => taskStatus[<<q, k>>] = "succeeded"
    BY <1>6, Tasks DEF Kind
  <2> QED BY <1>1, <1>5, <1>12, <2>1, <2>2, <2>3, <2>4, NewTasks
<1>14. RunningWithinCap'
  BY <1>6, WithinCap DEF Running
<1>15. OneCollectingRun'
  <2>1. ASSUME NEW q \in Run, q # r, Collecting(q)' PROVE Collecting(q) /\ DomainOf(q) # DomainOf(r)
    <3>1. RunActive(q)
      BY <1>11, <2>1 DEF Collecting
    <3>2. \A t \in RunTasks(q) : taskStatus'[t] = taskStatus[t]
      BY <1>6, <2>1, Tasks DEF Kind
    <3> QED BY <1>3, <2>1, <3>1, <3>2 DEF Collecting
  <2> QED BY <2>1 DEF IInv, OneCollectingRun
<1>16. Requesting(c)'
  BY <1>5 DEF Requesting
<1> QED BY <1>4, <1>9, <1>10, <1>12, <1>13, <1>14, <1>15, <1>16, Together

LEMMA ReestimateIInv == ASSUME IInv, NEW c \in Client, NEW d \in Domain, Reestimate(c, d) PROVE IInv'
<1>1. PICK r \in Run :
        /\ NextRun(d, r) /\ runStatus' = [runStatus EXCEPT ![r] = "queued"]
        /\ taskStatus' = [taskStatus EXCEPT ![FinalizeTask(r)] = "queued"]
        /\ exec' = [exec EXCEPT ![c].pc = "features", ![c].task = FinalizeTask(r)]
  BY DEF Reestimate
<1>2. /\ exec[c].pc = "idle" /\ domainLock[d] = None /\ DomainOf(r) = d /\ runStatus[r] = "absent"
      /\ UNCHANGED <<stale, estimate, attempts, defers, lockedBy, lease, obs, lockVars, crashes, rewritten>>
  BY <1>1 DEF Reestimate, NextRun
<1>3. c \in Executor /\ c \notin Worker
  BY ConstantsAssumption DEF Executor
<1>4. /\ FinalizeTask(r) \in Task /\ RunOf(FinalizeTask(r)) = r /\ FinalizeTask(r)[2] = Finalize
      /\ \A t \in Task : RunOf(t) = r => taskStatus[t] = "absent"
  BY <1>2, Tasks, Fresh
<1>5. /\ exec' \in [Executor -> Exec] /\ exec'[c].pc = "features" /\ exec'[c].task = FinalizeTask(r)
      /\ \A y \in Executor \ {c} : exec'[y] = exec[y]
  BY <1>1, <1>3, <1>4, TypedExec, TakeExec DEF ExecPC
<1>6. /\ taskStatus'[FinalizeTask(r)] = "queued" /\ \A t \in Task : t # FinalizeTask(r) => taskStatus'[t] = taskStatus[t]
      /\ runStatus'[r] = "queued" /\ \A q \in Run : q # r => runStatus'[q] = runStatus[q]
  BY <1>1, <1>4 DEF IInv, TypeOK
<1>7. TypeOK'
  <2>1. taskStatus' \in [Task -> {"absent"} \cup ActiveStatus \cup DoneTask]
    BY <1>1 DEF IInv, TypeOK, ActiveStatus
  <2>2. runStatus' \in [Run -> {"absent", "queued", "running", "completed", "failed"}]
    BY <1>1 DEF IInv, TypeOK
  <2> QED BY <1>2, <1>5, <2>1, <2>2 DEF IInv, TypeOK, Exec, Outcomes, lockVars
<1>8. Created'
  <2>1. ASSUME NEW q \in Run, runStatus'[q] = "absent", NEW k \in Kind PROVE taskStatus'[<<q, k>>] = "absent"
    <3>1. q # r /\ runStatus[q] = "absent"
      BY <1>6, <2>1
    <3> QED BY <1>4, <1>6, <3>1, Tasks DEF IInv, Created
  <2> QED BY <2>1 DEF Created
<1>9. \A q \in Run, k \in Collector : taskStatus'[<<q, k>>] = taskStatus[<<q, k>>]
  BY <1>4, <1>6, Tasks, ConstantsAssumption DEF Kind
<1>10. \A k \in Collector : taskStatus'[<<r, k>>] = "absent"
  BY <1>4, <1>9, Tasks DEF Kind
<1>11. Kept(c)
  <2>1. \A w \in Worker : exec[w].pc = "claiming" => taskStatus'[exec[w].task] = "queued"
    BY <1>6, Claimed DEF IInv, Working
  <2>2. \A k \in Kind : Running(k)' \subseteq Running(k)
    BY <1>4, <1>6 DEF Running
  <2>3. \A t \in Task : taskStatus[t] # "absent" => taskStatus'[t] # "absent"
    BY <1>6
  <2>4. \A q \in Run : domainLock[DomainOf(q)] \notin {None, c} => q # r
    BY <1>2
  <2> QED BY <1>2, <1>5, <1>6, <2>1, <2>2, <2>3, <2>4 DEF Kept, lockVars, RunActive
<1>12. Sources'
  <2>1. \A q \in Run : runStatus'[q] = "completed" => runStatus[q] = "completed"
    BY <1>6
  <2>2. \A q \in Run :
          taskStatus[FinalizeTask(q)] = "absent" /\ taskStatus'[FinalizeTask(q)] # "absent" => Settled(q)'
    <3>1. \A q \in Run : q # r => taskStatus'[FinalizeTask(q)] = taskStatus[FinalizeTask(q)]
      BY <1>6, Tasks
    <3>2. Settled(r)'
      BY <1>10 DEF Settled
    <3> QED BY <3>1, <3>2
  <2> QED BY <1>2, <1>5, <1>9, <1>11, <2>1, <2>2, NewTasks
<1>13. RunningWithinCap'
  BY <1>4, <1>6, WithinCap DEF Running
<1>14. OneCollectingRun'
  <2>1. ~Collecting(r)'
    BY <1>10, <1>2, Tasks DEF Collecting
  <2>2. \A q \in Run : Collecting(q)' => Collecting(q)
    BY <1>6, <1>9, <2>1, Tasks DEF Collecting, RunActive
  <2> QED BY <2>2, OneCollecting
<1>15. Requesting(c)'
  BY <1>4, <1>5, <1>6 DEF Requesting
<1> QED BY <1>3, <1>7, <1>8, <1>11, <1>12, <1>13, <1>14, <1>15, Together
-----------------------------------------------------------------------------
(* The end of a task.                                                      *)

LEMMA WriteIInv ==
  ASSUME IInv, NEW w \in Worker, exec[w].pc # "idle", NEW status \in {"queued", "succeeded", "skipped", "failed"},
         Write(w, status), UNCHANGED <<stale, estimate, obs, lockVars, crashes>>,
         attempts' \in [Task -> Nat], defers' \in [Task -> Nat],
         runStatus' \in [Run -> {"absent", "queued", "running", "completed", "failed"}],
         \A r \in Run : \/ runStatus'[r] = runStatus[r]
                        \/ runStatus'[r] = "failed" /\ runStatus[r] # "absent",
         status = "succeeded" /\ exec[w].task[2] \in Collector =>
           exec[w].task[2] \in obs[DomainOf(RunOf(exec[w].task))],
         exec' \in [Executor -> Exec], \A y \in Executor \ {w} : exec'[y] = exec[y],
         exec'[w].pc = "idle" \/ (exec'[w].pc = "after" /\ exec'[w].task = exec[w].task)
  PROVE  IInv'
<1> DEFINE t == exec[w].task
<1>1. /\ taskStatus' = [taskStatus EXCEPT ![t] = status] /\ RowFree(t)
      /\ lockedBy' = [lockedBy EXCEPT ![t] = None] /\ lease' = [lease EXCEPT ![t] = FALSE]
      /\ rewritten' = rewritten \cup (IF Holds(w, t) THEN {} ELSE {RunOf(t)})
  BY DEF Write
<1>2. /\ t \in Task /\ taskStatus[t] # "absent" /\ RunOf(t) \in Run /\ w \in Executor /\ w \notin Client
      /\ t = <<RunOf(t), t[2]>> /\ t[2] \in Kind
  BY Turn
<1>3. status = "succeeded" /\ t[2] \in Collector => t[2] \in obs[DomainOf(RunOf(t))]
  OBVIOUS
<1>4. exec'[w].pc = "idle" \/ (exec'[w].pc = "after" /\ exec'[w].task = t)
  OBVIOUS
<1> HIDE DEF t
<1>5. taskStatus'[t] = status /\ \A u \in Task : u # t => taskStatus'[u] = taskStatus[u]
  BY <1>1, <1>2 DEF IInv, TypeOK
<1>6. rewritten \subseteq rewritten' /\ rewritten' \subseteq Run
      /\ (RunOf(t) \notin rewritten' => taskStatus[t] = "running")
  BY <1>1, <1>2 DEF IInv, TypeOK, Holds
<1>7. TypeOK'
  <2>1. taskStatus' \in [Task -> {"absent"} \cup ActiveStatus \cup DoneTask]
    BY <1>1 DEF IInv, TypeOK, ActiveStatus, DoneTask
  <2>2. lockedBy' \in [Task -> Worker \cup {None}] /\ lease' \in [Task -> BOOLEAN]
    BY <1>1 DEF IInv, TypeOK
  <2> QED BY <1>6, <2>1, <2>2 DEF IInv, TypeOK, Exec, Outcomes, lockVars
<1>8. Created'
  <2>1. ASSUME NEW q \in Run, runStatus'[q] = "absent", NEW k \in Kind PROVE taskStatus'[<<q, k>>] = "absent"
    <3>1. taskStatus[<<q, k>>] = "absent" /\ <<q, k>> \in Task
      BY <2>1, Tasks DEF IInv, Created
    <3> QED BY <1>2, <1>5, <3>1
  <2> QED BY <2>1 DEF Created
<1>9. /\ \A u \in Task : taskStatus[u] # "absent" => taskStatus'[u] # "absent"
      /\ \A u \in Task : taskStatus'[u] # "absent" => taskStatus[u] # "absent"
      /\ \A k \in Kind : Running(k)' \subseteq Running(k)
  BY <1>2, <1>5 DEF Running
<1>10. \A q \in Run : RunActive(q)' => RunActive(q)
  BY DEF RunActive, ActiveStatus
<1>11. Kept(w)
  <2>1. \A v \in Worker : exec[v].pc = "claiming" => taskStatus'[exec[v].task] = "queued"
    <3>1. \A v \in Worker : exec[v].pc = "claiming" => exec[v].task # t /\ exec[v].task \in Task
      BY <1>1 DEF RowFree, IInv, Working
    <3> QED BY <1>5, <3>1, Claimed
  <2> QED BY <1>9, <1>10, <2>1 DEF Kept, lockVars
<1>12. Sources'
  <2>1. \A q \in Run : taskStatus[FinalizeTask(q)] = "absent" => taskStatus'[FinalizeTask(q)] = "absent"
    BY <1>9, Tasks
  <2>2. ASSUME NEW q \in Run, NEW k \in Collector, taskStatus'[<<q, k>>] = "succeeded"
        PROVE  taskStatus[<<q, k>>] = "succeeded" \/ k \in obs[DomainOf(q)]
    <3>1. <<q, k>> \in Task /\ RunOf(<<q, k>>) = q /\ <<q, k>>[2] = k
      BY Tasks DEF Kind
    <3> QED BY <1>3, <1>5, <2>2, <3>1
  <2>3. ASSUME NEW q \in Run, NEW k \in Collector, q \notin rewritten', taskStatus[<<q, k>>] \in DoneTask \cup {"absent"}
        PROVE  taskStatus'[<<q, k>>] = taskStatus[<<q, k>>]
    <3>1. <<q, k>> \in Task /\ RunOf(<<q, k>>) = q
      BY Tasks DEF Kind
    <3> QED BY <1>5, <1>6, <2>3, <3>1 DEF DoneTask
  <2>4. \A q \in Run : runStatus'[q] = "completed" => runStatus[q] = "completed"
    OBVIOUS
  <2> QED BY <1>4, <1>6, <1>11, <2>1, <2>2, <2>3, <2>4, NewTasks
<1>13. RunningWithinCap' /\ OneCollectingRun'
  <2>1. \A r \in Run : RunTasks(r) \subseteq Task
    BY Tasks DEF Kind
  <2> QED BY <1>9, <1>10, <2>1, WithinCap, OneCollecting DEF Collecting
<1>14. Working(w)' /\ Claiming(w)'
  BY <1>2, <1>4, <1>9 DEF Working, Claiming
<1> QED BY <1>2, <1>7, <1>8, <1>11, <1>12, <1>13, <1>14, Together

LEMMA AfterExec ==
  ASSUME IInv, NEW w \in Worker, AfterTask(w)
  PROVE  /\ exec' \in [Executor -> Exec] /\ \A y \in Executor \ {w} : exec'[y] = exec[y]
         /\ exec'[w].pc = "idle" \/ (exec'[w].pc = "after" /\ exec'[w].task = exec[w].task)
BY TypedExec, GotoExec, ReturnExec DEF AfterTask, ExecPC, Executor

LEMMA CompleteIInv == ASSUME IInv, NEW w \in Worker, Complete(w) PROVE IInv'
<1>1. PICK status \in {"succeeded", "skipped"} : status = exec[w].outcome
  BY DEF Complete
<1>2. /\ exec[w].pc = "settle" /\ Write(w, status) /\ AfterTask(w)
      /\ UNCHANGED <<runVars, attempts, defers, obs, lockVars, crashes>>
  BY <1>1 DEF Complete
<1>3. status = "succeeded" /\ exec[w].task[2] \in Collector =>
        exec[w].task[2] \in obs[DomainOf(RunOf(exec[w].task))]
  BY <1>1, <1>2 DEF IInv, Working
<1>4. /\ attempts' \in [Task -> Nat] /\ defers' \in [Task -> Nat]
      /\ runStatus' \in [Run -> {"absent", "queued", "running", "completed", "failed"}] /\ runStatus' = runStatus
  BY <1>2 DEF IInv, TypeOK, runVars
<1> QED BY <1>2, <1>3, <1>4, AfterExec, WriteIInv DEF runVars

LEMMA FailIInv == ASSUME IInv, NEW w \in Worker, Fail(w) PROVE IInv'
<1>1. PICK status \in {"queued", "failed"} :
        status = IF exec[w].outcome = "retry" /\ exec[w].attempt < Attempts[exec[w].task[2]] THEN "queued" ELSE "failed"
  OBVIOUS
<1>2. /\ exec[w].pc = "settle" /\ Write(w, status) /\ AfterTask(w)
      /\ UNCHANGED <<runVars, attempts, defers, obs, lockVars, crashes>>
  BY <1>1 DEF Fail
<1>3. /\ attempts' \in [Task -> Nat] /\ defers' \in [Task -> Nat]
      /\ runStatus' \in [Run -> {"absent", "queued", "running", "completed", "failed"}] /\ runStatus' = runStatus
  BY <1>2 DEF IInv, TypeOK, runVars
<1> QED BY <1>2, <1>3, AfterExec, WriteIInv DEF runVars

LEMMA DeferIInv == ASSUME IInv, NEW w \in Worker, Defer(w) PROVE IInv'
<1> DEFINE t == exec[w].task
<1>1. /\ exec[w].pc = "settle" /\ Write(w, "queued") /\ Return(w)
      /\ attempts' = [attempts EXCEPT ![t] = IF @ > 0 THEN @ - 1 ELSE 0]
      /\ defers' = [defers EXCEPT ![t] = @ + 1]
      /\ UNCHANGED <<runVars, obs, lockVars, crashes>>
  BY DEF Defer
<1>2. attempts' \in [Task -> Nat] /\ defers' \in [Task -> Nat]
  <2>1. t \in Task /\ attempts \in [Task -> Nat] /\ defers \in [Task -> Nat]
    BY <1>1, Turn DEF IInv, TypeOK
  <2> HIDE DEF t
  <2> QED BY <1>1, <2>1
<1>3. runStatus' \in [Run -> {"absent", "queued", "running", "completed", "failed"}] /\ runStatus' = runStatus
  BY <1>1 DEF IInv, TypeOK, runVars
<1>4. exec' \in [Executor -> Exec] /\ exec'[w].pc = "idle" /\ \A y \in Executor \ {w} : exec'[y] = exec[y]
  BY <1>1, TypedExec, ReturnExec DEF Executor
<1> QED BY <1>1, <1>2, <1>3, <1>4, WriteIInv DEF runVars

LEMMA FailRaisedIInv == ASSUME IInv, NEW w \in Worker, FailRaised(w) PROVE IInv'
<1> DEFINE t == exec[w].task
<1>1. PICK status \in {"queued", "failed"} : status = IF exec[w].attempt < Attempts[exec[w].task[2]] THEN "queued" ELSE "failed"
  OBVIOUS
<1>2. /\ exec[w].pc = "failing" /\ Write(w, status) /\ Return(w)
      /\ runStatus' = [runStatus EXCEPT ![RunOf(t)] =
                         IF t[2] = Finalize /\ ~(exec[w].attempt < Attempts[t[2]]) THEN "failed" ELSE @]
      /\ UNCHANGED <<stale, estimate, attempts, defers, obs, lockVars, crashes>>
  BY <1>1 DEF FailRaised
<1>3. attempts' \in [Task -> Nat] /\ defers' \in [Task -> Nat]
  BY <1>2 DEF IInv, TypeOK
<1>4. /\ runStatus' \in [Run -> {"absent", "queued", "running", "completed", "failed"}]
      /\ \A r \in Run : \/ runStatus'[r] = runStatus[r]
                        \/ runStatus'[r] = "failed" /\ runStatus[r] # "absent"
  <2>1. /\ RunOf(t) \in Run /\ runStatus[RunOf(t)] # "absent"
        /\ runStatus \in [Run -> {"absent", "queued", "running", "completed", "failed"}]
    BY <1>2, Turn DEF IInv, TypeOK
  <2> HIDE DEF t
  <2> QED BY <1>2, <2>1
<1>5. exec' \in [Executor -> Exec] /\ exec'[w].pc = "idle" /\ \A y \in Executor \ {w} : exec'[y] = exec[y]
  BY <1>2, TypedExec, ReturnExec DEF Executor
<1> QED BY <1>2, <1>3, <1>4, <1>5, WriteIInv
-----------------------------------------------------------------------------
(* Recovery, and the finalize tasks it and the collectors queue.           *)

\* status is taskStatus after recover_lost, or taskStatus itself.
Recovering(status) ==
  /\ status \in [Task -> {"absent"} \cup ActiveStatus \cup DoneTask]
  /\ \A t \in Task : status[t] = taskStatus[t] \/ (taskStatus[t] = "running" /\ status[t] \in {"queued", "failed"})

LEMMA FinalizingIInv ==
  ASSUME IInv, NEW x, NEW status, NEW R, Recovering(status), taskStatus' = MaybeFinalize(R, status),
         \A r \in R : r \in Run => runStatus[r] # "absent",
         UNCHANGED <<runVars, attempts, defers, lease, obs, lockVars, crashes, rewritten>>,
         lockedBy' \in [Task -> Worker \cup {None}],
         exec' \in [Executor -> Exec], \A y \in Executor \ {x} : exec'[y] = exec[y],
         x \in Executor => x \in Worker /\ exec'[x].pc = "idle"
  PROVE  IInv'
<1>1. \A t \in Task :
        /\ t[2] \in Collector => taskStatus'[t] = status[t]
        /\ \/ taskStatus'[t] = status[t]
           \/ taskStatus'[t] = "queued" /\ t[2] = Finalize /\ RunOf(t) \in R /\ ~Open(RunOf(t), status)
  BY ConstantsAssumption DEF MaybeFinalize
<1>2. /\ \A t \in Task : taskStatus[t] # "absent" => taskStatus'[t] # "absent"
      /\ \A t \in Task : taskStatus[t] = "queued" => taskStatus'[t] = "queued"
      /\ \A t \in Task : taskStatus'[t] = "running" => taskStatus[t] = "running"
      /\ \A t \in Task : t[2] \in Collector /\ taskStatus'[t] # "absent" => taskStatus[t] # "absent"
      /\ \A t \in Task : t[2] \in Collector /\ taskStatus[t] \in DoneTask \cup {"absent"} =>
           taskStatus'[t] = taskStatus[t]
      /\ \A t \in Task : t[2] \in Collector /\ taskStatus'[t] = "succeeded" => taskStatus[t] = "succeeded"
  <2>1. \A t \in Task : status[t] = "absent" => taskStatus[t] = "absent"
    BY DEF Recovering
  <2>2. \A t \in Task : taskStatus'[t] = status[t] \/ (taskStatus'[t] = "queued" /\ t[2] \notin Collector)
    BY <1>1, ConstantsAssumption
  <2> QED BY <1>1, <2>1, <2>2 DEF Recovering, DoneTask
<1>3. TypeOK'
  <2>1. taskStatus' \in [Task -> {"absent"} \cup ActiveStatus \cup DoneTask]
    BY DEF Recovering, MaybeFinalize, ActiveStatus
  <2> QED BY <2>1 DEF IInv, TypeOK, Exec, Outcomes, runVars, lockVars
<1>4. Created'
  <2>1. ASSUME NEW r \in Run, runStatus'[r] = "absent", NEW k \in Kind PROVE taskStatus'[<<r, k>>] = "absent"
    <3>1. /\ <<r, k>> \in Task /\ RunOf(<<r, k>>) = r /\ taskStatus[<<r, k>>] = "absent" /\ r \notin R
      BY <2>1, Tasks DEF IInv, Created, runVars
    <3> QED BY <1>1, <3>1 DEF Recovering
  <2> QED BY <2>1 DEF Created
<1>5. Kept(x)
  <2>1. \A w \in Worker : exec[w].pc = "claiming" => taskStatus'[exec[w].task] = "queued"
    BY <1>2, Claimed DEF IInv, Working
  <2>2. \A k \in Kind : Running(k)' \subseteq Running(k)
    BY <1>2 DEF Running
  <2> QED BY <1>2, <2>1, <2>2 DEF Kept, lockVars, runVars, RunActive
<1>6. Sources'
  <2>1. \A r \in Run, k \in Collector : <<r, k>> \in Task /\ <<r, k>>[2] = k
    BY Tasks DEF Kind
  <2>2. ASSUME NEW r \in Run, taskStatus[FinalizeTask(r)] = "absent", taskStatus'[FinalizeTask(r)] # "absent"
        PROVE  Settled(r)'
    <3>1. FinalizeTask(r) \in Task /\ RunOf(FinalizeTask(r)) = r
      BY Tasks
    <3>2. ~Open(r, status)
      BY <1>1, <2>2, <3>1 DEF Recovering
    <3>3. \A k \in Collector : status[<<r, k>>] \notin ActiveStatus
      BY <3>2 DEF Open, RunTasks
    <3>4. \A k \in Collector : taskStatus'[<<r, k>>] = status[<<r, k>>]
      BY <1>1, <2>1
    <3> QED BY <2>1, <3>3, <3>4 DEF Settled, Recovering
  <2>3. \A r \in Run : runStatus'[r] = "completed" => runStatus[r] = "completed"
    BY DEF runVars
  <2>4. \A r \in Run, k \in Collector :
          /\ taskStatus[<<r, k>>] \in DoneTask \cup {"absent"} => taskStatus'[<<r, k>>] = taskStatus[<<r, k>>]
          /\ taskStatus'[<<r, k>>] = "succeeded" => taskStatus[<<r, k>>] = "succeeded"
    BY <1>2, <2>1
  <2> QED BY <1>5, <2>2, <2>3, <2>4, NewTasks DEF runVars
<1>7. RunningWithinCap'
  BY <1>2, WithinCap DEF Running
<1>8. OneCollectingRun'
  <2>1. \A r \in Run : \A t \in RunTasks(r) : t \in Task /\ t[2] \in Collector
    BY Tasks DEF Kind
  <2> QED BY <1>2, <2>1, OneCollecting DEF Collecting, RunActive, runVars
<1>9. (x \in Worker => Working(x)' /\ Claiming(x)') /\ (x \in Client => Requesting(x)')
  BY ConstantsAssumption DEF Working, Claiming, Executor
<1> QED BY <1>3, <1>4, <1>5, <1>6, <1>7, <1>8, <1>9, Together

LEMMA AfterCollectorIInv == ASSUME IInv, NEW w \in Worker, AfterCollector(w) PROVE IInv'
<1>1. /\ exec[w].pc = "after" /\ Return(w)
      /\ UNCHANGED <<runVars, attempts, defers, lockedBy, lease, obs, lockVars, crashes, rewritten>>
  BY DEF AfterCollector
<1>2. RunOf(exec[w].task) \in Run /\ runStatus[RunOf(exec[w].task)] # "absent" /\ w \in Executor
  BY <1>1, Turn
<1>3. exec' \in [Executor -> Exec] /\ exec'[w].pc = "idle" /\ \A y \in Executor \ {w} : exec'[y] = exec[y]
  BY <1>1, <1>2, TypedExec, ReturnExec
<1>4. PICK status : status = taskStatus
  OBVIOUS
<1>5. Recovering(status) /\ status = MaybeFinalize({}, status)
  BY <1>4 DEF Recovering, IInv, TypeOK, MaybeFinalize
<1>6. PICK R : /\ taskStatus' = MaybeFinalize(R, status)
               /\ R = {} \/ R = {RunOf(exec[w].task)}
  BY <1>4, <1>5 DEF AfterCollector
<1>7. lockedBy' \in [Task -> Worker \cup {None}]
  BY <1>1 DEF IInv, TypeOK
<1>8. \A r \in R : r \in Run => runStatus[r] # "absent"
  BY <1>2, <1>6
<1> QED BY <1>1, <1>3, <1>5, <1>6, <1>7, <1>8, FinalizingIInv

LEMMA RecoveryIInv == ASSUME IInv, RecoverLost \/ Tick PROVE IInv'
<1>1. /\ UNCHANGED <<runVars, attempts, defers, lease, obs, lockVars, exec, crashes, rewritten>>
      /\ lockedBy' = [t \in Task |-> IF t \in Lost THEN None ELSE lockedBy[t]]
  BY DEF RecoverLost, Tick, Unlocked
<1>2. PICK status : status = Recovered
  OBVIOUS
<1>3. Recovering(status)
  BY <1>2 DEF Recovering, Recovered, Lost, IInv, TypeOK, ActiveStatus, DoneTask
<1>4. status = MaybeFinalize({}, status)
  BY <1>3 DEF Recovering, MaybeFinalize
<1>5. PICK R : taskStatus' = MaybeFinalize(R, status) /\ (R = {} \/ R \subseteq NeverFinalized(status))
  BY <1>2, <1>4 DEF RecoverLost, Tick, Swept
<1>6. \A r \in R : r \in Run => runStatus[r] # "absent"
  BY <1>5 DEF NeverFinalized, RunActive, ActiveStatus
<1>7. lockedBy' \in [Task -> Worker \cup {None}]
  BY <1>1 DEF IInv, TypeOK
<1>8. PICK x : x \notin Executor
  <2>1. None \notin Executor
    BY ConstantsAssumption DEF None
  <2> QED BY <2>1
<1>9. exec' \in [Executor -> Exec] /\ exec' = exec
  BY <1>1, TypedExec
<1> QED BY <1>1, <1>3, <1>5, <1>6, <1>7, <1>8, <1>9, FinalizingIInv

LEMMA NextIInv == IInv /\ [Next]_vars => IInv'
<1> SUFFICES ASSUME IInv, [Next]_vars PROVE IInv'
  OBVIOUS
<1>1. ASSUME NEW c \in Client, NEW d \in Domain, IngestCheck(c, d) \/ Reestimate(c, d) PROVE IInv'
  BY <1>1, IngestCheckIInv, ReestimateIInv
<1>2. ASSUME NEW c \in Client, IngestCommit(c) \/ ReadFeatures(c) \/ StoreEstimate(c) \/ RequestFails(c) PROVE IInv'
  BY <1>2, IngestCommitIInv, ReadFeaturesIInv, StoreEstimateIInv, RequestFailsIInv DEF Executor
<1>3. ASSUME NEW w \in Worker, NEW t \in Task, ClaimSelect(w, t) PROVE IInv'
  BY <1>3, ClaimSelectIInv
<1>4. ASSUME NEW w \in Worker, Work(w) PROVE IInv'
  BY <1>4, ClaimCommitIInv, BeginIInv, CollectIInv, ReadFeaturesIInv, StoreEstimateIInv, CompleteIInv, FailIInv,
     DeferIInv, FailRaisedIInv, AfterCollectorIInv DEF Work, Executor
<1>5. ASSUME NEW w \in Worker, Raise(w) \/ RaiseAgain(w) \/ Crash(w) PROVE IInv'
  BY <1>5, RaiseIInv, RaiseAgainIInv, CrashIInv
<1>6. CASE RecoverLost \/ Tick
  BY <1>6, RecoveryIInv
<1>7. CASE (\E t \in Task : LeaseExpires(t)) \/ (\E r \in Run : Age(r)) \/ UNCHANGED vars
  BY <1>7, TimeIInv
<1> QED BY <1>1, <1>2, <1>3, <1>4, <1>5, <1>6, <1>7 DEF Next

\* Every reachable state satisfies the invariant: a task waits and runs as its
\* worker has it, a finalize task comes after the collectors, and the features
\* an executor has read hold what they stored.
THEOREM Invariant == Spec => []IInv
<1>1. Init => IInv
  BY InitIInv
<1>2. IInv /\ [Next]_vars => IInv'
  BY NextIInv
<1> QED BY <1>1, <1>2, PTL DEF Spec

\* Every variable keeps its type.
THEOREM TypeCorrect == Spec => []TypeOK
<1>1. IInv => TypeOK
  BY DEF IInv
<1> QED BY <1>1, Invariant, PTL

\* The caps per kind are exact, for any number of workers that claim at once:
\* CLAIM_LOCK makes the count and the commit of a claim one step.
THEOREM CapsAreExact == Spec => []RunningWithinCap
<1>1. IInv => RunningWithinCap
  BY DEF IInv
<1> QED BY <1>1, Invariant, PTL

\* Requests for the same domain never start collecting it twice: the upsert
\* holds the domain's row from the look for an active run to the new one's commit.
THEOREM CollectedOnce == Spec => []OneCollectingRun
<1>1. IInv => OneCollectingRun
  BY DEF IInv
<1> QED BY <1>1, Invariant, PTL

\* A run is completed from everything its collectors stored, unless a worker
\* that had lost a task of it wrote that task again.
THEOREM NoSourceIsMissed == Spec => []EstimateUsesEverySource
<1>1. IInv => EstimateUsesEverySource
  <2>1. ASSUME IInv, NEW r \in Run, runStatus[r] = "completed", r \notin rewritten, NEW t \in RunTasks(r)
        PROVE  taskStatus[t] \in DoneTask \cup {"absent"} /\ (taskStatus[t] = "succeeded" => t[2] \in estimate[r])
    <3>1. Settled(r) /\ Uses(r, estimate[r])
      BY <2>1 DEF IInv, Sources
    <3>2. PICK k \in Collector : t = <<r, k>>
      BY <2>1 DEF RunTasks
    <3> QED BY <3>1, <3>2 DEF Settled, Uses
  <2> QED BY <2>1 DEF EstimateUsesEverySource
<1> QED BY <1>1, Invariant, PTL

\* A run that has ended is not active again: only a worker that begins a queued
\* run makes it running, and a new run takes an id of its own.  Which end it has
\* may still change: a late worker can complete a failed run and fail a completed one.
THEOREM EndedStays == Spec => EndedRunStaysEnded
<1> DEFINE Stays == \A r \in Run : runStatus[r] \in {"completed", "failed"} => runStatus'[r] \in {"completed", "failed"}
<1>1. ASSUME IInv, [Next]_vars PROVE Stays
  <2>1. runStatus \in [Run -> {"absent", "queued", "running", "completed", "failed"}]
    BY <1>1 DEF IInv, TypeOK
  <2>2. ASSUME NEW c \in Client, NEW d \in Domain, IngestCheck(c, d) \/ Reestimate(c, d) PROVE Stays
    <3>1. CASE IngestCheck(c, d)
      BY <3>1 DEF IngestCheck, runVars
    <3>2. CASE Reestimate(c, d)
      BY <2>1, <3>2 DEF Reestimate, NextRun
    <3> QED BY <2>2, <3>1, <3>2
  <2>3. ASSUME NEW c \in Client, IngestCommit(c) PROVE Stays
    <3>1. runStatus[RunOf(exec[c].task)] = "absent"
      BY <1>1, <2>3 DEF IInv, Requesting, IngestCommit
    <3> QED BY <2>1, <2>3, <3>1 DEF IngestCommit
  <2>4. ASSUME NEW x \in Executor, StoreEstimate(x) PROVE Stays
    BY <2>1, <2>4 DEF StoreEstimate
  <2>5. ASSUME NEW w \in Worker, Begin(w) PROVE Stays
    BY <2>1, <2>5 DEF Begin
  <2>6. ASSUME NEW w \in Worker, FailRaised(w) PROVE Stays
    BY <2>1, <2>6 DEF FailRaised
  <2>7. ASSUME NEW c \in Client, ReadFeatures(c) \/ RequestFails(c) PROVE Stays
    BY <2>7 DEF ReadFeatures, RequestFails, runVars
  <2>8. ASSUME NEW w \in Worker, Work(w) \/ Raise(w) \/ RaiseAgain(w) \/ Crash(w) PROVE Stays
    <3>1. CASE Begin(w) \/ StoreEstimate(w) \/ FailRaised(w)
      BY <2>4, <2>5, <2>6, <3>1 DEF Executor
    <3>2. CASE ClaimCommit(w) \/ Collect(w) \/ ReadFeatures(w) \/ Complete(w) \/ Fail(w) \/ Defer(w) \/ AfterCollector(w)
               \/ Raise(w) \/ RaiseAgain(w) \/ Crash(w)
      BY <3>2 DEF ClaimCommit, Collect, ReadFeatures, Complete, Fail, Defer, AfterCollector, Raise, RaiseAgain, Crash, runVars
    <3> QED BY <2>8, <3>1, <3>2 DEF Work
  <2>9. CASE \/ \E w \in Worker, t \in Task : ClaimSelect(w, t)
             \/ RecoverLost \/ Tick \/ (\E t \in Task : LeaseExpires(t)) \/ (\E r \in Run : Age(r)) \/ UNCHANGED vars
    BY <2>9 DEF ClaimSelect, RecoverLost, Tick, LeaseExpires, Age, vars, runVars
  <2> QED BY <1>1, <2>2, <2>3, <2>4, <2>7, <2>8, <2>9 DEF Next, Executor
<1> QED BY <1>1, Invariant, PTL DEF Spec, EndedRunStaysEnded
==============================================================================
