----------------------------- MODULE TrafficCalls -----------------------------
(***************************************************************************)
(* The API's requests about traffic estimates and the adapter they go      *)
(* through (routes/traffic.ts, engine/traffic.ts), on the clock of         *)
(* EngineCalls: POST submits a domain and may wait for its estimate, GET   *)
(* looks one up, the bulk route submits many and looks them up in chunks.  *)
(* The estimator service is as its API shows it: a domain has runs, one at *)
(* a time, and the estimate of the last one that completed; a lookup reads *)
(* the domain in three transactions.  TrafficPipeline has what is behind.  *)
(***************************************************************************)
EXTENDS EngineCalls, FiniteSets, SequencesExt

CONSTANTS
  Domain, Invalid,  \* registrable domains, and an input that is none
  Chunk,            \* BULK_LOOKUP_CONCURRENCY
  Timeout,          \* timeoutMs of a call of the service
  Wait, Poll,       \* waitMs, POLL_MS
  MaxRuns           \* bound on the runs of a domain

ASSUME TrafficAssumption ==
  /\ IsFiniteSet(Domain) /\ Invalid \notin Domain
  /\ Chunk \in Nat \ {0} /\ Timeout \in Nat \ {0} /\ Poll \in Nat \ {0}
  /\ Wait \in Nat /\ MaxRuns \in Nat

VARIABLES
  runs,      \* each domain's runs, as they stand
  ask,       \* the request
  left,      \* domains still to be looked up
  lookup,    \* each domain's lookup: how far it is, and what it has read
  deadline,  \* until when POST waits
  joined     \* history: the run each submitted domain had then

trafficVars == <<runs, ask, left, lookup, deadline, joined>>

-----------------------------------------------------------------------------
(* The service.                                                            *)

\* What the service knew of a domain before the request: nothing, or one run.
\* More may happen before it gets to the service.
Past == {<<>>, <<"failed">>, <<"completed">>}

\* The run of the latest estimate.
EstimateOf(r) == LET done == {n \in DOMAIN r : r[n] = "completed"}
                 IN IF done = {} THEN 0 ELSE Max(done)

ActiveRun(r) == r # <<>> /\ Last(r) = "active"

\* ingest_domains: an active run is joined, and a recent estimate is enough
\* unless the client forces a run.
Ingested(r, force) ==
  IF ActiveRun(r) THEN {r}
  ELSE {Append(r, "active")} \cup (IF EstimateOf(r) # 0 /\ ~force THEN {r} ELSE {})

\* A run completes, in one transaction with its estimate, or fails.
RunEnds(d) ==
  /\ kind = "traffic" /\ pc # "done" /\ ActiveRun(runs[d])
  /\ \E end \in {"completed", "failed"} : runs' = [runs EXCEPT ![d][Len(runs[d])] = end]
  /\ UNCHANGED <<vars, ask, left, lookup, deadline, joined>>

\* Another client has the domain collected again.
OtherSubmits(d) ==
  /\ kind = "traffic" /\ pc # "done" /\ ~ActiveRun(runs[d]) /\ Len(runs[d]) < MaxRuns
  /\ runs' = [runs EXCEPT ![d] = Append(@, "active")]
  /\ UNCHANGED <<vars, ask, left, lookup, deadline, joined>>

-----------------------------------------------------------------------------
(* A lookup, and what the API makes of it.                                 *)

\* `at` is the transaction it does next, "full" for a second reading of the
\* estimate, or how it was answered; "missing" is a 404.
NoLookup == [at |-> None, run |-> 0, state |-> None, estimate |-> 0]
Reading == {"run", "state", "estimate", "full"}

\* presentTraffic
Status(v) == IF v.estimate # 0 THEN "ready" ELSE IF v.state = "failed" THEN "failed" ELSE "pending"
Refreshing(v) == v.estimate # 0 /\ v.state = "active"

Settled(v) == Status(v) # "pending" /\ ~Refreshing(v)

NoAsk == [route |-> None, inputs |-> <<>>, refresh |-> FALSE, wait |-> FALSE, details |-> FALSE]
Asked == ToSet(ask.inputs) \cap Domain

TrafficInit ==
  /\ runs = [d \in Domain |-> <<>>] /\ ask = NoAsk
  /\ left = {} /\ lookup = [d \in Domain |-> NoLookup]
  /\ deadline = 0 /\ joined = [d \in Domain |-> 0]

\* estimator.get for some domains at once.
LookUp(domains, state) ==
  /\ Send(state, Timeout)
  /\ lookup' = [d \in Domain |-> IF d \in domains THEN [NoLookup EXCEPT !.at = "run"] ELSE lookup[d]]
  /\ UNCHANGED result

\* The next chunk of those that are left, in the order of the inputs.
LookUpSome(domains) ==
  \E c \in SUBSET domains : /\ Cardinality(c) = Smaller(Chunk, Cardinality(domains))
                            /\ left' = domains \ c
                            /\ LookUp(c, "lookup")

Reply(code) == Return(code) /\ UNCHANGED <<left, lookup>>

\* Mutant: the estimate is read before the run.
LookupReadsEstimateFirst(d) ==
  /\ pc \in {"lookup", "details"} /\ lookup[d].at \in Reading
  /\ LET v == lookup[d] r == runs[d] e == EstimateOf(r)
     IN /\ lookup' = [lookup EXCEPT ![d] =
             CASE v.at = "run"      -> [v EXCEPT !.at = IF r = <<>> THEN "missing" ELSE "state", !.run = Len(r)]
               [] v.at = "state"    -> [v EXCEPT !.at = "estimate", !.estimate = e]
               [] v.at = "estimate" -> [v EXCEPT !.at = IF pc = "details" /\ e # 0 THEN "full" ELSE "answered",
                                                 !.state = r[v.run]]
               [] v.at = "full"     -> [v EXCEPT !.at = "answered", !.estimate = e]]
        /\ due' = IF lookup'[d].at = "full" THEN now + Timeout ELSE due
  /\ UNCHANGED <<now, kind, pc, first, last, noWait, aborted, budget, catalog, sitemap, plan, result,
                 runs, ask, left, deadline, joined>>

\* One transaction of a lookup: the domain's latest run, how that stands, the
\* latest estimate.  Details, if there is one, are another call.
LookupReads(d) ==
  /\ pc \in {"lookup", "details"} /\ lookup[d].at \in Reading
  /\ LET v == lookup[d] r == runs[d] e == EstimateOf(r)
     IN /\ lookup' = [lookup EXCEPT ![d] =
             CASE v.at = "run"      -> [v EXCEPT !.at = IF r = <<>> THEN "missing" ELSE "state", !.run = Len(r)]
               [] v.at = "state"    -> [v EXCEPT !.at = "estimate", !.state = r[v.run]]
               [] v.at = "estimate" -> [v EXCEPT !.at = IF pc = "details" /\ e # 0 THEN "full" ELSE "answered",
                                                 !.estimate = e]
               [] v.at = "full"     -> [v EXCEPT !.at = "answered", !.estimate = e]]
        /\ due' = IF lookup'[d].at = "full" THEN now + Timeout ELSE due
  /\ UNCHANGED <<now, kind, pc, first, last, noWait, aborted, budget, catalog, sitemap, plan, result,
                 runs, ask, left, deadline, joined>>

LookedUp == pc \in {"lookup", "details"} /\ \A d \in Domain : lookup[d].at \notin Reading

-----------------------------------------------------------------------------
(* The handlers.                                                           *)

\* A request, about domains of any past; it has no page budget.
Arrives(request) ==
  /\ pc = "idle"
  /\ kind' = "traffic" /\ ask' = request
  /\ \E past \in [Asked' -> Past] :
         runs' = [d \in Domain |-> IF d \in Asked' THEN past[d] ELSE runs[d]]
  /\ budget' = Min(Budgets)
  /\ UNCHANGED <<now, first, last, noWait, aborted, catalog, sitemap, plan, deadline, joined>>

\* POST /traffic: estimator.submit of one domain.
PostArrives ==
  \E input \in Domain \cup {Invalid}, refresh, wait, details \in BOOLEAN :
    /\ Arrives([route |-> "post", inputs |-> <<input>>, refresh |-> refresh, wait |-> wait, details |-> details])
    /\ Send("submit", Timeout) /\ UNCHANGED <<left, lookup, result>>

\* POST /traffic/bulk: of several.
BulkArrives ==
  \E one, two \in Domain \cup {Invalid}, refresh \in BOOLEAN :
    /\ Arrives([NoAsk EXCEPT !.route = "bulk", !.inputs = <<one, two>>, !.refresh = refresh])
    /\ Send("submit", Timeout) /\ UNCHANGED <<left, lookup, result>>

\* GET /traffic/:domain
GetArrives ==
  \E input \in Domain \cup {Invalid}, details \in BOOLEAN :
    /\ Arrives([NoAsk EXCEPT !.route = "get", !.inputs = <<input>>, !.details = details])
    /\ LookUp({input} \cap Domain, IF details THEN "details" ELSE "lookup") /\ UNCHANGED left

\* The runs when the service has ingested what was asked.
Ingest ==
  /\ \E after \in [Domain -> UNION {Ingested(runs[d], ask.refresh) \cup {runs[d]} : d \in Domain}] :
       /\ \A d \in Domain : after[d] \in IF d \in Asked THEN Ingested(runs[d], ask.refresh) ELSE {runs[d]}
       /\ runs' = after
  /\ joined' = [d \in Domain |-> IF d \in Asked THEN Len(runs'[d]) ELSE 0]

\* A POST's invalid input is refused, a bulk item's only reported.
SubmitAnswered ==
  /\ pc = "submit" /\ Ingest
  /\ \/ Asked # {} /\ LookUpSome(Asked)
     \/ Asked = {} /\ Reply(IF ask.route = "post" THEN "400" ELSE "202")
  /\ UNCHANGED <<now, kind, first, last, noWait, aborted, budget, catalog, sitemap, plan, ask, deadline>>

\* The lookups of a chunk are answered (Promise.all).
BulkLookedUp ==
  /\ ask.route = "bulk" /\ LookedUp
  /\ \/ left # {} /\ LookUpSome(left)
     \/ left = {} /\ Reply("202")
  /\ UNCHANGED <<now, kind, first, last, noWait, aborted, budget, catalog, sitemap, plan, runs, ask, deadline, joined>>

GetLookedUp ==
  /\ ask.route = "get" /\ LookedUp
  /\ Reply(IF Asked = {} THEN "400" ELSE IF \E d \in Asked : lookup[d].at = "missing" THEN "404" ELSE "200")
  /\ UNCHANGED <<now, kind, first, last, noWait, aborted, budget, catalog, sitemap, plan, runs, ask, deadline, joined>>

\* The wait begins with the first answer, and ends when the state is settled,
\* time is up or the client has left.  Details are then read with a new lookup.
PostLookedUp ==
  /\ ask.route = "post" /\ LookedUp
  /\ \E d \in Asked :
       LET until == IF deadline = 0 THEN now + Wait ELSE deadline
           goOn == pc = "lookup" /\ ask.wait /\ ~Settled(lookup[d]) /\ now < until /\ ~aborted
       IN /\ deadline' = IF ask.wait /\ pc = "lookup" THEN until ELSE deadline
          /\ \/ goOn /\ Send("pause", Poll) /\ UNCHANGED <<left, lookup, result>>
             \/ ~goOn /\ pc = "lookup" /\ ask.details /\ LookUp({d}, "details") /\ UNCHANGED left
             \/ ~goOn /\ ~(pc = "lookup" /\ ask.details) /\ Reply(IF Settled(lookup[d]) THEN "200" ELSE "202")
  /\ UNCHANGED <<now, kind, first, last, noWait, aborted, budget, catalog, sitemap, plan, runs, ask, joined>>

PauseEnds ==
  /\ pc = "pause" /\ now = due
  /\ LookUp(Asked, "lookup")
  /\ UNCHANGED <<now, kind, first, last, noWait, aborted, budget, catalog, sitemap, plan, runs, ask, left, deadline, joined>>

\* A call fails or takes too long: TRAFFIC_UNAVAILABLE.  The service may have
\* ingested the domains all the same.
ServiceFails ==
  /\ kind = "traffic" /\ pc \in {"submit", "lookup", "details"}
  /\ \/ pc = "submit" /\ Ingest
     \/ UNCHANGED <<runs, joined>>
  /\ Reply("503")
  /\ UNCHANGED <<now, kind, first, last, noWait, aborted, budget, catalog, sitemap, plan, ask, deadline>>

\* The client of a waiting POST closes its connection.
ClientLeaves ==
  /\ kind = "traffic" /\ ask.wait /\ pc # "done" /\ ~aborted
  /\ aborted' = TRUE
  /\ UNCHANGED <<now, kind, pc, due, first, last, noWait, budget, catalog, sitemap, plan, result, trafficVars>>

TrafficNext ==
  \/ PostArrives \/ BulkArrives \/ GetArrives
  \/ SubmitAnswered \/ BulkLookedUp \/ GetLookedUp \/ PostLookedUp \/ PauseEnds
  \/ ServiceFails \/ ClientLeaves
  \/ \E d \in Asked : LookupReads(d) \/ RunEnds(d) \/ OtherSubmits(d)

CallInit == Init /\ TrafficInit

\* A call of either adapter.
CallSpec ==
  /\ CallInit
  /\ [][(Next /\ UNCHANGED trafficVars) \/ TrafficNext]_<<vars, trafficVars>>

-----------------------------------------------------------------------------
\* A 200 to a POST is a final answer: with `refresh` its estimate is at least
\* that of the run the request joined, unless the latest run it saw failed.  A
\* 202 ends a wait only when its time is over or the client is gone.
TrafficAnswerIsCurrent ==
  ask.route = "post" /\ pc = "done" =>
    /\ result = "200" => \A d \in Asked :
         /\ lookup[d].estimate >= (IF ask.refresh THEN joined[d] ELSE 1) \/ lookup[d].state = "failed"
    /\ result = "202" /\ ask.wait /\ ~ask.details => now >= deadline \/ aborted
==============================================================================
