----------------------------- MODULE Dashboard -----------------------------
(***************************************************************************)
(* The web dashboard over an API that answers late, refuses or is not      *)
(* reached: the form that starts a job, and the job's page, which polls    *)
(* the job and follows its progress with the results.  A hook is one use   *)
(* of useApi.  The job itself is any that keeps the promise of JobView; in *)
(* between is the proxy, whose own failures look like those of the         *)
(* network.                                                                *)
(***************************************************************************)
EXTENDS JobInput, JobView, FiniteSets

CONSTANTS
  Urls,                 \* what may be typed as the URL
  Offered,              \* FORMATS
  Seconds, Counts,      \* typed numbers: <<>>, or tenths as <<n>>
  Patterns,             \* what may be typed as patterns, one sequence each
  Domains,              \* what may be typed as the allowed domain, <<>> or <<host>>
  Outcomes,             \* how the job may end, other than by the page's cancel button
  MaxTyped,             \* bound: optional fields that are not blank at once
  MaxPages,             \* bound: results of the job, and its figures as one number
  MaxJobs               \* bound: jobs of one form

\* What is typed is blank, a line of text, or a number with one decimal at most;
\* FORMATS are formats of the API; config.ts has the limit of the schema.
ASSUME TypedAssumption ==
  /\ \A typed \in Seconds \cup Counts : typed \in Seq(Nat) /\ Len(typed) <= 1
  /\ \A p \in Patterns : p \in Seq([length : Nat \ {0}, valid : BOOLEAN])
  /\ \A d \in Domains : d = <<>> \/ d = <<d[1]>>
  /\ Offered \subseteq OutputFormat
  /\ Limits.defaultScrapeTimeoutMs \in Nat /\ Limits.maxPatternLength = 200

ASSUME JobAssumption == Outcomes \subseteq Ended /\ MaxPages \in Nat

VARIABLES
  page,     \* which page is shown
  form,     \* the state of NewJobForm
  post,     \* its request
  made,     \* jobs the API has made for it, but for those it was never told of
  server,   \* the job of the page, as the API has it
  shown,    \* useApi of the job
  results,  \* useApi of its results (and events)
  filter,   \* which results are asked for
  cancel    \* the request of the cancel button

dashVars == <<page, form, post, made, server, shown, results, filter, cancel>>
formVars == <<form, post, made>>
pageVars == <<shown, results, filter, cancel>>

-----------------------------------------------------------------------------
(* new-job-form.tsx.                                                       *)

Modes == {"scrape", "crawl", "map"}
ScrapeOnly == {"branding"}

EmptyForm ==
  [mode |-> "scrape", url |-> <<>>, formats |-> {"markdown"}, timeout |-> <<>>, depth |-> <<>>, pages |-> <<>>,
   limit |-> <<>>, include |-> <<>>, domain |-> <<>>, busy |-> FALSE]

\* optInt: blank, or a whole number that is large enough.
Fine(typed, min) == typed = <<>> \/ (typed[1] % 10 = 0 /\ typed[1] >= 10 * min)
Typed(field, typed, unit) == [f \in (IF typed = <<>> THEN {} ELSE {field}) |-> (typed[1] \div 10) * unit]

Scope(f) ==
  Both([x \in (IF f.include = <<>> THEN {} ELSE {"include_patterns"}) |-> f.include],
       Both([x \in (IF f.domain = <<>> THEN {} ELSE {"allowed_domain"}) |-> f.domain[1]],
            [allow_subdomains |-> FALSE]))

FieldErrors(f) ==
  \/ f.mode # "scrape" /\ \E i \in DOMAIN f.include : ~f.include[i].valid
  \/ f.mode = "map" /\ ~Fine(f.limit, 1)
  \/ f.mode # "map" /\ (f.formats = {} \/ ~Fine(f.timeout, 1))
  \/ f.mode = "crawl" /\ (~Fine(f.depth, 0) \/ ~Fine(f.pages, 1))

Body(f) ==
  LET base == Both([url |-> f.url[1], project_id |-> "p", formats |-> f.formats, only_main_content |-> TRUE],
                   Typed("timeout_ms", f.timeout, 1000))
  IN  CASE f.mode = "scrape" -> base
        [] f.mode = "crawl"  -> Both(Both(base, Scope(f)),
                                     Both(Typed("max_depth", f.depth, 1), Typed("max_pages", f.pages, 1)))
        [] f.mode = "map"    -> Both(Both([url |-> f.url[1]], Scope(f)), Typed("limit", f.limit, 1))

NoPost == [state |-> "none", mode |-> "none", body |-> <<>>, code |-> "none"]

\* What is typed while a request is on its way is of interest to the next one
\* only, so that it waits here until the button is enabled again.
Editing == page = "form" /\ ~form.busy
Filled(f) == {x \in {"timeout", "depth", "pages", "limit", "include", "domain"} : f[x] # <<>>}
Edit(f) ==
  /\ Editing /\ Cardinality(Filled(f)) <= MaxTyped
  /\ form' = f /\ UNCHANGED <<page, post, made, server, pageVars>>

\* Mutant: the formats stay as they are when the mode changes.
ChangeModeOnly ==
  \E m \in Modes : Edit([form EXCEPT !.mode = m])

ChangeMode ==
  \E m \in Modes :
    Edit([form EXCEPT !.mode = m,
                      !.formats = IF m = "crawl" THEN @ \ ScrapeOnly ELSE @])

ToggleFormat ==
  \E f \in Offered \ (IF form.mode = "crawl" THEN ScrapeOnly ELSE {}) :
    form.mode # "map" /\ Edit([form EXCEPT !.formats = IF f \in @ THEN @ \ {f} ELSE @ \cup {f}])

\* The fields the mode shows; the patterns to exclude are checked as those to
\* include are, and the two check boxes are sent as they are.
TypeField ==
  \/ \E u \in Urls : Edit([form EXCEPT !.url = <<u>>])
  \/ form.mode # "map" /\ \E t \in Seconds : Edit([form EXCEPT !.timeout = t])
  \/ form.mode = "crawl" /\ \E n \in Counts : Edit([form EXCEPT !.depth = n])
  \/ form.mode = "crawl" /\ \E n \in Counts : Edit([form EXCEPT !.pages = n])
  \/ form.mode = "map" /\ \E n \in Counts : Edit([form EXCEPT !.limit = n])
  \/ form.mode # "scrape" /\ \E p \in Patterns : Edit([form EXCEPT !.include = p])
  \/ form.mode # "scrape" /\ \E d \in Domains : Edit([form EXCEPT !.domain = d])

\* Mutant: the button stays enabled while a request is on its way.
SubmitAgain ==
  /\ page = "form" /\ form.url # <<>>
  /\ ~FieldErrors(form)
  /\ form' = [form EXCEPT !.busy = TRUE]
  /\ post' = [state |-> "sent", mode |-> form.mode, body |-> Body(form), code |-> "none"]
  /\ UNCHANGED <<page, made, server, pageVars>>

\* With errors in the fields, these are shown and nothing is sent.
Submit ==
  /\ Editing /\ form.url # <<>>
  /\ ~FieldErrors(form)
  /\ form' = [form EXCEPT !.busy = TRUE]
  /\ post' = [state |-> "sent", mode |-> form.mode, body |-> Body(form), code |-> "none"]
  /\ UNCHANGED <<page, made, server, pageVars>>

-----------------------------------------------------------------------------
(* The API and the way to it.                                              *)

\* final: how many results there were when the job ended.
NoServer == [status |-> "none", figures |-> 0, rows |-> 0, final |-> 0]

\* The job as any step of the API may leave it.
Views(statuses) == [status : statuses, figures : 0..MaxPages, rows : 0..MaxPages]
Becomes(view) ==
  /\ Advances(server, view)
  /\ server' = [status |-> view.status, figures |-> view.figures, rows |-> view.rows,
                final |-> IF server.status \in Ended THEN server.final ELSE view.rows]

Verdict(mode, body) ==
  IF MatchesSchema(mode, body) THEN Normalize(mode, body, Limits, Policy, Answer).code ELSE "VALIDATION_ERROR"

\* A job is created, a map made, or the request refused, also for reasons that
\* are not in the body: no session any more, too many jobs, an error.
ServePost ==
  /\ post.state = "sent"
  /\ \/ /\ Verdict(post.mode, post.body) = "ok" /\ (post.mode # "map" => made < MaxJobs)
        /\ post' = [NoPost EXCEPT !.state = "answered", !.mode = post.mode, !.code = "ok"]
        /\ IF post.mode = "map" THEN UNCHANGED <<made, server>>
           ELSE made' = made + 1 /\ server' = [NoServer EXCEPT !.status = "queued"]
     \/ /\ \E code \in {Verdict(post.mode, post.body), "UNAUTHENTICATED", "TOO_MANY_ACTIVE_JOBS"} \ {"ok"} :
             post' = [NoPost EXCEPT !.state = "answered", !.mode = post.mode, !.code = code]
        /\ UNCHANGED <<made, server>>
  /\ UNCHANGED <<page, form, pageVars>>

\* The dashboard server or the API cannot be reached, before or after; no page
\* is opened of a job that was made.
LosePost ==
  /\ post.state # "none"
  /\ made' = IF post.code = "ok" /\ post.mode # "map" THEN made - 1 ELSE made
  /\ post' = NoPost /\ server' = NoServer
  /\ form' = [form EXCEPT !.busy = FALSE]
  /\ UNCHANGED <<page, pageVars>>

NoRequest == <<>>
NoHook == [data |-> <<>>, error |-> "none", request |-> NoRequest, timer |-> FALSE, due |-> FALSE]
Mounted == [NoHook EXCEPT !.due = TRUE]

\* The job's page as it is mounted: its results wait for the job.
Mount == shown' = Mounted /\ results' = NoHook /\ filter' = "all" /\ cancel' = "no"
OpenJob == page' = "job" /\ Mount

\* request() of api.ts: a 401 that is a missing session leads to the login page.
PostAnswered ==
  /\ post.state = "answered"
  /\ post' = NoPost
  /\ CASE post.code = "ok" /\ post.mode # "map" -> form' = EmptyForm /\ OpenJob
       [] post.code = "UNAUTHENTICATED" -> form' = EmptyForm /\ page' = "login" /\ UNCHANGED pageVars
       [] OTHER -> /\ form' = [form EXCEPT !.busy = FALSE]
                   /\ UNCHANGED <<page, pageVars>>
  /\ UNCHANGED <<made, server>>

\* Back to where the session was missed (safeNext).
SignIn ==
  /\ page = "login"
  /\ page' = (IF shown = NoHook THEN "form" ELSE "job")
  /\ UNCHANGED <<formVars, server, pageVars>>

\* The API works on the job; its steps are of interest once a page shows it.
Work ==
  /\ page # "form" /\ \E view \in Views(Active \cup Outcomes) : Becomes(view)
  /\ UNCHANGED <<page, formVars, pageVars>>

MovesOn == Work /\ server'.status # server.status

-----------------------------------------------------------------------------
(* useApi.                                                                 *)

\* A request that was answered with a value, or that failed.
Got(value) == [state |-> "ok", value |-> value]
Failed(how) == [state |-> how, value |-> <<>>]
Sent0 == [state |-> "sent", value |-> <<>>]
Failures == {"unreachable", "refused"}  \* status 0 or at least 500, any other

\* Mutant: nothing is asked again while a request is on its way.
RestartedUnlessLoading(hook) ==
  [hook EXCEPT !.due = FALSE, !.timer = FALSE, !.request = IF @ = NoRequest THEN Sent0 ELSE @]

\* The effect runs again: what was on its way is aborted, the timer cleared.
Restarted(hook) == [hook EXCEPT !.due = FALSE, !.timer = FALSE, !.request = Sent0]

IsActive(d) == d # <<>> /\ d.status \in Active

\* What the hook knows once its request has been answered.
Latest(hook) == IF hook.request.state = "ok" THEN hook.request.value ELSE hook.data

\* Mutant: a failed poll is the last one.
HookAfterGivingUp(hook, poll) ==
  [hook EXCEPT !.request = NoRequest, !.data = Latest(hook),
               !.error = IF hook.request.state = "ok" THEN "none" ELSE hook.request.state,
               !.timer = poll /\ hook.request.state = "ok"]

\* The next poll is scheduled if there is a reason to, after a failure only if
\* that may pass.
HookAfter(hook, poll) ==
  [hook EXCEPT !.request = NoRequest, !.data = Latest(hook),
               !.error = IF hook.request.state = "ok" THEN "none" ELSE hook.request.state,
               !.timer = poll /\ hook.request.state \in {"ok", "unreachable"}]

RefreshKey(d) == IF d = <<>> THEN <<>> ELSE <<d.status, d.figures>>

\* Whether the page's new data gives the results a reason to be fetched.
Follow(d) == results' = [results EXCEPT !.due = @ \/ RefreshKey(d) # RefreshKey(shown.data)]

OnJobPage == page = "job"

Restart ==
  /\ OnJobPage
  /\ \/ shown.due /\ shown' = Restarted(shown) /\ UNCHANGED results
     \/ results.due /\ results' = Restarted(results) /\ UNCHANGED shown
  /\ UNCHANGED <<page, formVars, server, filter, cancel>>

TimerFires ==
  /\ OnJobPage /\ shown.timer
  /\ shown' = [shown EXCEPT !.timer = FALSE, !.request = Sent0]
  /\ UNCHANGED <<page, formVars, server, results, filter, cancel>>

\* The API answers with what it has at that moment.
ServeJob ==
  /\ OnJobPage /\ shown.request = Sent0
  /\ shown' = [shown EXCEPT !.request = Got([status |-> server.status, figures |-> server.figures])]
  /\ UNCHANGED <<page, formVars, server, results, filter, cancel>>

ServeResults ==
  /\ OnJobPage /\ results.request = Sent0
  /\ results' = [results EXCEPT !.request = Got([rows |-> server.rows, filter |-> filter])]
  /\ UNCHANGED <<page, formVars, server, shown, filter, cancel>>

\* Results that are not polled show either failure alike.
GetFails ==
  /\ OnJobPage
  /\ \/ /\ shown.request = Sent0 /\ UNCHANGED results
        /\ \E how \in Failures : shown' = [shown EXCEPT !.request = Failed(how)]
     \/ /\ results.request = Sent0 /\ UNCHANGED shown
        /\ results' = [results EXCEPT !.request = Failed("unreachable")]
  /\ UNCHANGED <<page, formVars, server, filter, cancel>>

\* The session is over: a hard navigation, which forgets what the page knew.
SessionIsOver ==
  /\ OnJobPage /\ Sent0 \in {shown.request, results.request}
  /\ page' = "login" /\ Mount
  /\ UNCHANGED <<formVars, server>>

JobArrives ==
  /\ OnJobPage /\ shown.request \notin {NoRequest, Sent0}
  /\ shown' = HookAfter(shown, IsActive(Latest(shown)))
  /\ Follow(shown'.data)
  /\ UNCHANGED <<page, formVars, server, filter, cancel>>

ResultsArrive ==
  /\ OnJobPage /\ results.request \notin {NoRequest, Sent0}
  /\ results' = HookAfter(results, FALSE)
  /\ UNCHANGED <<page, formVars, server, shown, filter, cancel>>

ChangeFilter ==
  /\ OnJobPage /\ shown.data # <<>>
  /\ \E f \in {"all", "failed"} \ {filter} : filter' = f
  /\ results' = [results EXCEPT !.due = TRUE]
  /\ UNCHANGED <<page, formVars, server, shown, cancel>>

-----------------------------------------------------------------------------
(* The cancel button.                                                      *)

ClickCancel ==
  /\ OnJobPage /\ IsActive(shown.data) /\ cancel = "no"
  /\ cancel' = "sent"
  /\ UNCHANGED <<page, formVars, server, shown, results, filter>>

\* When the job ended first, it is returned as it is, or the request is refused; a
\* failure is shown, and that is all.
ServeCancel ==
  /\ OnJobPage /\ cancel = "sent"
  /\ \/ /\ server.status \in Active
        /\ Becomes([status |-> "cancelled", figures |-> server.figures, rows |-> server.rows])
        /\ cancel' = "returned"
     \/ server.status \in Ended /\ cancel' = "returned" /\ UNCHANGED server
     \/ cancel' = "no" /\ UNCHANGED server
  /\ UNCHANGED <<page, formVars, shown, results, filter>>

\* setData with the job that was returned, then reload.
CancelAnswered ==
  /\ OnJobPage /\ cancel = "returned"
  /\ LET d == [status |-> server.status, figures |-> server.figures]
     IN  shown' = [shown EXCEPT !.data = d, !.due = TRUE] /\ Follow(d)
  /\ cancel' = "no"
  /\ UNCHANGED <<page, formVars, server, filter>>

-----------------------------------------------------------------------------
DashInit ==
  /\ page = "form" /\ form = EmptyForm /\ post = NoPost /\ made = 0
  /\ server = NoServer /\ shown = NoHook /\ results = NoHook /\ filter = "all" /\ cancel = "no"

DashNext ==
  \/ ChangeMode \/ ToggleFormat \/ TypeField \/ Submit
  \/ ServePost \/ LosePost \/ PostAnswered \/ SignIn
  \/ Work
  \/ Restart \/ TimerFires \/ ServeJob \/ ServeResults \/ GetFails \/ SessionIsOver
  \/ JobArrives \/ ResultsArrive \/ ChangeFilter
  \/ ClickCancel \/ ServeCancel \/ CancelAnswered

\* Effects, timers and answers come; a job is started and ends; and
\* the API, asked again and again, answers.
Fairness ==
  /\ WF_dashVars(Restart) /\ WF_dashVars(TimerFires) /\ WF_dashVars(JobArrives) /\ WF_dashVars(ResultsArrive)
  /\ WF_dashVars(MovesOn) /\ SF_dashVars(ServeJob) /\ WF_dashVars(CancelAnswered)

DashSpec == DashInit /\ [][DashNext]_dashVars /\ Fairness

-----------------------------------------------------------------------------
\* A body that the form sends is one the API takes, up to its limits, the
\* target, and what only the API knows of patterns and domains: the form and
\* the schema agree on everything else (new-job-form.tsx:32-165, schemas.ts).
FormAgreesWithApi ==
  post.state = "sent" =>
    LET body     == post.body
        verdict  == Verdict(post.mode, body)
        patterns == Or(body, "include_patterns", <<>>)
    IN  verdict = "VALIDATION_ERROR" =>
          \/ Len(patterns) > 20 \/ \E i \in DOMAIN patterns : patterns[i].length > 200
          \/ /\ Sent(body, "allowed_domain")
             /\ ~Within(NormalizeHostname(body.url.host), NormalizeHostname(body.allowed_domain))

\* A form makes one job, and one more for each that it was not told of: the
\* request has no key by which the API would know it again.
OneJobPerAnswer == made <= 1

Quiet(hook) == hook.request = NoRequest /\ ~hook.timer /\ ~hook.due /\ hook.error = "none"

\* When nothing is on its way any more and no error is shown, the page shows
\* how the job ended and at least the results there were then, as filtered now:
\* answers that were overtaken have left no trace (use-api.ts:50-81).
QuietPageIsFresh ==
  OnJobPage /\ Quiet(shown) /\ Quiet(results) /\ cancel = "no" =>
    /\ shown.data.status = server.status /\ server.status \in Ended
    /\ shown.data.figures = server.figures
    /\ results.data.filter = filter
    /\ results.data.rows >= server.final

\* The page comes to show the end of the job, unless an answer told it not to
\* ask again, or there never was one (use-api.ts:64-71).
EventuallyShowsEnd ==
  OnJobPage ~> \/ ~OnJobPage
               \/ shown.error = "refused" \/ (shown.error = "unreachable" /\ shown.data = <<>>)
               \/ (shown.data # <<>> /\ ~IsActive(shown.data))
==============================================================================
