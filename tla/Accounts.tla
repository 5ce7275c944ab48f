------------------------------ MODULE Accounts ------------------------------
(***************************************************************************)
(* What a user owns (sessions, API keys, projects, jobs) and the requests  *)
(* of the API that change it, side by side.  A request is admitted with    *)
(* the principal its credential stands for at that moment, then runs its   *)
(* queries one at a time; between two of them other requests run theirs.   *)
(* A user is known by the e-mail address; the id of a row is used once.    *)
(***************************************************************************)
EXTENDS JobInput, FiniteSets

CONSTANTS
  Users, Keys, Projects, Jobs,  \* e-mail addresses, row ids
  MaxSessions,     \* bound: sessions a user has at a time
  Requests,        \* requests handled at a time
  MaxActiveKeys,   \* MAX_ACTIVE_KEYS
  MaxActiveJobs,   \* maxActiveJobsPerUser
  Bodies,          \* records of the type and the input of a job
  NULL

ASSUME LimitsAssumption ==
  /\ MaxSessions \in Nat /\ MaxActiveKeys \in Nat \ {0} /\ MaxActiveJobs \in Nat \ {0}
  /\ IsFiniteSet(Keys) /\ IsFiniteSet(Jobs) /\ IsFiniteSet(Requests)

\* config.ts and the schemas: what a field that was sent may be.
ASSUME BodiesAssumption ==
  /\ Limits.defaultScrapeTimeoutMs \in Nat \ 0..999 /\ Limits.maxScrapeTimeoutMs \in Nat
  /\ Limits.maxCrawlPages \in Nat \ {0} /\ Limits.maxCrawlDepth \in Nat
  /\ \A b \in Bodies :
       /\ b.type \in {"scrape", "crawl"}
       /\ \A field \in DOMAIN b.input \cap {"timeout_ms", "wait_for_ms", "max_pages", "max_depth"} :
            b.input[field] \in Nat

ASSUME NullAssumption == NULL \notin Users \cup Keys \cup Projects \cup Bodies

VARIABLES
  registered,  \* users rows
  session,     \* sessions: how many of each user's findValid would find
  key,         \* api_keys: whose, and whether revoked_at is null
  project,     \* projects: whose, and whether the row is there
  job,         \* jobs: whose, in which project, asked for what, and how far
  req          \* the requests being handled

vars == <<registered, session, key, project, job, req>>

NoRow == [owner |-> NULL, state |-> "none"]
DeletedRow == [owner |-> NULL, state |-> "deleted"]
NoJob == [owner |-> NULL, project |-> NULL, body |-> NULL, status |-> "none"]
DeletedJob == [NoJob EXCEPT !.status = "deleted"]
Idle == [at |-> "idle", user |-> NULL, id |-> NULL, body |-> NULL]

KeyRows == [owner : Users, state : {"live", "revoked"}] \cup {NoRow}
ProjectRows == [owner : Users, state : {"live"}] \cup {NoRow, DeletedRow}
JobRows == [owner : Users, project : Projects, body : Bodies, status : {"active", "ended"}] \cup {NoJob, DeletedJob}

Steps == {"signup", "hash", "startSession", "createKey", "insertKey", "revokeKey", "createProject",
          "deleteProject", "findProject", "defaultProject", "countActive", "insertJob"}

Fresh(table) == {id \in DOMAIN table : table[id] = NoRow}
Owned(table, u) == {id \in DOMAIN table : table[id].owner = u /\ table[id].state = "live"}
ActiveJobs(u) == {j \in Jobs : job[j].owner = u /\ job[j].status = "active"}
NewRow(u) == [owner |-> u, state |-> "live"]

Init ==
  /\ registered = {}
  /\ session = [u \in Users |-> 0] /\ key = [k \in Keys |-> NoRow]
  /\ project = [p \in Projects |-> NoRow] /\ job = [j \in Jobs |-> NoJob]
  /\ req = [r \in Requests |-> Idle]

InsertProject(p, u) == p \in Fresh(project) /\ project' = [project EXCEPT ![p] = NewRow(u)]

At(r, step) == req[r].at = step
Goto(r, step) == req' = [req EXCEPT ![r].at = step]
Done(r) == req' = [req EXCEPT ![r] = Idle]

-----------------------------------------------------------------------------
(* Admission: onRequest and authenticate.                                  *)

\* What is asked of a credential that was sent: has its session time left, is
\* its key not revoked?
FindValid(u) == session[u] > 0
FindActiveByPrefix(u) == Owned(key, u) # {}

\* The users a credential of one of the accepted kinds can stand for now.
Principals(accept) ==
  {u \in Users : \/ "session" \in accept /\ FindValid(u)
                 \/ "api_key" \in accept /\ FindActiveByPrefix(u)}

SessionOnly == {"session"}
AnyCredential == {"session", "api_key"}

\* A request is admitted for the route whose first query is at step.
Admit(r, step, users, ids) ==
  /\ At(r, "idle")
  /\ \E u \in users, id \in ids : req' = [req EXCEPT ![r] = [Idle EXCEPT !.at = step, !.user = u, !.id = id]]
  /\ UNCHANGED <<registered, session, key, project, job>>

\* Signing up and signing in (with the right password) take no credential.
AdmitSignup(r) == Admit(r, "signup", Users, {NULL})
AdmitLogin(r) == Admit(r, "startSession", registered, {NULL})
AdmitCreateKey(r) == Admit(r, "createKey", Principals(SessionOnly), {NULL})
AdmitRevokeKey(r) == Admit(r, "revokeKey", Principals(SessionOnly), Keys)
AdmitCreateProject(r) == Admit(r, "createProject", Principals(SessionOnly), {NULL})
AdmitDeleteProject(r) == Admit(r, "deleteProject", Principals(SessionOnly), Projects)
AdmitCreateJob(r) == Admit(r, "findProject", Principals(AnyCredential), Projects \cup {NULL})

\* A handler throws (a lost connection, a unique index) or its process ends.
Fail500(r) ==
  /\ ~At(r, "idle")
  /\ Done(r)
  /\ UNCHANGED <<registered, session, key, project, job>>

-----------------------------------------------------------------------------
(* Users and sessions: routes/auth.ts.                                     *)

SignupFindByEmail(r) ==
  /\ At(r, "signup")
  /\ IF req[r].user \in registered THEN Done(r) ELSE Goto(r, "hash")
  /\ UNCHANGED <<registered, session, key, project, job>>

\* One transaction; the index on lower(email) refuses the second of two.
SignupInsert(r) ==
  LET u == req[r].user
  IN  /\ At(r, "hash") /\ u \notin registered
      /\ registered' = registered \cup {u}
      /\ \E p \in Projects : InsertProject(p, u)
      /\ Goto(r, "startSession")
      /\ UNCHANGED <<session, key, job>>

StartSession(r) ==
  LET u == req[r].user
  IN  /\ At(r, "startSession") /\ session[u] < MaxSessions
      /\ session' = [session EXCEPT ![u] = @ + 1]
      /\ Done(r)
      /\ UNCHANGED <<registered, key, project, job>>

\* Logging out deletes the cookie's session; or its time is over.
SessionEnds(u) ==
  /\ session[u] > 0
  /\ session' = [session EXCEPT ![u] = @ - 1]
  /\ UNCHANGED <<registered, key, project, job, req>>

-----------------------------------------------------------------------------
(* API keys: routes/keys.ts.                                               *)

\* Mutant: one key more than the limit.
CountKeysAbove(r) ==
  /\ At(r, "createKey")
  /\ IF Cardinality(Owned(key, req[r].user)) > MaxActiveKeys THEN Done(r) ELSE Goto(r, "insertKey")
  /\ UNCHANGED <<registered, session, key, project, job>>

CountKeys(r) ==
  /\ At(r, "createKey")
  /\ IF Cardinality(Owned(key, req[r].user)) >= MaxActiveKeys THEN Done(r) ELSE Goto(r, "insertKey")
  /\ UNCHANGED <<registered, session, key, project, job>>

InsertKey(r) ==
  /\ At(r, "insertKey")
  /\ \E k \in Fresh(key) : key' = [key EXCEPT ![k] = NewRow(req[r].user)]
  /\ Done(r)
  /\ UNCHANGED <<registered, session, project, job>>

\* Mutant: the key is found by its id alone.
RevokeKeyOfAnyone(r) ==
  /\ At(r, "revokeKey")
  /\ key' = [key EXCEPT ![req[r].id].state = "revoked"]
  /\ Done(r)
  /\ UNCHANGED <<registered, session, project, job>>

RevokeKey(r) ==
  LET k == req[r].id
  IN  /\ At(r, "revokeKey")
      /\ key' = IF k \in Owned(key, req[r].user) THEN [key EXCEPT ![k].state = "revoked"] ELSE key
      /\ Done(r)
      /\ UNCHANGED <<registered, session, project, job>>

-----------------------------------------------------------------------------
(* Projects: routes/projects.ts.                                           *)

CreateProject(r) ==
  /\ At(r, "createProject")
  /\ \E p \in Projects : InsertProject(p, req[r].user)
  /\ Done(r)
  /\ UNCHANGED <<registered, session, key, job>>

\* The rows of its jobs go with the project; ResultStore has the blobs.
DeleteProject(r) ==
  LET p == req[r].id
  IN  /\ At(r, "deleteProject")
      /\ IF p \in Owned(project, req[r].user)
         THEN /\ project' = [project EXCEPT ![p] = DeletedRow]
              /\ job' = [j \in Jobs |-> IF job[j].project = p THEN DeletedJob ELSE job[j]]
         ELSE UNCHANGED <<project, job>>
      /\ Done(r)
      /\ UNCHANGED <<registered, session, key>>

-----------------------------------------------------------------------------
(* Jobs: JobService.create.                                                *)

\* The project that was named, or the oldest of the user's; which one of
\* several that is, is left open.
FindProject(r) ==
  LET mine == Owned(project, req[r].user)
      id   == req[r].id
  IN  /\ At(r, "findProject")
      /\ \/ id \in mine /\ Goto(r, "countActive")
         \/ id = NULL /\ \E p \in mine : req' = [req EXCEPT ![r].at = "countActive", ![r].id = p]
         \/ id = NULL /\ mine = {} /\ Goto(r, "defaultProject")
         \/ id # NULL /\ id \notin mine /\ Done(r)
      /\ UNCHANGED <<registered, session, key, project, job>>

DefaultProject(r) ==
  /\ At(r, "defaultProject")
  /\ \E p \in Projects :
       /\ InsertProject(p, req[r].user)
       /\ req' = [req EXCEPT ![r].at = "countActive", ![r].id = p]
  /\ UNCHANGED <<registered, session, key, job>>

Options == [b \in Bodies |-> Normalize(b.type, b.input, Limits, Policy, Answer)]

\* The body that came with the request matters from here on: its schema, then
\* its target and options are checked, and the active jobs counted.
CountActive(r) ==
  /\ At(r, "countActive")
  /\ \E b \in Bodies :
       IF /\ MatchesSchema(b.type, b.input) /\ Options[b].code = "ok"
          /\ Cardinality(ActiveJobs(req[r].user)) < MaxActiveJobs
       THEN req' = [req EXCEPT ![r].at = "insertJob", ![r].body = b] ELSE Done(r)
  /\ UNCHANGED <<registered, session, key, project, job>>

\* Mutant: the foreign key is on the id of the project alone.
InsertJobAnyProject(r) ==
  /\ At(r, "insertJob")
  /\ \E j \in Jobs :
       /\ job[j] = NoJob
       /\ job' = [job EXCEPT ![j] = [owner |-> req[r].user, project |-> req[r].id,
                                     body |-> req[r].body, status |-> "active"]]
  /\ Done(r)
  /\ UNCHANGED <<registered, session, key, project>>

\* The foreign key (project_id, user_id): the project is still the user's.
InsertJob(r) ==
  LET u == req[r].user
      p == req[r].id
  IN  /\ At(r, "insertJob") /\ p \in Owned(project, u)
      /\ \E j \in Jobs :
           /\ job[j] = NoJob
           /\ job' = [job EXCEPT ![j] = [owner |-> u, project |-> p, body |-> req[r].body, status |-> "active"]]
      /\ Done(r)
      /\ UNCHANGED <<registered, session, key, project>>

\* Completed, failed or cancelled: see JobLifecycle.
EndJob(j) ==
  /\ job[j].status = "active"
  /\ job' = [job EXCEPT ![j].status = "ended"]
  /\ UNCHANGED <<registered, session, key, project, req>>

-----------------------------------------------------------------------------
Next ==
  \/ \E r \in Requests :
       \/ AdmitSignup(r) \/ AdmitLogin(r) \/ AdmitCreateKey(r) \/ AdmitRevokeKey(r)
       \/ AdmitCreateProject(r) \/ AdmitDeleteProject(r) \/ AdmitCreateJob(r) \/ Fail500(r)
       \/ SignupFindByEmail(r) \/ SignupInsert(r) \/ StartSession(r)
       \/ CountKeys(r) \/ InsertKey(r) \/ RevokeKey(r)
       \/ CreateProject(r) \/ DeleteProject(r)
       \/ FindProject(r) \/ DefaultProject(r) \/ CountActive(r) \/ InsertJob(r)
  \/ \E u \in Users : SessionEnds(u)
  \/ \E j \in Jobs : EndJob(j)

Spec == Init /\ [][Next]_vars

-----------------------------------------------------------------------------
\* The types of the variables, with the foreign keys of the tables: every row
\* belongs to a registered user, and a job's project to the owner of the job
\* for as long as both are there.
TypeOK ==
  /\ registered \subseteq Users
  /\ session \in [Users -> 0..MaxSessions] /\ key \in [Keys -> KeyRows] /\ project \in [Projects -> ProjectRows]
  /\ job \in [Jobs -> JobRows]
  /\ req \in [Requests -> [at : Steps \cup {"idle"}, user : Users \cup {NULL},
                           id : Keys \cup Projects \cup {NULL}, body : Bodies \cup {NULL}]]
  /\ \A table \in {key, project} : \A id \in DOMAIN table : table[id].owner \in registered \cup {NULL}
  /\ \A j \in Jobs : job[j].status \in {"active", "ended"} => job[j].project \in Owned(project, job[j].owner)

\* The requests that were found to be below a limit and have yet to insert.
Counted(u, step) == {r \in Requests : At(r, step) /\ req[r].user = u}

\* A limit that is counted before the insert can be exceeded, but by no more
\* than the requests that run at the same time, however often they repeat it:
\* keys.ts:25 and jobs.ts:176.
LimitsOverrunBounded ==
  \A u \in Users :
    /\ Cardinality(Owned(key, u)) + Cardinality(Counted(u, "insertKey"))
         < MaxActiveKeys + Cardinality(Requests)
    /\ Cardinality(ActiveJobs(u)) + Cardinality(Counted(u, "insertJob"))
         < MaxActiveJobs + Cardinality(Requests)

\* A body that is taken can be done: timeouts, pages and depth are within the
\* limits of the server, half of the timeout is left after the wait in every
\* variant of the request to the engine, and a crawl stays on the site it was
\* started on, below it only if that was asked for (or its host is written with
\* a dot at the end or in brackets, which makes it look like a subdomain).
Doable(b, o) ==
  LET url   == b.input.url
      crawl == CrawlBody(url, o, FALSE)
  IN  /\ o.timeoutMs \in 1000..Limits.maxScrapeTimeoutMs /\ o.formats # {}
      /\ 2 * o.waitForMs <= o.timeoutMs
      /\ \A noJs \in BOOLEAN, try \in {o, RetryOptions(o)} :
           LET asked == ScrapeOptions(try, noJs)
           IN  2 * asked.waitFor <= asked.timeout /\ (asked.fastMode => asked.waitFor = 0)
      /\ b.type = "crawl" =>
           /\ crawl.limit \in 1..Limits.maxCrawlPages /\ crawl.maxDiscoveryDepth <= Limits.maxCrawlDepth
           /\ "branding" \notin o.formats
           /\ Within(NormalizeHostname(url.host), o.allowedDomain)
           /\ crawl.allowSubdomains =>
                \/ Or(b.input, "allow_subdomains", FALSE)
                \/ IsStrictSuffix(o.allowedDomain.labels, url.host.labels)
                \/ url.host # NormalizeHostname(url.host)
Fits == [b \in Bodies |-> Doable(b, Options[b].value)]

StoredOptionsFit == \A j \in Jobs : job[j].body # NULL => Fits[job[j].body]

\* A request of u ends with this step.
By(u) == \E r \in Requests : req[r].user = u /\ req'[r] = Idle

\* What a step may do to the rows that are there: a key is revoked and a project
\* deleted, with its jobs, by a request of their owner; jobs end by themselves.
KeysKept ==
  \A k \in Keys : key[k] # NoRow /\ key'[k] # key[k] =>
    key[k].state = "live" /\ key'[k] = [key[k] EXCEPT !.state = "revoked"] /\ By(key[k].owner)
ProjectsKept ==
  \A p \in Projects : project[p] # NoRow /\ project'[p] # project[p] =>
    project'[p] = DeletedRow /\ By(project[p].owner)
JobsKept ==
  \A j \in Jobs : job[j] # NoJob /\ job'[j] # job[j] =>
    \/ job[j].status = "active" /\ job'[j] = [job[j] EXCEPT !.status = "ended"]
    \/ job'[j] = DeletedJob /\ By(job[j].owner)

\* Nobody's key, project or job changes hands, comes back or is touched by a
\* request of another user, whatever ids the requests name.
OwnersOnly == [][KeysKept /\ ProjectsKept /\ JobsKept]_vars
==============================================================================
