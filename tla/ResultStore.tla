----------------------------- MODULE ResultStore -----------------------------
(***************************************************************************)
(* results.ts, object-storage.ts and the routes around them, for the jobs  *)
(* of one project: a page's body goes to object storage and its metadata   *)
(* to a row of results, in two steps that no transaction joins; deleting   *)
(* the project removes rows and blobs in turn; clients read a job's rows   *)
(* page by page, by offset, while it grows.  A writer is one execution of  *)
(* persistPage: its random id names both the blob and the row.             *)
(***************************************************************************)
EXTENDS Naturals, FiniteSets, Sequences, SequencesExt

CONSTANTS
  Job,       \* jobs of the project
  Writer,    \* executions of persistPage
  JobOf,     \* the job a writer stores a page of
  UrlOf,     \* and the page's URL
  PageSize,  \* rows a listing request returns at most: limit, or 100 in an export
  Faults     \* what may go wrong, see Disturbance

\* "storage": a call of the object storage rejects; "crash": a process dies.
Disturbance == {"storage", "crash"}

ASSUME ConstantsAssumption ==
  /\ IsFiniteSet(Writer) /\ IsFiniteSet(Job) /\ Job # {}
  /\ JobOf \in [Writer -> Job]
  /\ PageSize \in Nat \ {0}
  /\ Faults \subseteq Disturbance

VARIABLES
  live,     \* the project's row exists
  jobs,     \* rows of jobs
  rows,     \* committed rows of results, by the writer that inserted them
  before,   \* which of the rows inserted or being inserted come before one, by
            \* results.created_at
  blobs,    \* objects in the storage
  keyed,    \* writers whose page has a body: storage_key is not null
  pc,       \* what each writer is about to do, or how it ended
  deletion, \* DELETE /api/projects/:id
  reader    \* a client reading one job's results; late: when it read its latest
            \* page, the job was gone

vars == <<live, jobs, rows, before, blobs, keyed, pc, deletion, reader>>

-----------------------------------------------------------------------------
\* How persistPage ends: true; false; false with its blob left; the foreign
\* key's error; another error or a crash.
Ended == {"stored", "duplicate", "leaked", "rejected", "failed"}
WriterState == {"idle", "fetched", "prepared", "inserting", "discarding"} \cup Ended

JobBlobs(j) == {w \in blobs : JobOf[w] = j}
JobRows(j) == {w \in rows : JobOf[w] = j}
SameKey(v, w) == JobOf[v] = JobOf[w] /\ UrlOf[v] = UrlOf[w]

\* How many rows ORDER BY created_at, id lists before one.
Position(w) == Cardinality(JobRows(JobOf[w]) \cap before[w])

NoReader == [pc |-> "idle", job |-> CHOOSE j \in Job : TRUE, kind |-> "export",
             offset |-> 0, seen |-> <<>>, base |-> {}, late |-> FALSE]

Init ==
  /\ live = TRUE
  /\ jobs = {} /\ rows = {} /\ before = [w \in Writer |-> {}] /\ blobs = {} /\ keyed = {}
  /\ pc = [w \in Writer |-> "idle"]
  /\ deletion = [pc |-> "idle", listed |-> {}, left |-> {}, failed |-> FALSE]
  /\ reader = NoReader

Goto(w, s) == pc' = [pc EXCEPT ![w] = s]
Without(gone) == [w \in Writer |-> IF w \in gone THEN {} ELSE before[w] \ gone]

-----------------------------------------------------------------------------
(* Jobs and persistPage.                                                   *)

\* jobs.insert: its foreign key needs the project.
CreateJob(j) ==
  /\ live /\ j \notin jobs
  /\ jobs' = jobs \cup {j}
  /\ UNCHANGED <<live, rows, before, blobs, keyed, pc, deletion, reader>>

\* The engine has delivered a page.  The task that stores it holds the job it
\* read earlier: from here on nothing looks whether the job still exists.
Fetch(w) ==
  /\ pc[w] = "idle" /\ JobOf[w] \in jobs
  /\ Goto(w, "fetched")
  /\ UNCHANGED <<live, jobs, rows, before, blobs, keyed, deletion, reader>>

\* Mutant: the row is inserted first and the body stored after it.
PutBodyLater(w) ==
  /\ \/ pc[w] = "fetched" /\ Goto(w, "prepared") /\ keyed' = keyed \cup {w} /\ UNCHANGED blobs
     \/ /\ pc[w] = "stored" /\ w \in keyed \ blobs
        /\ blobs' = blobs \cup {w}
        /\ UNCHANGED <<pc, keyed>>
  /\ UNCHANGED <<live, jobs, rows, before, deletion, reader>>

\* storage.put, write-then-rename.
PutBody(w) ==
  /\ pc[w] = "fetched"
  /\ blobs' = blobs \cup {w} /\ keyed' = keyed \cup {w}
  /\ Goto(w, "prepared")
  /\ UNCHANGED <<live, jobs, rows, before, deletion, reader>>

\* A page without content has no body.
SkipBody(w) ==
  /\ pc[w] = "fetched"
  /\ Goto(w, "prepared")
  /\ UNCHANGED <<live, jobs, rows, before, blobs, keyed, deletion, reader>>

PutFails(w) ==
  /\ "storage" \in Faults /\ pc[w] = "fetched"
  /\ Goto(w, "failed")
  /\ UNCHANGED <<live, jobs, rows, before, blobs, keyed, deletion, reader>>

\* INSERT INTO results begins: now() is the time of its transaction's start.
InsertStart(w) ==
  /\ pc[w] = "prepared"
  /\ before' = [before EXCEPT ![w] = {v \in Writer : v \in rows \/ pc[v] = "inserting"}]
  /\ Goto(w, "inserting")
  /\ UNCHANGED <<live, jobs, rows, blobs, keyed, deletion, reader>>

\* And commits: the job's row exists and no row has its (job_id, url).
InsertCommit(w) ==
  /\ pc[w] = "inserting"
  /\ JobOf[w] \in jobs /\ ~ \E v \in rows : SameKey(v, w)
  /\ rows' = rows \cup {w}
  /\ Goto(w, "stored")
  /\ UNCHANGED <<live, jobs, before, blobs, keyed, deletion, reader>>

\* Mutant: the blob of a page that lost is not removed.
InsertConflictKept(w) ==
  /\ pc[w] = "inserting"
  /\ \E v \in rows : SameKey(v, w)
  /\ Goto(w, "duplicate")
  /\ before' = Without({w})
  /\ UNCHANGED <<live, jobs, rows, blobs, keyed, deletion, reader>>

\* ON CONFLICT DO NOTHING returned no row.
InsertConflict(w) ==
  /\ pc[w] = "inserting"
  /\ \E v \in rows : SameKey(v, w)
  /\ Goto(w, IF w \in keyed THEN "discarding" ELSE "duplicate")
  /\ before' = Without({w})
  /\ UNCHANGED <<live, jobs, rows, blobs, keyed, deletion, reader>>

\* The foreign key finds no job: persistPage throws, and leaves its blob.
InsertRejected(w) ==
  /\ pc[w] = "inserting" /\ JobOf[w] \notin jobs
  /\ Goto(w, "rejected")
  /\ before' = Without({w})
  /\ UNCHANGED <<live, jobs, rows, blobs, keyed, deletion, reader>>

\* Mutant: blobs are named after the URL, as if contentKey had no random id.
DiscardByUrl(w) ==
  /\ pc[w] = "discarding"
  /\ blobs' = {v \in blobs : ~SameKey(v, w)}
  /\ Goto(w, "duplicate")
  /\ UNCHANGED <<live, jobs, rows, before, keyed, deletion, reader>>

\* The loser removes its own blob; a failure to do so is swallowed.
Discard(w) ==
  /\ pc[w] = "discarding"
  /\ blobs' = blobs \ {w}
  /\ Goto(w, "duplicate")
  /\ UNCHANGED <<live, jobs, rows, before, keyed, deletion, reader>>

DiscardFails(w) ==
  /\ "storage" \in Faults /\ pc[w] = "discarding"
  /\ Goto(w, "leaked")
  /\ UNCHANGED <<live, jobs, rows, before, blobs, keyed, deletion, reader>>

\* The process dies, or the database call rejects.
Die(w) ==
  /\ "crash" \in Faults /\ pc[w] \notin Ended \cup {"idle"}
  /\ Goto(w, "failed")
  /\ before' = Without({w})
  /\ UNCHANGED <<live, jobs, rows, blobs, keyed, deletion, reader>>

-----------------------------------------------------------------------------
(* DELETE /api/projects/:id: list the jobs, delete the rows, remove blobs. *)

ListJobs ==
  /\ deletion.pc = "idle" /\ live
  /\ deletion' = [deletion EXCEPT !.pc = "listed", !.listed = jobs, !.left = jobs]
  /\ UNCHANGED <<live, jobs, rows, before, blobs, keyed, pc, reader>>

\* ON DELETE CASCADE takes the jobs and their results along.
DeleteRows ==
  /\ deletion.pc = "listed"
  /\ live' = FALSE /\ jobs' = {} /\ rows' = {}
  /\ before' = Without(rows)
  /\ deletion' = [deletion EXCEPT !.pc = "cleaning"]
  /\ UNCHANGED <<blobs, keyed, pc, reader>>

\* Mutant: blobs are removed while the rows still exist.
DeletePrefixFirst(j) ==
  /\ deletion.pc \in {"listed", "cleaning"} /\ j \in deletion.left
  /\ blobs' = blobs \ JobBlobs(j)
  /\ deletion' = [deletion EXCEPT !.left = @ \ {j}]
  /\ UNCHANGED <<live, jobs, rows, before, keyed, pc, reader>>

DeletePrefix(j) ==
  /\ deletion.pc = "cleaning" /\ j \in deletion.left
  /\ blobs' = blobs \ JobBlobs(j)
  /\ deletion' = [deletion EXCEPT !.left = @ \ {j}]
  /\ UNCHANGED <<live, jobs, rows, before, keyed, pc, reader>>

\* A prefix that cannot be removed is logged and left.
DeletePrefixFails(j) ==
  /\ "storage" \in Faults /\ deletion.pc = "cleaning" /\ j \in deletion.left
  /\ deletion' = [deletion EXCEPT !.left = @ \ {j}, !.failed = TRUE]
  /\ UNCHANGED <<live, jobs, rows, before, blobs, keyed, pc, reader>>

\* The process dies amid the clean-up; a second request finds no project.
DeletionDies ==
  /\ "crash" \in Faults /\ deletion.pc = "cleaning" /\ deletion.left # {}
  /\ deletion' = [deletion EXCEPT !.left = {}, !.failed = TRUE]
  /\ UNCHANGED <<live, jobs, rows, before, blobs, keyed, pc, reader>>

-----------------------------------------------------------------------------
(* A client reads a job's results: GET /jobs/:id/export, one request that   *)
(* pages by itself, or GET /jobs/:id/results, a request per page.  Each     *)
(* request looks the job up first, in a query of its own.                   *)

\* getJobOr404 of the first request.
StartReading(j, kind) ==
  /\ reader.pc = "idle" /\ j \in jobs
  /\ reader' = [reader EXCEPT !.pc = "reading", !.job = j, !.kind = kind, !.base = JobRows(j)]
  /\ UNCHANGED <<live, jobs, rows, before, blobs, keyed, pc, deletion>>

\* getJobOr404 of a listing's next request.
AskForMore ==
  /\ reader.pc = "asking"
  /\ reader' = [reader EXCEPT !.pc = IF reader.job \in jobs THEN "reading" ELSE "refused"]
  /\ UNCHANGED <<live, jobs, rows, before, blobs, keyed, pc, deletion>>

\* LIMIT PageSize OFFSET offset.
Page(offset) == {w \in JobRows(reader.job) : offset <= Position(w) /\ Position(w) < offset + PageSize}

\* Mutant: a full page is taken for the last.
LastPageEarly(offset, page) ==
  IF reader.kind = "export" THEN Cardinality(page) <= PageSize
  ELSE offset + Cardinality(page) >= Cardinality(JobRows(reader.job))

\* An export stops at a short page, a listing when next_offset is null.
LastPage(offset, page) ==
  IF reader.kind = "export" THEN Cardinality(page) < PageSize
  ELSE offset + Cardinality(page) >= Cardinality(JobRows(reader.job))

\* One page: listForJob looks only at rows of results, so when the job is gone it
\* finds none, which is like a last page.  The rows and their contents go out as
\* one step: a blob is read right after its row, and null is sent when it is gone.
ReadPage ==
  /\ reader.pc = "reading"
  /\ LET page == Page(reader.offset)
     IN reader' = [reader EXCEPT
          !.seen = Append(@, page),
          !.offset = @ + PageSize,
          !.late = reader.job \notin jobs,
          !.pc = CASE LastPage(reader.offset, page) -> "done"
                   [] reader.kind = "listing" -> "asking"
                   [] OTHER -> "reading"]
  /\ UNCHANGED <<live, jobs, rows, before, blobs, keyed, pc, deletion>>

-----------------------------------------------------------------------------
Persist(w) ==
  \/ Fetch(w) \/ PutBody(w) \/ SkipBody(w) \/ PutFails(w)
  \/ InsertStart(w) \/ InsertCommit(w) \/ InsertConflict(w) \/ InsertRejected(w)
  \/ Discard(w) \/ DiscardFails(w) \/ Die(w)

DeleteProject ==
  \/ ListJobs \/ DeleteRows \/ DeletionDies
  \/ \E j \in Job : DeletePrefix(j) \/ DeletePrefixFails(j)

Read ==
  \/ \E j \in Job, kind \in {"export", "listing"} : StartReading(j, kind)
  \/ AskForMore \/ ReadPage

Next ==
  \/ \E j \in Job : CreateJob(j)
  \/ \E w \in Writer : Persist(w)
  \/ DeleteProject
  \/ Read

Spec == Init /\ [][Next]_vars

-----------------------------------------------------------------------------
\* The types of what is stored and of where its writers and the deletion stand,
\* with the constraints of the tables: a result's job exists, and (job_id, url)
\* is unique.
TypeOK ==
  /\ \A w \in rows : JobOf[w] \in jobs /\ \A v \in rows : SameKey(v, w) => v = w
  /\ live \in BOOLEAN /\ jobs \subseteq Job
  /\ rows \subseteq Writer /\ blobs \subseteq Writer /\ keyed \subseteq Writer
  /\ pc \in [Writer -> WriterState]
  /\ deletion \in [pc : {"idle", "listed", "cleaning"}, listed : SUBSET Job,
                   left : SUBSET Job, failed : BOOLEAN]

\* A row with a storage_key has its object: whatever duplicates, failures and
\* deletions do, a result that can be found can be read.  This rests on put
\* before insert, on blobs of their own for duplicates, and on deleting rows
\* before blobs.
RowHasBlob == rows \cap keyed \subseteq blobs

\* While the project exists, an object without a row belongs to a writer that
\* is still at work, or to one that a failure stopped: no regular outcome of
\* persistPage leaves an object behind.
NothingLeftBehind ==
  live => \A w \in blobs \ rows : pc[w] \notin {"stored", "duplicate", "rejected"}

\* After a deletion that cleaned up without error, no object is left of any
\* page that was ever stored for a job the deletion had listed, nor of a
\* duplicate of one.  (A writer that finds its job gone does leave its object.)
DeletedResultsAreGone ==
  deletion.pc = "cleaning" /\ deletion.left = {} /\ ~deletion.failed =>
    \A w \in blobs : JobOf[w] \in deletion.listed => pc[w] \notin {"stored", "duplicate"}

\* A client that read to the last page has every row that existed when it
\* began, although rows are inserted, and become visible out of the order of
\* their created_at, between its pages; and when no row came in meanwhile it has
\* each row once, in order.  The exception: an export whose project is deleted
\* midway, and a listing whose project is deleted between the two queries of a
\* request, get an empty page and end as if they were complete.
ReadingMissesNothing ==
  reader.pc = "done" /\ ~reader.late =>
    /\ reader.base \subseteq UNION Range(reader.seen)
    /\ live /\ JobRows(reader.job) = reader.base =>
         \A i, k \in DOMAIN reader.seen : i < k =>
           \A v \in reader.seen[i], w \in reader.seen[k] : v \in before[w]
==============================================================================
