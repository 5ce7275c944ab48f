---------------------------- MODULE Accounts_proofs ----------------------------
(***************************************************************************)
(* What holds of Accounts for any number of users, rows and concurrent     *)
(* requests and for any limits: the foreign keys, whose rows a request can *)
(* touch, and by how much a limit can be exceeded.  Then, what holds of    *)
(* the Dashboard that sends most of these requests: the form, what the API *)
(* takes of it, and the page of a job.                                     *)
(***************************************************************************)
EXTENDS Accounts, Dashboard, FiniteSetTheorems, TLAPS

Req == [at : Steps \cup {"idle"}, user : Users \cup {NULL},
        id : Keys \cup Projects \cup {NULL}, body : Bodies \cup {NULL}]

\* A request runs for a user, who is registered unless it is about to register
\* them; the body it inserts is one that was sent.
Pending(r) ==
  /\ req[r].at # "idle" => req[r].user \in Users
  /\ req[r].at \notin {"idle", "signup", "hash"} => req[r].user \in registered
  /\ req[r].at = "insertJob" => req[r].body \in Bodies

Known == \A u \in Users : session[u] > 0 => u \in registered

IInv == TypeOK /\ (\A r \in Requests : Pending(r)) /\ Known /\ LimitsOverrunBounded

-----------------------------------------------------------------------------
(* What a step does to the requests.                                       *)

LEMMA GotoReq ==
  ASSUME req \in [Requests -> Req], NEW r \in Requests, NEW step \in Steps, Goto(r, step)
  PROVE  /\ req' \in [Requests -> Req]
         /\ req'[r].at = step /\ req'[r].user = req[r].user
         /\ req'[r].id = req[r].id /\ req'[r].body = req[r].body
         /\ \A b \in Requests \ {r} : req'[b] = req[b]
BY DEF Goto, Req

LEMMA FoundReq ==
  ASSUME req \in [Requests -> Req], NEW r \in Requests, NEW p \in Projects,
         req' = [req EXCEPT ![r].at = "countActive", ![r].id = p]
  PROVE  /\ req' \in [Requests -> Req] /\ req'[r].at = "countActive" /\ req'[r].user = req[r].user
         /\ \A b \in Requests \ {r} : req'[b] = req[b]
<1> DEFINE row == [req[r] EXCEPT !.at = "countActive", !.id = p]
<1>1. req' = [req EXCEPT ![r] = row]
  OBVIOUS
<1>2. row \in Req /\ row.at = "countActive" /\ row.user = req[r].user
  <2>1. req[r] \in Req
    OBVIOUS
  <2> QED BY <2>1 DEF Req, Steps
<1> HIDE DEF row
<1> QED BY <1>1, <1>2

LEMMA DoneReq ==
  ASSUME req \in [Requests -> Req], NEW r \in Requests, Done(r)
  PROVE  /\ req' \in [Requests -> Req] /\ req'[r] = Idle /\ req'[r].at = "idle"
         /\ \A b \in Requests \ {r} : req'[b] = req[b]
BY DEF Done, Req, Idle

LEMMA AdmitReq ==
  ASSUME req \in [Requests -> Req], NEW r \in Requests, NEW step \in Steps,
         NEW users \in SUBSET Users, NEW ids \in SUBSET (Keys \cup Projects \cup {NULL}),
         Admit(r, step, users, ids)
  PROVE  /\ req' \in [Requests -> Req] /\ req'[r].at = step /\ req'[r].user \in users
         /\ \A b \in Requests \ {r} : req'[b] = req[b]
         /\ UNCHANGED <<registered, session, key, project, job>>
<1>1. PICK u \in users : \E id \in ids : req' = [req EXCEPT ![r] = [Idle EXCEPT !.at = step, !.user = u, !.id = id]]
  BY DEF Admit
<1>2. PICK id \in ids : req' = [req EXCEPT ![r] = [Idle EXCEPT !.at = step, !.user = u, !.id = id]]
  BY <1>1
<1> DEFINE row == [Idle EXCEPT !.at = step, !.user = u, !.id = id]
<1>3. row \in Req /\ row.at = step /\ row.user = u
  BY DEF Req, Idle
<1>4. req' = [req EXCEPT ![r] = row]
  BY <1>2
<1> HIDE DEF row
<1> QED BY <1>3, <1>4 DEF Admit

-----------------------------------------------------------------------------
(* The limits.                                                             *)

LEMMA Sizes ==
  ASSUME NEW S, NEW T, IsFiniteSet(T), S \subseteq T
  PROVE  IsFiniteSet(S) /\ Cardinality(S) \in Nat /\ Cardinality(T) \in Nat /\ Cardinality(S) <= Cardinality(T)
BY FS_Subset, FS_CardinalityType

\* A step that adds no row for u, and no request that has counted, keeps the bound.
LEMMA Shrinks ==
  ASSUME NEW rows, NEW rows1, NEW counted, NEW counted1, NEW n \in Nat,
         IsFiniteSet(rows), IsFiniteSet(counted), rows1 \subseteq rows, counted1 \subseteq counted,
         Cardinality(rows) + Cardinality(counted) < n
  PROVE  Cardinality(rows1) + Cardinality(counted1) < n
<1>1. /\ Cardinality(rows1) \in Nat /\ Cardinality(rows) \in Nat /\ Cardinality(rows1) <= Cardinality(rows)
      /\ Cardinality(counted1) \in Nat /\ Cardinality(counted) \in Nat
      /\ Cardinality(counted1) <= Cardinality(counted)
  BY Sizes
<1> QED BY <1>1

\* A request that was counted below the limit: there were fewer rows than it allows,
\* and there are no more requests than there are.
LEMMA BelowLimit ==
  ASSUME NEW rows, NEW T, IsFiniteSet(T), rows \subseteq T, NEW limit \in Nat, Cardinality(rows) < limit,
         NEW counted \in SUBSET Requests
  PROVE  Cardinality(rows) + Cardinality(counted) < limit + Cardinality(Requests)
<1>1. Cardinality(rows) \in Nat /\ IsFiniteSet(Requests)
  BY Sizes, LimitsAssumption
<1>2. /\ Cardinality(counted) \in Nat /\ Cardinality(Requests) \in Nat
      /\ Cardinality(counted) <= Cardinality(Requests)
  BY <1>1, Sizes
<1> QED BY <1>1, <1>2

\* The request that inserts makes one row more, and is one fewer that has counted.
LEMMA OneMore ==
  ASSUME NEW rows, NEW id, NEW rows1, IsFiniteSet(rows), rows1 \subseteq rows \cup {id}
  PROVE  /\ Cardinality(rows) \in Nat /\ Cardinality(rows1) \in Nat
         /\ Cardinality(rows1) <= Cardinality(rows) + 1
<1>1. /\ IsFiniteSet(rows \cup {id}) /\ Cardinality(rows \cup {id}) \in Nat /\ Cardinality(rows) \in Nat
      /\ Cardinality(rows \cup {id}) <= Cardinality(rows) + 1
  <2>1. /\ IsFiniteSet(rows \cup {id})
        /\ Cardinality(rows \cup {id}) = IF id \in rows THEN Cardinality(rows) ELSE Cardinality(rows) + 1
    BY FS_AddElement
  <2>2. Cardinality(rows) \in Nat /\ Cardinality(rows \cup {id}) \in Nat
    BY <2>1, FS_CardinalityType
  <2> QED BY <2>1, <2>2
<1>2. Cardinality(rows1) \in Nat /\ Cardinality(rows1) <= Cardinality(rows \cup {id})
  BY <1>1, Sizes
<1> QED BY <1>1, <1>2

LEMMA OneFewer ==
  ASSUME NEW counted, NEW r \in counted, NEW counted1, IsFiniteSet(counted), counted1 \subseteq counted \ {r}
  PROVE  /\ Cardinality(counted) \in Nat /\ Cardinality(counted1) \in Nat
         /\ Cardinality(counted1) + 1 <= Cardinality(counted)
<1>1. /\ IsFiniteSet(counted \ {r}) /\ Cardinality(counted \ {r}) \in Nat /\ Cardinality(counted) \in Nat
      /\ Cardinality(counted \ {r}) = Cardinality(counted) - 1
  BY FS_RemoveElement, FS_CardinalityType
<1>2. Cardinality(counted1) \in Nat /\ Cardinality(counted1) <= Cardinality(counted \ {r})
  BY <1>1, Sizes
<1> QED BY <1>1, <1>2

LEMMA Finite ==
  ASSUME IInv, NEW u \in Users
  PROVE  /\ IsFiniteSet(Owned(key, u)) /\ IsFiniteSet(ActiveJobs(u))
         /\ IsFiniteSet(Counted(u, "insertKey")) /\ IsFiniteSet(Counted(u, "insertJob"))
         /\ MaxActiveKeys + Cardinality(Requests) \in Nat /\ MaxActiveJobs + Cardinality(Requests) \in Nat
<1>1. /\ Owned(key, u) \subseteq Keys /\ ActiveJobs(u) \subseteq Jobs
      /\ Counted(u, "insertKey") \subseteq Requests /\ Counted(u, "insertJob") \subseteq Requests
  BY DEF IInv, TypeOK, Owned, ActiveJobs, Counted
<1> QED BY <1>1, LimitsAssumption, FS_Subset, FS_CardinalityType

LEMMA KeysShrink ==
  ASSUME IInv, NEW u \in Users, Owned(key, u)' \subseteq Owned(key, u),
         Counted(u, "insertKey")' \subseteq Counted(u, "insertKey")
  PROVE  Cardinality(Owned(key, u))' + Cardinality(Counted(u, "insertKey"))'
           < MaxActiveKeys + Cardinality(Requests)
BY Finite, Shrinks DEF IInv, LimitsOverrunBounded

LEMMA JobsShrink ==
  ASSUME IInv, NEW u \in Users, ActiveJobs(u)' \subseteq ActiveJobs(u),
         Counted(u, "insertJob")' \subseteq Counted(u, "insertJob")
  PROVE  Cardinality(ActiveJobs(u))' + Cardinality(Counted(u, "insertJob"))'
           < MaxActiveJobs + Cardinality(Requests)
BY Finite, Shrinks DEF IInv, LimitsOverrunBounded

LEMMA KeyInserted ==
  ASSUME IInv, NEW u \in Users, NEW k, NEW r \in Counted(u, "insertKey"),
         Owned(key, u)' \subseteq Owned(key, u) \cup {k},
         Counted(u, "insertKey")' \subseteq Counted(u, "insertKey") \ {r}
  PROVE  Cardinality(Owned(key, u))' + Cardinality(Counted(u, "insertKey"))'
           < MaxActiveKeys + Cardinality(Requests)
<1> DEFINE rows == Owned(key, u)
           counted == Counted(u, "insertKey")
           n == MaxActiveKeys + Cardinality(Requests)
<1>1. IsFiniteSet(rows) /\ IsFiniteSet(counted) /\ n \in Nat
  BY Finite
<1>2. Cardinality(rows) + Cardinality(counted) < n
  BY DEF IInv, LimitsOverrunBounded
<1>3. rows' \subseteq rows \cup {k} /\ counted' \subseteq counted \ {r} /\ r \in counted
  OBVIOUS
<1> HIDE DEF rows, counted, n
<1>4. /\ Cardinality(rows) \in Nat /\ Cardinality(rows') \in Nat
      /\ Cardinality(rows') <= Cardinality(rows) + 1
  BY <1>1, <1>3, OneMore
<1>5. /\ Cardinality(counted) \in Nat /\ Cardinality(counted') \in Nat
      /\ Cardinality(counted') + 1 <= Cardinality(counted)
  BY <1>1, <1>3, OneFewer
<1>6. Cardinality(rows') + Cardinality(counted') < n
  BY <1>1, <1>2, <1>4, <1>5
<1> QED BY <1>6 DEF rows, counted, n

LEMMA JobInserted ==
  ASSUME IInv, NEW u \in Users, NEW j, NEW r \in Counted(u, "insertJob"),
         ActiveJobs(u)' \subseteq ActiveJobs(u) \cup {j},
         Counted(u, "insertJob")' \subseteq Counted(u, "insertJob") \ {r}
  PROVE  Cardinality(ActiveJobs(u))' + Cardinality(Counted(u, "insertJob"))'
           < MaxActiveJobs + Cardinality(Requests)
<1> DEFINE rows == ActiveJobs(u)
           counted == Counted(u, "insertJob")
           n == MaxActiveJobs + Cardinality(Requests)
<1>1. IsFiniteSet(rows) /\ IsFiniteSet(counted) /\ n \in Nat
  BY Finite
<1>2. Cardinality(rows) + Cardinality(counted) < n
  BY DEF IInv, LimitsOverrunBounded
<1>3. rows' \subseteq rows \cup {j} /\ counted' \subseteq counted \ {r} /\ r \in counted
  OBVIOUS
<1> HIDE DEF rows, counted, n
<1>4. /\ Cardinality(rows) \in Nat /\ Cardinality(rows') \in Nat
      /\ Cardinality(rows') <= Cardinality(rows) + 1
  BY <1>1, <1>3, OneMore
<1>5. /\ Cardinality(counted) \in Nat /\ Cardinality(counted') \in Nat
      /\ Cardinality(counted') + 1 <= Cardinality(counted)
  BY <1>1, <1>3, OneFewer
<1>6. Cardinality(rows') + Cardinality(counted') < n
  BY <1>1, <1>2, <1>4, <1>5
<1> QED BY <1>6 DEF rows, counted, n

-----------------------------------------------------------------------------
(* The invariant.                                                          *)

LEMMA InitIInv == Init => IInv
<1> SUFFICES ASSUME Init PROVE IInv
  OBVIOUS
<1>1. TypeOK
  BY LimitsAssumption DEF Init, TypeOK, KeyRows, ProjectRows, JobRows, NoRow, NoJob, Idle
<1>2. (\A r \in Requests : Pending(r)) /\ Known
  BY DEF Init, Pending, Known, Idle
<1>3. ASSUME NEW u \in Users
      PROVE  /\ Owned(key, u) = {} /\ ActiveJobs(u) = {}
             /\ Counted(u, "insertKey") = {} /\ Counted(u, "insertJob") = {}
  BY DEF Init, Owned, ActiveJobs, Counted, At, NoRow, NoJob, Idle
<1>4. /\ Cardinality({}) = 0 /\ Cardinality(Requests) \in Nat
      /\ MaxActiveKeys \in Nat \ {0} /\ MaxActiveJobs \in Nat \ {0}
  BY LimitsAssumption, FS_EmptySet, FS_CardinalityType
<1>5. LimitsOverrunBounded
  BY <1>3, <1>4 DEF LimitsOverrunBounded
<1> QED BY <1>1, <1>2, <1>5 DEF IInv

\* The step of a request that neither counts nor inserts a key or a job.
LEMMA CountsNothing ==
  ASSUME IInv, TypeOK', Known', NEW r \in Requests, Pending(r)', registered \subseteq registered',
         \A b \in Requests \ {r} : req'[b] = req[b],
         req'[r].at \notin {"insertKey", "insertJob"},
         \A u \in Users : Owned(key, u)' \subseteq Owned(key, u) /\ ActiveJobs(u)' \subseteq ActiveJobs(u)
  PROVE  IInv'
<1>1. \A b \in Requests : Pending(b)'
  BY DEF IInv, Pending
<1>2. ASSUME NEW u \in Users
      PROVE  /\ Counted(u, "insertKey")' \subseteq Counted(u, "insertKey")
             /\ Counted(u, "insertJob")' \subseteq Counted(u, "insertJob")
  BY DEF Counted, At
<1>3. LimitsOverrunBounded'
  BY <1>2, KeysShrink, JobsShrink DEF LimitsOverrunBounded
<1> QED BY <1>1, <1>3 DEF IInv

LEMMA AdmitsIInv ==
  ASSUME IInv, NEW r \in Requests, NEW step \in Steps \ {"insertKey", "insertJob"}, NEW users \in SUBSET Users,
         NEW ids \in SUBSET (Keys \cup Projects \cup {NULL}), Admit(r, step, users, ids),
         step = "signup" \/ users \subseteq registered
  PROVE  IInv'
<1>1. req \in [Requests -> Req]
  BY DEF IInv, TypeOK, Req
<1>2. /\ req' \in [Requests -> Req] /\ req'[r].at = step /\ req'[r].user \in users
      /\ \A b \in Requests \ {r} : req'[b] = req[b]
      /\ UNCHANGED <<registered, session, key, project, job>>
  BY <1>1, AdmitReq
<1>3. TypeOK' /\ Known'
  BY <1>2 DEF IInv, TypeOK, Known, Req, Owned
<1>4. Pending(r)'
  BY <1>2 DEF Pending
<1> QED BY <1>2, <1>3, <1>4, CountsNothing DEF Owned, ActiveJobs

\* Only a registered user's credential is found.
LEMMA PrincipalsKnown == ASSUME IInv, NEW accept PROVE Principals(accept) \subseteq registered /\ registered \subseteq Users
<1>1. ASSUME NEW u \in Users, FindValid(u) PROVE u \in registered
  BY <1>1 DEF IInv, Known, FindValid
<1>2. ASSUME NEW u \in Users, FindActiveByPrefix(u) PROVE u \in registered
  <2>1. PICK k \in Owned(key, u) : TRUE
    BY <1>2 DEF FindActiveByPrefix
  <2>2. k \in DOMAIN key /\ key[k].owner = u
    BY <2>1 DEF Owned
  <2>3. key[k].owner \in registered \cup {NULL}
    BY <2>2 DEF IInv, TypeOK
  <2> QED BY <2>2, <2>3, NullAssumption
<1>3. registered \subseteq Users
  BY DEF IInv, TypeOK
<1> QED BY <1>1, <1>2, <1>3 DEF Principals

LEMMA AdmissionIInv ==
  ASSUME IInv, NEW r \in Requests,
         \/ AdmitSignup(r) \/ AdmitLogin(r) \/ AdmitCreateKey(r) \/ AdmitRevokeKey(r)
         \/ AdmitCreateProject(r) \/ AdmitDeleteProject(r) \/ AdmitCreateJob(r)
  PROVE  IInv'
<1>1. /\ Principals(SessionOnly) \in SUBSET Users /\ Principals(SessionOnly) \subseteq registered
      /\ Principals(AnyCredential) \in SUBSET Users /\ Principals(AnyCredential) \subseteq registered
      /\ registered \in SUBSET Users /\ Users \in SUBSET Users
  BY PrincipalsKnown, Zenon DEF Principals
<1>2. /\ {NULL} \in SUBSET (Keys \cup Projects \cup {NULL}) /\ Keys \in SUBSET (Keys \cup Projects \cup {NULL})
      /\ Projects \in SUBSET (Keys \cup Projects \cup {NULL})
      /\ Projects \cup {NULL} \in SUBSET (Keys \cup Projects \cup {NULL})
  OBVIOUS
<1>3. {"signup", "startSession", "createKey", "revokeKey", "createProject", "deleteProject", "findProject"}
        \subseteq Steps \ {"insertKey", "insertJob"}
  BY DEF Steps
<1>4. CASE AdmitSignup(r) \/ AdmitLogin(r)
  BY <1>1, <1>2, <1>3, <1>4, AdmitsIInv DEF AdmitSignup, AdmitLogin
<1>5. CASE AdmitCreateKey(r) \/ AdmitRevokeKey(r)
  BY <1>1, <1>2, <1>3, <1>5, AdmitsIInv DEF AdmitCreateKey, AdmitRevokeKey
<1>6. CASE AdmitCreateProject(r) \/ AdmitDeleteProject(r)
  BY <1>1, <1>2, <1>3, <1>6, AdmitsIInv DEF AdmitCreateProject, AdmitDeleteProject
<1>7. CASE AdmitCreateJob(r)
  BY <1>1, <1>2, <1>3, <1>7, AdmitsIInv DEF AdmitCreateJob
<1> QED BY <1>4, <1>5, <1>6, <1>7

\* A request that only moves on, to a step that does not count, or ends.
LEMMA StepsOn ==
  ASSUME IInv, NEW r \in Requests, UNCHANGED <<registered, session, key, project, job>>,
         req' \in [Requests -> Req], \A b \in Requests \ {r} : req'[b] = req[b],
         req'[r].at \notin {"insertKey", "insertJob"}, Pending(r)'
  PROVE  IInv'
<1>1. TypeOK' /\ Known'
  BY DEF IInv, TypeOK, Known, Req, Owned
<1> QED BY <1>1, CountsNothing DEF Owned, ActiveJobs

LEMMA TypedReq == ASSUME IInv PROVE req \in [Requests -> Req]
BY DEF IInv, TypeOK, Req

LEMMA LooksIInv ==
  ASSUME IInv, NEW r \in Requests, Fail500(r) \/ SignupFindByEmail(r) \/ FindProject(r)
  PROVE  IInv'
<1>1. req \in [Requests -> Req] /\ Pending(r) /\ {"hash", "countActive", "defaultProject"} \subseteq Steps
  BY TypedReq DEF IInv, Steps
<1>2. ASSUME Done(r), UNCHANGED <<registered, session, key, project, job>> PROVE IInv'
  BY <1>1, <1>2, DoneReq, StepsOn DEF Pending
<1>3. CASE SignupFindByEmail(r)
  <2>1. ASSUME Goto(r, "hash") PROVE IInv'
    <3>1. req[r].user \in Users
      BY <1>1, <1>3 DEF SignupFindByEmail, At, Pending
    <3>2. /\ req' \in [Requests -> Req] /\ req'[r].at = "hash" /\ req'[r].user = req[r].user
          /\ \A b \in Requests \ {r} : req'[b] = req[b]
      BY <1>1, <2>1, GotoReq
    <3>3. Pending(r)'
      BY <3>1, <3>2 DEF Pending
    <3> QED BY <1>3, <3>2, <3>3, StepsOn DEF SignupFindByEmail
  <2> QED BY <1>2, <1>3, <2>1 DEF SignupFindByEmail
<1>4. CASE FindProject(r)
  <2>1. req[r].user \in Users /\ req[r].user \in registered
    BY <1>1, <1>4 DEF FindProject, At, Pending
  <2>2. ASSUME NEW step \in {"countActive", "defaultProject"}, Goto(r, step) PROVE IInv'
    <3>1. /\ req' \in [Requests -> Req] /\ req'[r].at = step /\ req'[r].user = req[r].user
          /\ \A b \in Requests \ {r} : req'[b] = req[b]
      BY <1>1, <2>2, GotoReq
    <3>2. Pending(r)'
      BY <1>4, <2>1, <3>1 DEF Pending, FindProject
    <3> QED BY <1>4, <3>1, <3>2, StepsOn DEF FindProject
  <2>3. ASSUME NEW p \in Owned(project, req[r].user),
               req' = [req EXCEPT ![r].at = "countActive", ![r].id = p]
        PROVE  IInv'
    <3>1. p \in Projects
      BY DEF Owned, IInv, TypeOK
    <3>2. /\ req' \in [Requests -> Req] /\ req'[r].at = "countActive" /\ req'[r].user = req[r].user
          /\ \A b \in Requests \ {r} : req'[b] = req[b]
      BY <1>1, <2>3, <3>1, FoundReq
    <3>3. Pending(r)'
      BY <1>4, <2>1, <3>2 DEF Pending, FindProject
    <3> QED BY <1>4, <3>2, <3>3, StepsOn DEF FindProject
  <2> QED BY <1>2, <1>4, <2>2, <2>3 DEF FindProject
<1> QED BY <1>2, <1>3, <1>4 DEF Fail500

\* Users, sessions and projects.
LEMMA UsersIInv ==
  ASSUME IInv, NEW r \in Requests, SignupInsert(r) \/ StartSession(r)
  PROVE  IInv'
<1>1. req \in [Requests -> Req] /\ Pending(r) /\ {"startSession"} \subseteq Steps
  BY TypedReq DEF IInv, Steps
<1>2. CASE SignupInsert(r)
  <2> DEFINE u == req[r].user
  <2>1. u \in Users
    BY <1>1, <1>2 DEF SignupInsert, At, Pending
  <2>2. PICK p \in Projects : p \in Fresh(project) /\ project' = [project EXCEPT ![p] = NewRow(u)]
    BY <1>2 DEF SignupInsert, InsertProject
  <2>3. registered' = registered \cup {u} /\ UNCHANGED <<session, key, job>>
    BY <1>2 DEF SignupInsert
  <2>4. /\ req' \in [Requests -> Req] /\ req'[r].at = "startSession" /\ req'[r].user = u
        /\ \A b \in Requests \ {r} : req'[b] = req[b]
    BY <1>1, <1>2, GotoReq DEF SignupInsert
  <2> HIDE DEF u
  <2>5. NewRow(u) \in ProjectRows /\ NewRow(u).owner = u /\ NewRow(u).state = "live" /\ project[p] = NoRow
    BY <2>1, <2>2 DEF NewRow, ProjectRows, Fresh
  <2>6. \A b \in Users : Owned(project, b) \subseteq Owned(project, b)'
    BY <2>2, <2>5 DEF IInv, TypeOK, Owned, NoRow
  <2>7. \A j \in Jobs : job[j].status \in {"active", "ended"} => job[j].owner \in Users
    BY NullAssumption DEF IInv, TypeOK, JobRows, NoJob, DeletedJob
  <2>8. TypeOK'
    BY <2>1, <2>2, <2>3, <2>4, <2>5, <2>6, <2>7 DEF IInv, TypeOK, Req
  <2>9. Known' /\ Pending(r)'
    BY <2>1, <2>3, <2>4 DEF IInv, Known, Pending
  <2> QED BY <2>3, <2>4, <2>8, <2>9, CountsNothing DEF Owned, ActiveJobs
<1>3. CASE StartSession(r)
  <2> DEFINE u == req[r].user
  <2>1. u \in Users /\ u \in registered
    BY <1>1, <1>3 DEF StartSession, At, Pending
  <2>2. /\ session[u] < MaxSessions /\ session' = [session EXCEPT ![u] = @ + 1]
        /\ UNCHANGED <<registered, key, project, job>>
    BY <1>3 DEF StartSession
  <2>3. /\ req' \in [Requests -> Req] /\ req'[r].at = "idle" /\ \A b \in Requests \ {r} : req'[b] = req[b]
    BY <1>1, <1>3, DoneReq DEF StartSession
  <2> HIDE DEF u
  <2>4. session' \in [Users -> 0..MaxSessions]
    BY <2>1, <2>2, LimitsAssumption DEF IInv, TypeOK
  <2>5. TypeOK'
    BY <2>2, <2>3, <2>4 DEF IInv, TypeOK, Req, Owned
  <2>6. Known' /\ Pending(r)'
    BY <2>1, <2>2, <2>3 DEF IInv, TypeOK, Known, Pending
  <2> QED BY <2>2, <2>3, <2>5, <2>6, CountsNothing DEF Owned, ActiveJobs
<1> QED BY <1>2, <1>3

\* What is not the step of a request.
LEMMA ByThemselvesIInv ==
  ASSUME IInv, \/ \E u \in Users : SessionEnds(u)
               \/ \E j \in Jobs : EndJob(j)
               \/ UNCHANGED vars
  PROVE  IInv'
<1>1. ASSUME TypeOK', Known', UNCHANGED <<registered, key, req>>,
             \A u \in Users : ActiveJobs(u)' \subseteq ActiveJobs(u)
      PROVE  IInv'
  <2>1. ASSUME NEW u \in Users
        PROVE  /\ Owned(key, u)' = Owned(key, u) /\ Counted(u, "insertKey")' = Counted(u, "insertKey")
               /\ Counted(u, "insertJob")' = Counted(u, "insertJob")
    BY <1>1 DEF Owned, Counted, At
  <2>2. LimitsOverrunBounded'
    BY <1>1, <2>1, KeysShrink, JobsShrink DEF LimitsOverrunBounded
  <2>3. \A b \in Requests : Pending(b)'
    BY <1>1 DEF IInv, Pending
  <2> QED BY <1>1, <2>2, <2>3 DEF IInv
<1>2. ASSUME NEW u \in Users, SessionEnds(u) PROVE IInv'
  <2>1. session' \in [Users -> 0..MaxSessions] /\ \A b \in Users : session'[b] <= session[b]
    BY <1>2, LimitsAssumption DEF SessionEnds, IInv, TypeOK
  <2>2. UNCHANGED <<registered, key, project, job, req>>
    BY <1>2 DEF SessionEnds
  <2>3. TypeOK'
    BY <2>1, <2>2 DEF IInv, TypeOK, Owned
  <2>4. Known'
    <3>1. \A b \in Users : session[b] \in Nat /\ session'[b] \in Nat
      BY <2>1, LimitsAssumption DEF IInv, TypeOK
    <3> QED BY <2>1, <2>2, <3>1 DEF IInv, Known
  <2> QED BY <1>1, <2>2, <2>3, <2>4 DEF ActiveJobs
<1>3. ASSUME NEW j \in Jobs, EndJob(j) PROVE IInv'
  <2>1. UNCHANGED <<registered, session, key, project, req>>
    BY <1>3 DEF EndJob
  <2>2. job[j].status = "active" /\ job' = [job EXCEPT ![j].status = "ended"]
    BY <1>3 DEF EndJob
  <2>3. /\ job' \in [Jobs -> JobRows] /\ job'[j].status = "ended" /\ job'[j].owner = job[j].owner
        /\ job'[j].project = job[j].project /\ \A b \in Jobs \ {j} : job'[b] = job[b]
    BY <2>2 DEF IInv, TypeOK, JobRows, NoJob, DeletedJob
  <2>4. TypeOK'
    BY <2>1, <2>2, <2>3 DEF IInv, TypeOK, Owned
  <2>5. Known'
    BY <2>1 DEF IInv, Known
  <2>6. \A u \in Users : ActiveJobs(u)' \subseteq ActiveJobs(u)
    BY <2>3 DEF ActiveJobs
  <2> QED BY <1>1, <2>1, <2>4, <2>5, <2>6
<1>4. CASE UNCHANGED vars
  BY <1>1, <1>4 DEF vars, IInv, TypeOK, Known, Owned, ActiveJobs
<1> QED BY <1>2, <1>3, <1>4

\* Keys.
LEMMA KeysIInv ==
  ASSUME IInv, NEW r \in Requests, CountKeys(r) \/ InsertKey(r) \/ RevokeKey(r)
  PROVE  IInv'
<1>1. req \in [Requests -> Req] /\ Pending(r) /\ {"insertKey"} \subseteq Steps
  BY TypedReq DEF IInv, Steps
<1> DEFINE u == req[r].user
<1>2. u \in Users /\ u \in registered
  BY <1>1 DEF CountKeys, InsertKey, RevokeKey, At, Pending
<1>3. CASE CountKeys(r)
  <2>1. UNCHANGED <<registered, session, key, project, job>>
    BY <1>3 DEF CountKeys
  <2>2. CASE Done(r)
    <3>1. /\ req' \in [Requests -> Req] /\ req'[r].at = "idle" /\ \A b \in Requests \ {r} : req'[b] = req[b]
      BY <1>1, <2>2, DoneReq
    <3> QED BY <2>1, <3>1, StepsOn DEF Pending
  <2>3. CASE Goto(r, "insertKey") /\ ~(Cardinality(Owned(key, u)) >= MaxActiveKeys)
    <3>1. /\ req' \in [Requests -> Req] /\ req'[r].at = "insertKey" /\ req'[r].user = u
          /\ \A b \in Requests \ {r} : req'[b] = req[b]
      BY <1>1, <2>3, GotoReq
    <3>2. TypeOK' /\ Known'
      BY <2>1, <3>1 DEF IInv, TypeOK, Known, Req, Owned
    <3>3. \A b \in Requests : Pending(b)'
      BY <1>2, <2>1, <3>1 DEF IInv, Pending
    <3>4. ASSUME NEW v \in Users
          PROVE  /\ Cardinality(Owned(key, v))' + Cardinality(Counted(v, "insertKey"))'
                      < MaxActiveKeys + Cardinality(Requests)
                 /\ Cardinality(ActiveJobs(v))' + Cardinality(Counted(v, "insertJob"))'
                      < MaxActiveJobs + Cardinality(Requests)
      <4>1. /\ Owned(key, v)' = Owned(key, v) /\ ActiveJobs(v)' = ActiveJobs(v)
            /\ Counted(v, "insertJob")' \subseteq Counted(v, "insertJob")
        BY <2>1, <3>1 DEF Owned, ActiveJobs, Counted, At
      <4>2. CASE v = u
        <5>1. Owned(key, u) \subseteq Keys /\ Counted(v, "insertKey")' \in SUBSET Requests
          BY DEF IInv, TypeOK, Owned, Counted
        <5>2. Cardinality(Owned(key, u)) < MaxActiveKeys
          BY <2>3, <5>1, LimitsAssumption, Sizes
        <5>3. Cardinality(Owned(key, v))' + Cardinality(Counted(v, "insertKey"))'
                < MaxActiveKeys + Cardinality(Requests)
          BY <4>1, <4>2, <5>1, <5>2, LimitsAssumption, BelowLimit
        <5>4. Cardinality(ActiveJobs(v))' + Cardinality(Counted(v, "insertJob"))'
                < MaxActiveJobs + Cardinality(Requests)
          BY <4>1, JobsShrink
        <5> QED BY <5>3, <5>4
      <4>3. CASE v # u
        <5>1. Counted(v, "insertKey")' \subseteq Counted(v, "insertKey")
          BY <3>1, <4>3 DEF Counted, At
        <5> QED BY <4>1, <5>1, KeysShrink, JobsShrink
      <4> QED BY <4>2, <4>3
    <3> QED BY <3>2, <3>3, <3>4 DEF IInv, LimitsOverrunBounded
  <2> QED BY <1>3, <2>2, <2>3 DEF CountKeys
<1>4. CASE InsertKey(r)
  <2>1. PICK k \in Fresh(key) : key' = [key EXCEPT ![k] = NewRow(u)]
    BY <1>4 DEF InsertKey
  <2>2. UNCHANGED <<registered, session, project, job>> /\ req[r].at = "insertKey"
    BY <1>4 DEF InsertKey, At
  <2>3. /\ req' \in [Requests -> Req] /\ req'[r].at = "idle" /\ \A b \in Requests \ {r} : req'[b] = req[b]
    BY <1>1, <1>4, DoneReq DEF InsertKey
  <2>4. k \in Keys /\ NewRow(u) \in KeyRows /\ NewRow(u).owner = u
    BY <1>2, <2>1 DEF Fresh, NewRow, KeyRows, IInv, TypeOK
  <2> HIDE DEF u
  <2>5. TypeOK'
    BY <1>2, <2>1, <2>2, <2>3, <2>4 DEF IInv, TypeOK, Req, Owned
  <2>6. Known' /\ \A b \in Requests : Pending(b)'
    BY <2>2, <2>3 DEF IInv, Known, Pending
  <2>7. ASSUME NEW v \in Users
        PROVE  /\ Cardinality(Owned(key, v))' + Cardinality(Counted(v, "insertKey"))'
                    < MaxActiveKeys + Cardinality(Requests)
               /\ Cardinality(ActiveJobs(v))' + Cardinality(Counted(v, "insertJob"))'
                    < MaxActiveJobs + Cardinality(Requests)
    <3>1. /\ ActiveJobs(v)' \subseteq ActiveJobs(v)
          /\ Counted(v, "insertJob")' \subseteq Counted(v, "insertJob")
      BY <2>2, <2>3 DEF ActiveJobs, Counted, At
    <3>2. CASE v = u
      <4>1. /\ Owned(key, v)' \subseteq Owned(key, v) \cup {k}
            /\ Counted(v, "insertKey")' \subseteq Counted(v, "insertKey") \ {r} /\ r \in Counted(v, "insertKey")
        BY <2>1, <2>2, <2>3, <3>2 DEF Owned, Counted, At, u, IInv, TypeOK
      <4> QED BY <3>1, <4>1, KeyInserted, JobsShrink
    <3>3. CASE v # u
      <4>1. Owned(key, v)' \subseteq Owned(key, v) /\ Counted(v, "insertKey")' \subseteq Counted(v, "insertKey")
        BY <2>1, <2>3, <2>4, <3>3 DEF Owned, Counted, At, IInv, TypeOK
      <4> QED BY <3>1, <4>1, KeysShrink, JobsShrink
    <3> QED BY <3>2, <3>3
  <2> QED BY <2>5, <2>6, <2>7 DEF IInv, LimitsOverrunBounded
<1>5. CASE RevokeKey(r)
  <2>1. /\ req' \in [Requests -> Req] /\ req'[r].at = "idle" /\ \A b \in Requests \ {r} : req'[b] = req[b]
    BY <1>1, <1>5, DoneReq DEF RevokeKey
  <2>2. CASE key' = key
    <3>1. UNCHANGED <<registered, session, key, project, job>>
      BY <1>5, <2>2 DEF RevokeKey
    <3> QED BY <2>1, <3>1, StepsOn DEF Pending
  <2>3. CASE req[r].id \in Owned(key, u) /\ key' = [key EXCEPT ![req[r].id].state = "revoked"]
    <3> DEFINE k == req[r].id
    <3>1. k \in Keys /\ key[k].owner = u
      BY <2>3 DEF Owned, IInv, TypeOK
    <3>2. /\ key' \in [Keys -> KeyRows] /\ key'[k].owner = u /\ key'[k].state = "revoked"
          /\ \A b \in Keys \ {k} : key'[b] = key[b]
      BY <1>2, <2>3, <3>1 DEF IInv, TypeOK, KeyRows, NoRow
    <3>3. UNCHANGED <<registered, session, project, job>>
      BY <1>5 DEF RevokeKey
    <3> HIDE DEF k
    <3>4. TypeOK'
      BY <1>2, <2>1, <3>1, <3>2, <3>3 DEF IInv, TypeOK, Req, Owned
    <3>5. Known' /\ Pending(r)'
      BY <2>1, <3>3 DEF IInv, Known, Pending
    <3>6. \A v \in Users : Owned(key, v)' \subseteq Owned(key, v) /\ ActiveJobs(v)' \subseteq ActiveJobs(v)
      BY <3>1, <3>2, <3>3 DEF Owned, ActiveJobs, IInv, TypeOK
    <3> QED BY <2>1, <3>3, <3>4, <3>5, <3>6, CountsNothing
  <2> QED BY <1>5, <2>2, <2>3 DEF RevokeKey
<1> QED BY <1>3, <1>4, <1>5

\* Projects.
LEMMA InsertProjectTyped ==
  ASSUME IInv, NEW u \in registered, NEW p \in Projects, InsertProject(p, u)
  PROVE  /\ project' \in [Projects -> ProjectRows]
         /\ \A q \in Projects : project'[q].owner \in registered \cup {NULL}
         /\ \A v \in Users : Owned(project, v) \subseteq Owned(project, v)'
         /\ \A j \in Jobs : job[j].status \in {"active", "ended"} => job[j].owner \in Users
<1>1. u \in Users
  BY DEF IInv, TypeOK
<1>2. NewRow(u) \in ProjectRows /\ NewRow(u).owner = u /\ NewRow(u).state = "live" /\ project[p] = NoRow
  BY <1>1 DEF NewRow, ProjectRows, Fresh, InsertProject
<1>3. project' = [project EXCEPT ![p] = NewRow(u)]
  BY DEF InsertProject
<1>4. \A v \in Users : Owned(project, v) \subseteq Owned(project, v)'
  BY <1>2, <1>3 DEF IInv, TypeOK, Owned, NoRow
<1>5. \A j \in Jobs : job[j].status \in {"active", "ended"} => job[j].owner \in Users
  BY NullAssumption DEF IInv, TypeOK, JobRows, NoJob, DeletedJob
<1> QED BY <1>2, <1>3, <1>4, <1>5 DEF IInv, TypeOK

LEMMA ProjectsIInv ==
  ASSUME IInv, NEW r \in Requests, CreateProject(r) \/ DeleteProject(r) \/ DefaultProject(r)
  PROVE  IInv'
<1>1. req \in [Requests -> Req] /\ Pending(r)
  BY TypedReq DEF IInv
<1> DEFINE u == req[r].user
<1>2. u \in Users /\ u \in registered
  BY <1>1 DEF CreateProject, DeleteProject, DefaultProject, At, Pending
<1>3. CASE CreateProject(r)
  <2>1. PICK p \in Projects : InsertProject(p, u)
    BY <1>3 DEF CreateProject
  <2>2. UNCHANGED <<registered, session, key, job>>
    BY <1>3 DEF CreateProject
  <2>3. /\ req' \in [Requests -> Req] /\ req'[r].at = "idle" /\ \A b \in Requests \ {r} : req'[b] = req[b]
    BY <1>1, <1>3, DoneReq DEF CreateProject
  <2> HIDE DEF u
  <2>4. TypeOK'
    BY <1>2, <2>1, <2>2, <2>3, InsertProjectTyped DEF IInv, TypeOK, Req
  <2>5. Known' /\ Pending(r)'
    BY <2>2, <2>3 DEF IInv, Known, Pending
  <2> QED BY <2>2, <2>3, <2>4, <2>5, CountsNothing DEF Owned, ActiveJobs
<1>4. CASE DefaultProject(r)
  <2>1. PICK p \in Projects :
          InsertProject(p, u) /\ req' = [req EXCEPT ![r].at = "countActive", ![r].id = p]
    BY <1>4 DEF DefaultProject
  <2>2. UNCHANGED <<registered, session, key, job>>
    BY <1>4 DEF DefaultProject
  <2>3. /\ req' \in [Requests -> Req] /\ req'[r].at = "countActive" /\ req'[r].user = u
        /\ \A b \in Requests \ {r} : req'[b] = req[b]
    BY <1>1, <2>1, FoundReq
  <2> HIDE DEF u
  <2>4. TypeOK'
    BY <1>2, <2>1, <2>2, <2>3, InsertProjectTyped DEF IInv, TypeOK, Req
  <2>5. Known' /\ Pending(r)'
    BY <1>2, <2>2, <2>3 DEF IInv, Known, Pending
  <2> QED BY <2>2, <2>3, <2>4, <2>5, CountsNothing DEF Owned, ActiveJobs
<1>5. CASE DeleteProject(r)
  <2> DEFINE p == req[r].id
  <2>1. /\ req' \in [Requests -> Req] /\ req'[r].at = "idle" /\ \A b \in Requests \ {r} : req'[b] = req[b]
    BY <1>1, <1>5, DoneReq DEF DeleteProject
  <2>2. UNCHANGED <<registered, session, key>>
    BY <1>5 DEF DeleteProject
  <2>3. CASE UNCHANGED <<project, job>>
    BY <2>1, <2>2, <2>3, StepsOn DEF Pending
  <2>4. CASE /\ p \in Owned(project, u) /\ project' = [project EXCEPT ![p] = DeletedRow]
             /\ job' = [j \in Jobs |-> IF job[j].project = p THEN DeletedJob ELSE job[j]]
    <3>1. p \in Projects
      BY <2>4 DEF Owned, IInv, TypeOK
    <3>2. /\ DeletedRow \in ProjectRows /\ DeletedRow.owner = NULL /\ DeletedJob \in JobRows
          /\ DeletedJob.status = "deleted" /\ DeletedJob.owner = NULL
      BY DEF DeletedRow, ProjectRows, DeletedJob, JobRows, NoJob
    <3>3. project' = [project EXCEPT ![p] = DeletedRow]
      BY <2>4
    <3>4. job' = [j \in Jobs |-> IF job[j].project = p THEN DeletedJob ELSE job[j]]
      BY <2>4
    <3> HIDE DEF u, p
    <3>5. /\ project' \in [Projects -> ProjectRows]
          /\ \A q \in Projects : project'[q].owner \in registered \cup {NULL}
      BY <3>1, <3>2, <3>3 DEF IInv, TypeOK
    <3>6. job' \in [Jobs -> JobRows]
      BY <3>2, <3>4 DEF IInv, TypeOK
    <3>7. ASSUME NEW j \in Jobs, job'[j].status \in {"active", "ended"}
          PROVE  job'[j].project \in Owned(project', job'[j].owner)
      <4>1. job'[j] = job[j] /\ job[j].project # p
        BY <3>2, <3>4, <3>7
      <4>2. job[j].project \in Owned(project, job[j].owner)
        BY <3>7, <4>1 DEF IInv, TypeOK
      <4> QED BY <3>3, <4>1, <4>2 DEF Owned
    <3>8. TypeOK'
      BY <2>1, <2>2, <3>5, <3>6, <3>7 DEF IInv, TypeOK, Req
    <3>9. Known' /\ Pending(r)'
      BY <2>1, <2>2 DEF IInv, Known, Pending
    <3>10. \A v \in Users : Owned(key, v)' \subseteq Owned(key, v) /\ ActiveJobs(v)' \subseteq ActiveJobs(v)
      BY <2>2, <3>2, <3>4 DEF Owned, ActiveJobs
    <3> QED BY <2>1, <2>2, <3>8, <3>9, <3>10, CountsNothing
  <2> QED BY <1>5, <2>3, <2>4 DEF DeleteProject
<1> QED BY <1>3, <1>4, <1>5

\* Jobs.
LEMMA JobsIInv ==
  ASSUME IInv, NEW r \in Requests, CountActive(r) \/ InsertJob(r)
  PROVE  IInv'
<1>1. req \in [Requests -> Req] /\ Pending(r) /\ {"insertJob"} \subseteq Steps
  BY TypedReq DEF IInv, Steps
<1> DEFINE u == req[r].user
<1>2. u \in Users /\ u \in registered
  BY <1>1 DEF CountActive, InsertJob, At, Pending
<1>3. CASE CountActive(r)
  <2>1. UNCHANGED <<registered, session, key, project, job>>
    BY <1>3 DEF CountActive
  <2>2. CASE Done(r)
    <3>1. /\ req' \in [Requests -> Req] /\ req'[r].at = "idle" /\ \A b \in Requests \ {r} : req'[b] = req[b]
      BY <1>1, <2>2, DoneReq
    <3> QED BY <2>1, <3>1, StepsOn DEF Pending
  <2>3. ASSUME NEW body \in Bodies, Cardinality(ActiveJobs(u)) < MaxActiveJobs,
               req' = [req EXCEPT ![r].at = "insertJob", ![r].body = body]
        PROVE  IInv'
    <3>1. /\ req' \in [Requests -> Req] /\ req'[r].at = "insertJob" /\ req'[r].user = u
          /\ req'[r].body = body /\ \A b \in Requests \ {r} : req'[b] = req[b]
      BY <1>1, <2>3 DEF Req
    <3>2. TypeOK' /\ Known'
      BY <2>1, <3>1 DEF IInv, TypeOK, Known, Req, Owned
    <3>3. \A b \in Requests : Pending(b)'
      BY <1>2, <2>1, <3>1 DEF IInv, Pending
    <3>4. ASSUME NEW v \in Users
          PROVE  /\ Cardinality(Owned(key, v))' + Cardinality(Counted(v, "insertKey"))'
                      < MaxActiveKeys + Cardinality(Requests)
                 /\ Cardinality(ActiveJobs(v))' + Cardinality(Counted(v, "insertJob"))'
                      < MaxActiveJobs + Cardinality(Requests)
      <4>1. /\ Owned(key, v)' = Owned(key, v) /\ ActiveJobs(v)' = ActiveJobs(v)
            /\ Counted(v, "insertKey")' \subseteq Counted(v, "insertKey")
        BY <2>1, <3>1 DEF Owned, ActiveJobs, Counted, At
      <4>2. CASE v = u
        <5>1. ActiveJobs(u) \subseteq Jobs /\ Counted(v, "insertJob")' \in SUBSET Requests
          BY DEF ActiveJobs, Counted
        <5>2. Cardinality(ActiveJobs(v))' + Cardinality(Counted(v, "insertJob"))'
                < MaxActiveJobs + Cardinality(Requests)
          BY <2>3, <4>1, <4>2, <5>1, LimitsAssumption, BelowLimit
        <5> QED BY <4>1, <5>2, KeysShrink
      <4>3. CASE v # u
        <5>1. Counted(v, "insertJob")' \subseteq Counted(v, "insertJob")
          BY <3>1, <4>3 DEF Counted, At
        <5> QED BY <4>1, <5>1, KeysShrink, JobsShrink
      <4> QED BY <4>2, <4>3
    <3> QED BY <3>2, <3>3, <3>4 DEF IInv, LimitsOverrunBounded
  <2> QED BY <1>3, <2>2, <2>3, Zenon DEF CountActive
<1>4. CASE InsertJob(r)
  <2> DEFINE p == req[r].id
             body == req[r].body
             row == [owner |-> u, project |-> p, body |-> body, status |-> "active"]
  <2>1. PICK j \in Jobs : job[j] = NoJob /\ job' = [job EXCEPT ![j] = row]
    BY <1>4 DEF InsertJob
  <2>2. UNCHANGED <<registered, session, key, project>> /\ req[r].at = "insertJob" /\ p \in Owned(project, u)
    BY <1>4 DEF InsertJob, At
  <2>3. /\ req' \in [Requests -> Req] /\ req'[r].at = "idle" /\ \A b \in Requests \ {r} : req'[b] = req[b]
    BY <1>1, <1>4, DoneReq DEF InsertJob
  <2>4. p \in Projects /\ body \in Bodies
    BY <1>1, <2>2 DEF Owned, IInv, TypeOK, Pending
  <2>5. row \in JobRows /\ row.owner = u /\ row.status = "active" /\ row.project = p
    BY <1>2, <2>4 DEF JobRows
  <2> HIDE DEF u, p, body, row
  <2>6. job' \in [Jobs -> JobRows] /\ job'[j] = row /\ \A b \in Jobs \ {j} : job'[b] = job[b]
    BY <2>1, <2>5 DEF IInv, TypeOK
  <2>7. TypeOK'
    BY <2>2, <2>3, <2>5, <2>6 DEF IInv, TypeOK, Req, Owned
  <2>8. Known' /\ \A b \in Requests : Pending(b)'
    BY <2>2, <2>3 DEF IInv, Known, Pending
  <2>9. ASSUME NEW v \in Users
        PROVE  /\ Cardinality(Owned(key, v))' + Cardinality(Counted(v, "insertKey"))'
                    < MaxActiveKeys + Cardinality(Requests)
               /\ Cardinality(ActiveJobs(v))' + Cardinality(Counted(v, "insertJob"))'
                    < MaxActiveJobs + Cardinality(Requests)
    <3>1. /\ Owned(key, v)' \subseteq Owned(key, v)
          /\ Counted(v, "insertKey")' \subseteq Counted(v, "insertKey")
      BY <2>2, <2>3 DEF Owned, Counted, At
    <3>2. CASE v = u
      <4>1. /\ ActiveJobs(v)' \subseteq ActiveJobs(v) \cup {j}
            /\ Counted(v, "insertJob")' \subseteq Counted(v, "insertJob") \ {r} /\ r \in Counted(v, "insertJob")
        BY <2>2, <2>3, <2>6, <3>2 DEF ActiveJobs, Counted, At, u
      <4> QED BY <3>1, <4>1, KeysShrink, JobInserted
    <3>3. CASE v # u
      <4>1. ActiveJobs(v)' \subseteq ActiveJobs(v) /\ Counted(v, "insertJob")' \subseteq Counted(v, "insertJob")
        BY <2>3, <2>5, <2>6, <3>3 DEF ActiveJobs, Counted, At
      <4> QED BY <3>1, <4>1, KeysShrink, JobsShrink
    <3> QED BY <3>2, <3>3
  <2> QED BY <2>7, <2>8, <2>9 DEF IInv, LimitsOverrunBounded
<1> QED BY <1>3, <1>4

LEMMA NextIInv == IInv /\ [Next]_vars => IInv'
<1> SUFFICES ASSUME IInv, [Next]_vars PROVE IInv'
  OBVIOUS
<1>1. ASSUME NEW r \in Requests,
             \/ AdmitSignup(r) \/ AdmitLogin(r) \/ AdmitCreateKey(r) \/ AdmitRevokeKey(r)
             \/ AdmitCreateProject(r) \/ AdmitDeleteProject(r) \/ AdmitCreateJob(r) \/ Fail500(r)
             \/ SignupFindByEmail(r) \/ SignupInsert(r) \/ StartSession(r)
             \/ CountKeys(r) \/ InsertKey(r) \/ RevokeKey(r)
             \/ CreateProject(r) \/ DeleteProject(r)
             \/ FindProject(r) \/ DefaultProject(r) \/ CountActive(r) \/ InsertJob(r)
      PROVE  IInv'
  BY <1>1, AdmissionIInv, LooksIInv, UsersIInv, KeysIInv, ProjectsIInv, JobsIInv, Zenon
<1> QED BY <1>1, ByThemselvesIInv, Zenon DEF Next

THEOREM Invariant == Spec => []IInv
BY InitIInv, NextIInv, PTL DEF Spec

\* The foreign keys hold however requests overlap: nothing belongs to somebody who
\* is not registered, and a job's project is its owner's.
THEOREM TypeCorrect == Spec => []TypeOK
<1>1. IInv => TypeOK
  BY DEF IInv
<1> QED BY Invariant, <1>1, PTL

\* The checks of keys.ts:25 and jobs.ts:176, which count before the insert, let at
\* most one row per concurrent request through beyond the limit, less one.
THEOREM OverrunBounded == Spec => []LimitsOverrunBounded
<1>1. IInv => LimitsOverrunBounded
  BY DEF IInv
<1> QED BY Invariant, <1>1, PTL

-----------------------------------------------------------------------------
(* Who touches what.                                                       *)

LEMMA KeysOwners == IInv /\ [Next]_vars => KeysKept
<1> SUFFICES ASSUME IInv, [Next]_vars PROVE KeysKept
  OBVIOUS
<1>1. CASE key' = key
  BY <1>1 DEF KeysKept
<1>2. ASSUME NEW r \in Requests, InsertKey(r) PROVE KeysKept
  <2>1. PICK k \in Fresh(key) : key' = [key EXCEPT ![k] = NewRow(req[r].user)]
    BY <1>2 DEF InsertKey
  <2>2. key[k] = NoRow
    BY DEF Fresh
  <2> QED BY <2>1, <2>2 DEF KeysKept, IInv, TypeOK
<1>3. ASSUME NEW r \in Requests, RevokeKey(r), key' # key PROVE KeysKept
  <2> DEFINE k == req[r].id
  <2>1. k \in Owned(key, req[r].user) /\ key' = [key EXCEPT ![k].state = "revoked"]
    BY <1>3 DEF RevokeKey
  <2>2. k \in Keys /\ key[k].owner = req[r].user /\ key[k].state = "live"
    BY <2>1 DEF Owned, IInv, TypeOK
  <2>3. By(key[k].owner)
    BY <1>3, <2>2, TypedReq, DoneReq DEF RevokeKey, By
  <2> HIDE DEF k
  <2>4. key'[k] = [key[k] EXCEPT !.state = "revoked"] /\ \A b \in Keys \ {k} : key'[b] = key[b]
    BY <2>1, <2>2 DEF IInv, TypeOK
  <2> QED BY <2>2, <2>3, <2>4 DEF KeysKept
<1>4. ASSUME NEW r \in Requests,
             \/ AdmitSignup(r) \/ AdmitLogin(r) \/ AdmitCreateKey(r) \/ AdmitRevokeKey(r)
             \/ AdmitCreateProject(r) \/ AdmitDeleteProject(r) \/ AdmitCreateJob(r) \/ Fail500(r)
             \/ SignupFindByEmail(r) \/ SignupInsert(r) \/ StartSession(r) \/ CountKeys(r)
             \/ CreateProject(r) \/ DeleteProject(r)
             \/ FindProject(r) \/ DefaultProject(r) \/ CountActive(r) \/ InsertJob(r)
      PROVE  key' = key
  BY <1>4 DEF AdmitSignup, AdmitLogin, AdmitCreateKey, AdmitRevokeKey, AdmitCreateProject, AdmitDeleteProject,
         AdmitCreateJob, Admit, Fail500, SignupFindByEmail, SignupInsert, StartSession, CountKeys, CreateProject,
         DeleteProject, FindProject, DefaultProject, CountActive, InsertJob
<1>5. ASSUME \/ \E u \in Users : SessionEnds(u)
             \/ \E j \in Jobs : EndJob(j)
             \/ UNCHANGED vars
      PROVE  key' = key
  BY <1>5 DEF SessionEnds, EndJob, vars
<1> QED BY <1>1, <1>2, <1>3, <1>4, <1>5 DEF Next

LEMMA ProjectsOwners == IInv /\ [Next]_vars => ProjectsKept
<1> SUFFICES ASSUME IInv, [Next]_vars PROVE ProjectsKept
  OBVIOUS
<1>1. CASE project' = project
  BY <1>1 DEF ProjectsKept
<1>2. ASSUME NEW p \in Projects, NEW u, InsertProject(p, u) PROVE ProjectsKept
  BY <1>2 DEF InsertProject, Fresh, ProjectsKept, IInv, TypeOK
<1>3. ASSUME NEW r \in Requests, SignupInsert(r) \/ CreateProject(r) \/ DefaultProject(r) PROVE ProjectsKept
  BY <1>2, <1>3 DEF SignupInsert, CreateProject, DefaultProject
<1>4. ASSUME NEW r \in Requests, DeleteProject(r), project' # project PROVE ProjectsKept
  <2> DEFINE p == req[r].id
  <2>1. p \in Owned(project, req[r].user) /\ project' = [project EXCEPT ![p] = DeletedRow]
    BY <1>4 DEF DeleteProject
  <2>2. p \in Projects /\ project[p].owner = req[r].user
    BY <2>1 DEF Owned, IInv, TypeOK
  <2>3. By(project[p].owner)
    BY <1>4, <2>2, TypedReq, DoneReq DEF DeleteProject, By
  <2> HIDE DEF p
  <2> QED BY <2>1, <2>2, <2>3 DEF ProjectsKept, IInv, TypeOK
<1>5. ASSUME NEW r \in Requests,
             \/ AdmitSignup(r) \/ AdmitLogin(r) \/ AdmitCreateKey(r) \/ AdmitRevokeKey(r)
             \/ AdmitCreateProject(r) \/ AdmitDeleteProject(r) \/ AdmitCreateJob(r) \/ Fail500(r)
             \/ SignupFindByEmail(r) \/ StartSession(r) \/ CountKeys(r) \/ InsertKey(r) \/ RevokeKey(r)
             \/ FindProject(r) \/ CountActive(r) \/ InsertJob(r)
      PROVE  project' = project
  BY <1>5 DEF AdmitSignup, AdmitLogin, AdmitCreateKey, AdmitRevokeKey, AdmitCreateProject, AdmitDeleteProject,
         AdmitCreateJob, Admit, Fail500, SignupFindByEmail, StartSession, CountKeys, InsertKey, RevokeKey,
         FindProject, CountActive, InsertJob
<1>6. ASSUME \/ \E u \in Users : SessionEnds(u)
             \/ \E j \in Jobs : EndJob(j)
             \/ UNCHANGED vars
      PROVE  project' = project
  BY <1>6 DEF SessionEnds, EndJob, vars
<1> QED BY <1>1, <1>3, <1>4, <1>5, <1>6 DEF Next

LEMMA JobsOwners == IInv /\ [Next]_vars => JobsKept
<1> SUFFICES ASSUME IInv, [Next]_vars PROVE JobsKept
  OBVIOUS
<1>1. CASE job' = job
  BY <1>1 DEF JobsKept
<1>2. ASSUME NEW r \in Requests, InsertJob(r) PROVE JobsKept
  BY <1>2 DEF InsertJob, JobsKept, IInv, TypeOK
<1>3. ASSUME NEW j \in Jobs, EndJob(j) PROVE JobsKept
  <2>1. job'[j] = [job[j] EXCEPT !.status = "ended"] /\ job[j].status = "active"
        /\ \A b \in Jobs \ {j} : job'[b] = job[b]
    BY <1>3 DEF EndJob, IInv, TypeOK
  <2> QED BY <2>1 DEF JobsKept
<1>4. ASSUME NEW r \in Requests, DeleteProject(r), job' # job PROVE JobsKept
  <2> DEFINE p == req[r].id
             u == req[r].user
  <2>1. p \in Owned(project, u) /\ job' = [j \in Jobs |-> IF job[j].project = p THEN DeletedJob ELSE job[j]]
    BY <1>4 DEF DeleteProject
  <2>2. p \in Projects /\ project[p].owner = u /\ p # NULL /\ req'[r] = Idle
    BY <1>4, <2>1, NullAssumption, TypedReq, DoneReq DEF Owned, IInv, TypeOK, DeleteProject
  <2>3. ASSUME NEW j \in Jobs, job[j] # NoJob, job'[j] # job[j]
        PROVE  job'[j] = DeletedJob /\ By(job[j].owner)
    <3>1. job'[j] = DeletedJob /\ job[j].project = p
      BY <2>1, <2>3
    <3>2. job[j].status \in {"active", "ended"}
      BY <2>2, <2>3, <3>1 DEF IInv, TypeOK, JobRows, NoJob, DeletedJob
    <3>3. job[j].owner = u
      BY <2>2, <3>1, <3>2 DEF IInv, TypeOK, Owned
    <3> QED BY <2>2, <3>1, <3>3 DEF By
  <2> QED BY <2>3 DEF JobsKept
<1>5. ASSUME NEW r \in Requests,
             \/ AdmitSignup(r) \/ AdmitLogin(r) \/ AdmitCreateKey(r) \/ AdmitRevokeKey(r)
             \/ AdmitCreateProject(r) \/ AdmitDeleteProject(r) \/ AdmitCreateJob(r) \/ Fail500(r)
             \/ SignupFindByEmail(r) \/ SignupInsert(r) \/ StartSession(r)
             \/ CountKeys(r) \/ InsertKey(r) \/ RevokeKey(r)
             \/ CreateProject(r) \/ FindProject(r) \/ DefaultProject(r) \/ CountActive(r)
      PROVE  job' = job
  BY <1>5 DEF AdmitSignup, AdmitLogin, AdmitCreateKey, AdmitRevokeKey, AdmitCreateProject, AdmitDeleteProject,
         AdmitCreateJob, Admit, Fail500, SignupFindByEmail, SignupInsert, StartSession, CountKeys, InsertKey,
         RevokeKey, CreateProject, FindProject, DefaultProject, CountActive
<1>6. ASSUME (\E u \in Users : SessionEnds(u)) \/ UNCHANGED vars PROVE job' = job
  BY <1>6 DEF SessionEnds, vars
<1> QED BY <1>1, <1>2, <1>3, <1>4, <1>5, <1>6 DEF Next

\* A row is only ever changed by a request of its owner, whatever ids requests name
\* and however they overlap.
THEOREM OnlyOwners == Spec => OwnersOnly
<1>1. IInv /\ [Next]_vars => [KeysKept /\ ProjectsKept /\ JobsKept]_vars
  BY KeysOwners, ProjectsOwners, JobsOwners
<1> QED BY Invariant, <1>1, PTL DEF Spec, OwnersOnly
-----------------------------------------------------------------------------
(* What is taken can be done.                                              *)

\* What NormalizeScrapeOptions lets through.
LEMMA ScrapeOptionsFit ==
  ASSUME NEW b \in Bodies, MatchesSchema(b.type, b.input),
         NormalizeScrapeOptions(b.input, Limits).code = "ok"
  PROVE  LET o == NormalizeScrapeOptions(b.input, Limits).value
         IN  /\ o = [formats |-> o.formats, timeoutMs |-> o.timeoutMs, waitForMs |-> o.waitForMs,
                     onlyMainContent |-> o.onlyMainContent]
             /\ o.formats \in (SUBSET OutputFormat) \ {{}} /\ o.timeoutMs \in 1000..Limits.maxScrapeTimeoutMs
             /\ o.waitForMs \in Nat /\ 2 * o.waitForMs <= o.timeoutMs
<1> DEFINE formats == Or(b.input, "formats", {"markdown"})
           timeout == Or(b.input, "timeout_ms", Limits.defaultScrapeTimeoutMs)
           wait    == Or(b.input, "wait_for_ms", 0)
           main    == Or(b.input, "only_main_content", TRUE)
           options == [formats |-> formats, timeoutMs |-> timeout, waitForMs |-> wait, onlyMainContent |-> main]
<1>1. timeout \in Nat /\ wait \in Nat
  BY BodiesAssumption DEF Or, Sent
<1>2. timeout >= 1000
  <2>1. CASE "timeout_ms" \in DOMAIN b.input
    <3>1. timeout = b.input["timeout_ms"] /\ Or(b.input, "timeout_ms", 1000) = timeout
      BY <2>1 DEF Or, Sent
    <3> HIDE DEF timeout
    <3> QED BY <3>1 DEF MatchesSchema
  <2>2. CASE "timeout_ms" \notin DOMAIN b.input
    <3>1. timeout = Limits.defaultScrapeTimeoutMs
      BY <2>2 DEF Or, Sent
    <3>2. Limits.defaultScrapeTimeoutMs \in Nat \ 0..999
      BY BodiesAssumption
    <3> HIDE DEF timeout
    <3> QED BY <3>1, <3>2
  <2> QED BY <2>1, <2>2
<1>3. formats \in (SUBSET OutputFormat) \ {{}}
  BY DEF MatchesSchema
<1>4. /\ timeout <= Limits.maxScrapeTimeoutMs /\ 2 * wait <= timeout
      /\ NormalizeScrapeOptions(b.input, Limits).value = options
  <2>1. NormalizeScrapeOptions(b.input, Limits) =
          IF timeout > Limits.maxScrapeTimeoutMs THEN Fail("LIMIT_EXCEEDED")
          ELSE IF 2 * wait > timeout THEN Fail("VALIDATION_ERROR") ELSE Ok(options)
    BY DEF NormalizeScrapeOptions
  <2> HIDE DEF options, timeout, wait
  <2>2. Fail("LIMIT_EXCEEDED").code # "ok" /\ Fail("VALIDATION_ERROR").code # "ok" /\ Ok(options).value = options
    BY DEF Fail, Ok
  <2>3. ~(timeout > Limits.maxScrapeTimeoutMs) /\ ~(2 * wait > timeout)
    BY <2>1, <2>2
  <2> QED BY <1>1, <2>1, <2>2, <2>3, BodiesAssumption
<1>5. timeout \in 1000..Limits.maxScrapeTimeoutMs
  BY <1>1, <1>2, <1>4, BodiesAssumption
<1>6. /\ options.formats = formats /\ options.timeoutMs = timeout /\ options.waitForMs = wait
      /\ options.onlyMainContent = main
  OBVIOUS
<1> HIDE DEF formats, timeout, wait, main
<1> QED BY <1>1, <1>3, <1>4, <1>5, <1>6

\* Every request to the engine, also the retry and those without a browser, leaves
\* half of the timeout after the wait.
LEMMA AskedFits ==
  ASSUME NEW o, o = [field \in DOMAIN o |-> o[field]], "timeoutMs" \in DOMAIN o, "waitForMs" \in DOMAIN o,
         o.timeoutMs \in Nat, o.waitForMs \in Nat, NEW noJs \in BOOLEAN, NEW try \in {o, RetryOptions(o)}
  PROVE  /\ 2 * ScrapeOptions(try, noJs).waitFor <= ScrapeOptions(try, noJs).timeout
         /\ ScrapeOptions(try, noJs).fastMode => ScrapeOptions(try, noJs).waitFor = 0
<1>1. \A t \in Nat : t \div 2 \in Nat /\ 2 * (t \div 2) <= t
  OBVIOUS
<1>2. try.timeoutMs \in Nat /\ try.waitForMs \in Nat
  <2>1. CASE try = o
    BY <2>1
  <2>2. CASE try = RetryOptions(o)
    BY <1>1, <2>2 DEF RetryOptions, Smaller
  <2> QED BY <2>1, <2>2
<1>3. Smaller(try.waitForMs, try.timeoutMs \div 2) \in Nat
      /\ 2 * Smaller(try.waitForMs, try.timeoutMs \div 2) <= try.timeoutMs
  BY <1>1, <1>2 DEF Smaller
<1> QED BY <1>2, <1>3 DEF ScrapeOptions

LEMMA ScrapeFits ==
  ASSUME NEW b \in Bodies, MatchesSchema(b.type, b.input), Options[b].code = "ok", b.type = "scrape"
  PROVE  Fits[b]
<1> DEFINE o == Options[b].value
<1>1. Options[b] = NormalizeScrapeOptions(b.input, Limits)
  BY DEF Options, Normalize, Fail
<1>2. /\ o = [formats |-> o.formats, timeoutMs |-> o.timeoutMs, waitForMs |-> o.waitForMs,
              onlyMainContent |-> o.onlyMainContent]
      /\ o.formats # {} /\ o.timeoutMs \in 1000..Limits.maxScrapeTimeoutMs
      /\ o.waitForMs \in Nat /\ 2 * o.waitForMs <= o.timeoutMs
  <2>1. NormalizeScrapeOptions(b.input, Limits).code = "ok"
    BY <1>1
  <2> QED BY <1>1, <2>1, ScrapeOptionsFit
<1> HIDE DEF o
<1>3. o.timeoutMs \in Nat /\ {"timeoutMs", "waitForMs"} \subseteq DOMAIN o /\ o = [field \in DOMAIN o |-> o[field]]
  BY <1>2, BodiesAssumption
<1>4. \A noJs \in BOOLEAN, try \in {o, RetryOptions(o)} :
        LET asked == ScrapeOptions(try, noJs)
        IN  2 * asked.waitFor <= asked.timeout /\ (asked.fastMode => asked.waitFor = 0)
  BY <1>2, <1>3, AskedFits
<1>5. Doable(b, o)
  BY <1>2, <1>4 DEF Doable
<1> QED BY <1>5 DEF Fits, o
LEMMA BothAt ==
  ASSUME NEW a, NEW c
  PROVE  /\ DOMAIN Both(a, c) = DOMAIN a \cup DOMAIN c
         /\ \A field \in DOMAIN Both(a, c) : Both(a, c)[field] = IF field \in DOMAIN c THEN c[field] ELSE a[field]
BY DEF Both

\* The scope of a crawl is around the host it starts on.
LEMMA ScopeFits ==
  ASSUME NEW input, NEW host, NormalizeScope(input, host, Limits).code = "ok"
  PROVE  LET scope == NormalizeScope(input, host, Limits).value
         IN  /\ DOMAIN scope = {"includePatterns", "excludePatterns", "allowedDomain", "allowSubdomains"}
             /\ Within(host, scope.allowedDomain)
             /\ scope.allowSubdomains = Or(input, "allow_subdomains", FALSE)
<1> DEFINE include == Or(input, "include_patterns", <<>>)
           exclude == Or(input, "exclude_patterns", <<>>)
           domain  == IF Sent(input, "allowed_domain") THEN NormalizeHostname(input.allowed_domain) ELSE host
           below   == Or(input, "allow_subdomains", FALSE)
           scope   == [includePatterns |-> include, excludePatterns |-> exclude, allowedDomain |-> domain,
                       allowSubdomains |-> below]
<1>1. NormalizeScope(input, host, Limits) =
        IF CheckPatterns(include, Limits) # "ok" THEN Fail(CheckPatterns(include, Limits))
        ELSE IF CheckPatterns(exclude, Limits) # "ok" THEN Fail(CheckPatterns(exclude, Limits))
        ELSE IF ~Within(host, domain) THEN Fail("VALIDATION_ERROR") ELSE Ok(scope)
  BY DEF NormalizeScope
<1>2. /\ DOMAIN scope = {"includePatterns", "excludePatterns", "allowedDomain", "allowSubdomains"}
      /\ scope.allowedDomain = domain /\ scope.allowSubdomains = below
  OBVIOUS
<1> HIDE DEF include, exclude, domain, below, scope
<1>3. \A code : Fail(code).code = code
  BY DEF Fail
<1>4. Within(host, domain) /\ NormalizeScope(input, host, Limits) = Ok(scope)
  BY <1>1, <1>3
<1>5. Ok(scope).value = scope
  BY DEF Ok
<1> QED BY <1>2, <1>4, <1>5 DEF below

LEMMA CrawlFits ==
  ASSUME NEW b \in Bodies, MatchesSchema(b.type, b.input), Options[b].code = "ok", b.type = "crawl"
  PROVE  Fits[b]
<1> DEFINE host  == NormalizeHostname(b.input.url.host)
           base  == NormalizeScrapeOptions(b.input, Limits)
           pages == Or(b.input, "max_pages", Smaller(DefaultCrawlPages, Limits.maxCrawlPages))
           depth == Or(b.input, "max_depth", Smaller(DefaultCrawlDepth, Limits.maxCrawlDepth))
           scope == NormalizeScope(b.input, host, Limits)
           size  == [maxPages |-> pages, maxDepth |-> depth]
           o     == Both(Both(base.value, size), scope.value)
<1>1. Options[b] = NormalizeCrawlOptions(b.input, host, Limits)
  BY DEF Options, Normalize, Fail
<1>2. NormalizeCrawlOptions(b.input, host, Limits) =
        IF base.code # "ok" THEN base
        ELSE IF "branding" \in base.value.formats THEN Fail("VALIDATION_ERROR")
        ELSE IF pages > Limits.maxCrawlPages \/ depth > Limits.maxCrawlDepth THEN Fail("LIMIT_EXCEEDED")
        ELSE IF scope.code # "ok" THEN scope ELSE Ok(o)
  BY DEF NormalizeCrawlOptions
<1>3. pages \in Nat \ {0} /\ depth \in Nat
  <2>1. pages \in Nat /\ depth \in Nat
    BY BodiesAssumption DEF Or, Sent, Smaller, DefaultCrawlPages, DefaultCrawlDepth
  <2>2. CASE "max_pages" \in DOMAIN b.input
    <3>1. pages = Or(b.input, "max_pages", 1)
      BY <2>2 DEF Or, Sent
    <3> HIDE DEF pages
    <3> QED BY <2>1, <3>1 DEF MatchesSchema
  <2>3. CASE "max_pages" \notin DOMAIN b.input
    BY <2>1, <2>3, BodiesAssumption DEF Or, Sent, Smaller, DefaultCrawlPages
  <2> QED BY <2>1, <2>2, <2>3
<1>4. DOMAIN size = {"maxPages", "maxDepth"} /\ size.maxPages = pages /\ size.maxDepth = depth
  OBVIOUS
<1> HIDE DEF base, pages, depth, scope, size, o
<1>5. /\ base.code = "ok" /\ scope.code = "ok" /\ "branding" \notin base.value.formats
      /\ pages <= Limits.maxCrawlPages /\ depth <= Limits.maxCrawlDepth /\ Options[b].value = o
  <2>1. \A code : Fail(code).code = code
    BY DEF Fail
  <2>2. Ok(o).value = o
    BY DEF Ok
  <2> QED BY <1>1, <1>2, <1>3, <2>1, <2>2, BodiesAssumption
<1>6. /\ base.value = [formats |-> base.value.formats, timeoutMs |-> base.value.timeoutMs,
                       waitForMs |-> base.value.waitForMs, onlyMainContent |-> base.value.onlyMainContent]
      /\ base.value.formats # {} /\ base.value.timeoutMs \in 1000..Limits.maxScrapeTimeoutMs
      /\ base.value.waitForMs \in Nat /\ 2 * base.value.waitForMs <= base.value.timeoutMs
  BY <1>5, ScrapeOptionsFit DEF base
<1>7. /\ DOMAIN scope.value = {"includePatterns", "excludePatterns", "allowedDomain", "allowSubdomains"}
      /\ Within(host, scope.value.allowedDomain)
      /\ scope.value.allowSubdomains = Or(b.input, "allow_subdomains", FALSE)
  BY <1>5, ScopeFits DEF scope
<1>8. /\ DOMAIN o = {"formats", "timeoutMs", "waitForMs", "onlyMainContent", "maxPages", "maxDepth",
                     "includePatterns", "excludePatterns", "allowedDomain", "allowSubdomains"}
      /\ o = [field \in DOMAIN o |-> o[field]]
      /\ \A field \in {"formats", "timeoutMs", "waitForMs"} : o[field] = base.value[field]
      /\ \A field \in {"maxPages", "maxDepth"} : o[field] = size[field]
      /\ \A field \in {"allowedDomain", "allowSubdomains"} : o[field] = scope.value[field]
  <2>1. DOMAIN base.value = {"formats", "timeoutMs", "waitForMs", "onlyMainContent"}
    BY <1>6
  <2> DEFINE half == Both(base.value, size)
  <2>2. /\ DOMAIN half = DOMAIN base.value \cup DOMAIN size
        /\ \A field \in DOMAIN half : half[field] = IF field \in DOMAIN size THEN size[field] ELSE base.value[field]
    BY BothAt
  <2>3. /\ DOMAIN o = DOMAIN half \cup DOMAIN scope.value
        /\ \A field \in DOMAIN o : o[field] = IF field \in DOMAIN scope.value THEN scope.value[field] ELSE half[field]
    BY BothAt DEF o
  <2>4. o = [field \in DOMAIN o |-> o[field]]
    BY DEF o, Both
  <2> HIDE DEF half
  <2> QED BY <1>4, <1>7, <2>1, <2>2, <2>3, <2>4
<1>9. /\ o.formats = base.value.formats /\ o.timeoutMs = base.value.timeoutMs /\ o.waitForMs = base.value.waitForMs
      /\ o.maxPages = pages /\ o.maxDepth = depth
      /\ o.allowedDomain = scope.value.allowedDomain /\ o.allowSubdomains = scope.value.allowSubdomains
  BY <1>4, <1>8
<1>10. o.timeoutMs \in Nat
  BY <1>6, <1>9, BodiesAssumption
<1>11. \A noJs \in BOOLEAN, try \in {o, RetryOptions(o)} :
        LET asked == ScrapeOptions(try, noJs)
        IN  2 * asked.waitFor <= asked.timeout /\ (asked.fastMode => asked.waitFor = 0)
  BY <1>6, <1>8, <1>9, <1>10, AskedFits
<1>12. LET crawl == CrawlBody(b.input.url, o, FALSE)
       IN  /\ crawl.limit = pages /\ crawl.maxDiscoveryDepth = depth
           /\ crawl.allowSubdomains => o.allowSubdomains \/ b.input.url.host # o.allowedDomain
  BY <1>9 DEF CrawlBody
<1>13. ASSUME b.input.url.host # o.allowedDomain, b.input.url.host = host
       PROVE  IsStrictSuffix(o.allowedDomain.labels, b.input.url.host.labels)
  BY <1>7, <1>9, <1>13 DEF Within
<1>14. pages \in 1..Limits.maxCrawlPages
  BY <1>3, <1>5, BodiesAssumption
<1>15. LET crawl == CrawlBody(b.input.url, o, FALSE)
       IN  /\ crawl.limit \in 1..Limits.maxCrawlPages /\ crawl.maxDiscoveryDepth <= Limits.maxCrawlDepth
           /\ "branding" \notin o.formats /\ Within(host, o.allowedDomain)
           /\ crawl.allowSubdomains =>
                \/ Or(b.input, "allow_subdomains", FALSE)
                \/ IsStrictSuffix(o.allowedDomain.labels, b.input.url.host.labels)
                \/ b.input.url.host # host
  BY <1>5, <1>7, <1>9, <1>12, <1>13, <1>14
<1>16. o.timeoutMs \in 1000..Limits.maxScrapeTimeoutMs /\ o.formats # {} /\ 2 * o.waitForMs <= o.timeoutMs
  BY <1>6, <1>9
<1>17. Doable(b, o)
  BY <1>11, <1>15, <1>16, Zenon DEF Doable, host
<1> QED BY <1>5, <1>17, Zenon DEF Fits

\* A body that was found to be in order, from its check to the row of the job.
Accepted(b) == b \in Bodies /\ MatchesSchema(b.type, b.input) /\ Options[b].code = "ok"
Taken ==
  /\ \A r \in Requests : req[r].at = "insertJob" => Accepted(req[r].body)
  /\ \A j \in Jobs : job[j].body # NULL => Accepted(job[j].body)

LEMMA AcceptedFits == ASSUME NEW b, Accepted(b) PROVE Fits[b]
<1>1. b \in Bodies /\ b.type \in {"scrape", "crawl"}
  BY BodiesAssumption DEF Accepted
<1> QED BY <1>1, ScrapeFits, CrawlFits DEF Accepted

LEMMA InitTaken == Init => Taken
BY DEF Init, Taken, Idle, NoJob

\* Only CountActive sends a request on to insert a job.
LEMMA OthersTaken ==
  ASSUME IInv, Taken, NEW r \in Requests, job' = job,
         req'[r].at # "insertJob", \A b \in Requests \ {r} : req'[b] = req[b]
  PROVE  Taken'
BY DEF Taken
LEMMA NextTaken == Taken /\ IInv /\ [Next]_vars => Taken'
<1> SUFFICES ASSUME Taken, IInv, [Next]_vars PROVE Taken'
  OBVIOUS
<1>1. req \in [Requests -> Req] /\ (Steps \ {"insertJob"}) \subseteq Steps /\ job \in [Jobs -> JobRows]
  BY TypedReq DEF IInv, TypeOK
<1>2. ASSUME NEW r \in Requests, Done(r) PROVE req'[r].at # "insertJob" /\ \A b \in Requests \ {r} : req'[b] = req[b]
  BY <1>1, <1>2, DoneReq
<1>3. ASSUME NEW r \in Requests, NEW step \in Steps \ {"insertJob"}, Goto(r, step)
      PROVE  req'[r].at # "insertJob" /\ \A b \in Requests \ {r} : req'[b] = req[b]
  BY <1>1, <1>3, GotoReq
<1>4. ASSUME NEW r \in Requests, NEW p, req' = [req EXCEPT ![r].at = "countActive", ![r].id = p]
      PROVE  req'[r].at # "insertJob" /\ \A b \in Requests \ {r} : req'[b] = req[b]
  <2> DEFINE row == [req[r] EXCEPT !.at = "countActive", !.id = p]
  <2>1. req' = [req EXCEPT ![r] = row] /\ req[r] \in Req
    BY <1>1, <1>4
  <2>2. row.at = "countActive"
    BY <2>1 DEF Req
  <2> HIDE DEF row
  <2> QED BY <1>1, <2>1, <2>2
<1>5. ASSUME NEW r \in Requests, NEW step \in Steps \ {"insertJob"}, NEW users, NEW ids, Admit(r, step, users, ids)
      PROVE  Taken'
  <2>1. PICK u \in users, id \in ids : req' = [req EXCEPT ![r] = [Idle EXCEPT !.at = step, !.user = u, !.id = id]]
    BY <1>5 DEF Admit
  <2>2. req'[r].at = step /\ \A b \in Requests \ {r} : req'[b] = req[b]
    BY <1>1, <2>1 DEF Idle
  <2> QED BY <1>5, <2>2, OthersTaken DEF Admit
<1>6. ASSUME NEW r \in Requests,
             \/ AdmitSignup(r) \/ AdmitLogin(r) \/ AdmitCreateKey(r) \/ AdmitRevokeKey(r)
             \/ AdmitCreateProject(r) \/ AdmitDeleteProject(r) \/ AdmitCreateJob(r)
      PROVE  Taken'
  BY <1>5, <1>6 DEF AdmitSignup, AdmitLogin, AdmitCreateKey, AdmitRevokeKey, AdmitCreateProject,
                    AdmitDeleteProject, AdmitCreateJob, Steps
<1>7. ASSUME NEW r \in Requests,
             \/ Fail500(r) \/ SignupFindByEmail(r) \/ SignupInsert(r) \/ StartSession(r)
             \/ CountKeys(r) \/ InsertKey(r) \/ RevokeKey(r) \/ CreateProject(r)
             \/ FindProject(r) \/ DefaultProject(r)
      PROVE  Taken'
  <2>1. /\ job' = job
        /\ \/ Done(r) \/ \E step \in Steps \ {"insertJob"} : Goto(r, step)
           \/ \E p : req' = [req EXCEPT ![r].at = "countActive", ![r].id = p]
    BY <1>7, Zenon DEF Fail500, SignupFindByEmail, SignupInsert, StartSession, CountKeys, InsertKey, RevokeKey,
                CreateProject, FindProject, DefaultProject, Steps
  <2> QED BY <1>2, <1>3, <1>4, <2>1, OthersTaken
<1>8. ASSUME NEW r \in Requests, CountActive(r) PROVE Taken'
  <2>1. job' = job
    BY <1>8 DEF CountActive
  <2>2. PICK b \in Bodies :
          IF /\ MatchesSchema(b.type, b.input) /\ Options[b].code = "ok"
             /\ Cardinality(ActiveJobs(req[r].user)) < MaxActiveJobs
          THEN req' = [req EXCEPT ![r].at = "insertJob", ![r].body = b] ELSE Done(r)
    BY <1>8 DEF CountActive
  <2>3. CASE Done(r)
    BY <1>2, <2>1, <2>3, OthersTaken
  <2>4. CASE ~Done(r)
    <3> DEFINE row == [req[r] EXCEPT !.at = "insertJob", !.body = b]
    <3>1. Accepted(b) /\ req' = [req EXCEPT ![r] = row] /\ req[r] \in Req
      BY <1>1, <2>2, <2>4 DEF Accepted
    <3>2. row.body = b
      BY <3>1 DEF Req
    <3> HIDE DEF row
    <3>3. req'[r].body = b /\ \A c \in Requests \ {r} : req'[c] = req[c]
      BY <1>1, <3>1, <3>2
    <3> QED BY <2>1, <3>1, <3>3 DEF Taken
  <2> QED BY <2>3, <2>4
<1>9. ASSUME NEW r \in Requests, InsertJob(r) PROVE Taken'
  <2>1. PICK j \in Jobs :
          job' = [job EXCEPT ![j] = [owner |-> req[r].user, project |-> req[r].id, body |-> req[r].body,
                                     status |-> "active"]]
    BY <1>9 DEF InsertJob
  <2>2. job'[j].body = req[r].body /\ \A k \in Jobs \ {j} : job'[k] = job[k]
    BY <1>1, <2>1
  <2>3. Accepted(req[r].body)
    BY <1>9 DEF InsertJob, At, Taken
  <2>4. req'[r].at # "insertJob" /\ \A b \in Requests \ {r} : req'[b] = req[b]
    BY <1>2, <1>9 DEF InsertJob
  <2> QED BY <2>2, <2>3, <2>4 DEF Taken
<1>10. ASSUME NEW r \in Requests, DeleteProject(r) PROVE Taken'
  <2>1. \A j \in Jobs : job'[j] = job[j] \/ job'[j].body = NULL
    BY <1>1, <1>10 DEF DeleteProject, DeletedJob, NoJob
  <2>2. req'[r].at # "insertJob" /\ \A b \in Requests \ {r} : req'[b] = req[b]
    BY <1>2, <1>10 DEF DeleteProject
  <2> QED BY <2>1, <2>2 DEF Taken
<1>11. ASSUME NEW j \in Jobs, EndJob(j) PROVE Taken'
  <2>1. job' = [job EXCEPT ![j] = [job[j] EXCEPT !.status = "ended"]] /\ req' = req
    BY <1>11 DEF EndJob
  <2>2. [job[j] EXCEPT !.status = "ended"].body = job[j].body
    BY <1>1 DEF JobRows, NoJob, DeletedJob
  <2>3. \A k \in Jobs : job'[k].body = job[k].body
    BY <1>1, <2>1, <2>2
  <2> QED BY <2>1, <2>3 DEF Taken
<1>12. CASE (\E u \in Users : SessionEnds(u)) \/ UNCHANGED vars
  BY <1>12 DEF SessionEnds, vars, Taken
<1> QED BY <1>6, <1>7, <1>8, <1>9, <1>10, <1>11, <1>12, Zenon DEF Next

\* Whatever bodies are sent and whatever the limits are: a job in the table asks for
\* no more than the server allows, leaves its page half of the timeout in every
\* variant of the request to the engine, and a crawl stays on its site.
THEOREM StoredFit == Spec => []StoredOptionsFit
<1>1. Spec => []Taken
  BY Invariant, InitTaken, NextTaken, PTL DEF Spec
<1>2. Taken => StoredOptionsFit
  BY AcceptedFits DEF Taken, StoredOptionsFit
<1> QED BY <1>1, <1>2, PTL

-----------------------------------------------------------------------------
(* The dashboard.  A hook's request is not sent, on its way, or answered.  *)

Blank(S) == {<<>>} \cup S
FormType ==
  [mode : Modes, url : Blank({<<u>> : u \in Urls}), formats : SUBSET OutputFormat,
   timeout : Blank(Seconds), depth : Blank(Counts), pages : Blank(Counts), limit : Blank(Counts),
   include : Blank(Patterns), domain : Blank(Domains), busy : BOOLEAN]
Filling ==
  /\ form \in FormType
  /\ form.mode = "crawl" => "branding" \notin form.formats

\* A request is what the form, which stays as it is meanwhile, made of itself.
Posting ==
  /\ post.state \in {"none", "sent", "answered"} /\ (form.busy <=> post.state # "none")
  /\ post.state = "none" => post = NoPost
  /\ page # "form" => post.state = "none"
  /\ post.state = "sent" =>
       /\ post.mode = form.mode /\ post.body = Body(form) /\ post.code = "none"
       /\ ~FieldErrors(form)

\* A job was made that the form does not know of yet.
Unread == post.code = "ok" /\ post.mode # "map"
Making ==
  /\ page \in {"form", "login", "job"}
  /\ page = "form" => shown = NoHook /\ made = IF Unread THEN 1 ELSE 0
  /\ page = "login" => \/ shown = NoHook /\ made = 0
                       \/ shown = Mounted /\ made = 1 /\ server.status # "none"
  /\ page = "job" => made = 1
  /\ page = "job" \/ Unread => server.status # "none"
  /\ page # "job" => cancel = "no"

ServerType == [status : {"none"} \cup Active \cup Ended, figures : Nat, rows : Nat, final : Nat]
JobData == [status : Active \cup Ended, figures : Nat]
ResultData == [rows : Nat, filter : {"all", "failed"}]
Answers(values) == {Got(v) : v \in values} \cup {Failed(how) : how \in Failures}
HookType(values) ==
  [data : {<<>>} \cup values, error : {"none"} \cup Failures, timer : BOOLEAN, due : BOOLEAN,
   request : {NoRequest, Sent0} \cup Answers(values)]
Shape ==
  /\ server \in ServerType /\ server.final <= server.rows
  /\ shown \in HookType(JobData) /\ results \in HookType(ResultData)
  /\ filter \in {"all", "failed"} /\ cancel \in {"no", "sent", "returned"}

\* What the page was told of a job that has ended stays true.
Sound(d) == d.status \in Ended => d.status = server.status /\ d.figures = server.figures
EndIsEnd ==
  /\ shown.data # <<>> => Sound(shown.data)
  /\ shown.request \in Answers(JobData) /\ shown.request.state = "ok" => Sound(shown.request.value)
  /\ cancel = "returned" => server.status \in Ended

\* The page asks again, unless it shows an error or the end.
Alive ==
  page = "job" => \/ shown.due \/ shown.timer \/ shown.request # NoRequest \/ shown.error # "none"
                  \/ (shown.data # <<>> /\ shown.data.status \in Ended)

\* The results are those of the filter, and all of them once the page knows of
\* the end; or they are asked for again; or they could not be had.
Good(v) == v.filter = filter /\ (shown.data.status \in Ended => v.rows >= server.final)
Following ==
  shown.data # <<>> =>
    \/ results.due \/ results.request = Sent0
    \/ results.request \in Answers(ResultData) /\ (results.request.state = "ok" => Good(results.request.value))
    \/ results.request = NoRequest /\ (results.error # "none" \/ (results.data # <<>> /\ Good(results.data)))

DashInv == Filling /\ Posting /\ Making /\ Shape /\ EndIsEnd /\ Alive /\ Following

LEMMA AnswerFacts ==
  /\ Sent0 # NoRequest /\ Sent0.state = "sent"
  /\ \A v : /\ Got(v) \notin {NoRequest, Sent0}
            /\ Got(v).state = "ok" /\ Got(v).value = v
  /\ \A how \in Failures : /\ Failed(how) \notin {NoRequest, Sent0}
                             /\ Failed(how).state = how /\ how \notin {"ok", "none"}
<1>1. DOMAIN Sent0 = {"state", "value"} /\ Sent0.state = "sent"
  BY DEF Sent0
<1>2. ASSUME NEW v
      PROVE  /\ DOMAIN Got(v) = {"state", "value"}
             /\ Got(v).state = "ok" /\ Got(v).value = v
  BY DEF Got
<1>3. ASSUME NEW how \in Failures
      PROVE  /\ DOMAIN Failed(how) = {"state", "value"}
             /\ Failed(how).state = how /\ how \notin {"ok", "none", "sent"}
  BY DEF Failed, Failures
<1>4. DOMAIN NoRequest = {}
  BY DEF NoRequest
<1> QED BY <1>1, <1>2, <1>3, <1>4

\* An answer is a value of its type or a failure.
LEMMA AnswerCases ==
  ASSUME NEW V, NEW a \in Answers(V)
  PROVE  /\ a \notin {NoRequest, Sent0}
         /\ a.state = "ok" => a.value \in V
         /\ a.state # "ok" => a.state \in Failures
BY AnswerFacts DEF Answers

LEMMA RestartedHook ==
  ASSUME NEW V, NEW h \in HookType(V), NEW r, r = Restarted(h)
  PROVE  /\ r \in HookType(V)
         /\ r.request = Sent0 /\ r.data = h.data
BY DEF Restarted, HookType

LEMMA AskedHook ==
  ASSUME NEW V, NEW h \in HookType(V), NEW r, r = [h EXCEPT !.timer = FALSE, !.request = Sent0]
  PROVE  r \in HookType(V) /\ r.request = Sent0 /\ r.data = h.data
BY DEF HookType

LEMMA ServedHook ==
  ASSUME NEW V, NEW h \in HookType(V), NEW a \in Answers(V), NEW r, r = [h EXCEPT !.request = a]
  PROVE  r \in HookType(V) /\ r.request = a /\ r.data = h.data
BY DEF HookType

LEMMA DueHook ==
  ASSUME NEW V, NEW h \in HookType(V), NEW due \in BOOLEAN, NEW r, r = [h EXCEPT !.due = due]
  PROVE  /\ r \in HookType(V) /\ r.due = due
         /\ r.request = h.request /\ r.data = h.data /\ r.error = h.error
BY DEF HookType

LEMMA ArrivedHook ==
  ASSUME NEW V, NEW h \in HookType(V), h.request \notin {NoRequest, Sent0}, NEW poll \in BOOLEAN,
         NEW r, r = HookAfter(h, poll)
  PROVE  /\ r \in HookType(V) /\ r.request = NoRequest /\ r.due = h.due
         /\ h.request.state = "ok" => r.data = h.request.value /\ r.data \in V /\ (poll => r.timer)
         /\ h.request.state # "ok" => r.data = h.data /\ r.error # "none"
<1>1. h.request \in Answers(V)
  BY DEF HookType
<1>2. /\ h.request.state = "ok" => h.request.value \in V
      /\ h.request.state # "ok" => h.request.state \in Failures
  BY <1>1, AnswerCases
<1>3. Latest(h) \in {<<>>} \cup V
  BY <1>2 DEF Latest, HookType
<1>4. r \in HookType(V)
  BY <1>2, <1>3 DEF HookAfter, HookType
<1>5. "none" \notin Failures
  BY DEF Failures
<1> QED BY <1>2, <1>4, <1>5 DEF HookAfter, Latest, HookType

-----------------------------------------------------------------------------
(* What the form sends.                                                    *)

\* A number that was typed and is fine is sent as a whole number.
LEMMA TypedFields ==
  ASSUME NEW typed, typed \in Seq(Nat), Len(typed) <= 1, NEW min \in Nat, Fine(typed, min),
         NEW unit \in Nat, NEW least, least = min * unit, NEW field, NEW sent, sent = Typed(field, typed, unit)
  PROVE  /\ DOMAIN sent \subseteq {field}
         /\ field \in DOMAIN sent => sent[field] \in Nat /\ sent[field] >= least
<1>1. CASE typed = <<>>
  BY <1>1 DEF Typed
<1>2. CASE typed # <<>>
  <2> DEFINE n == typed[1]
  <2>1. n \in Nat /\ n % 10 = 0 /\ n >= 10 * min
    BY <1>2 DEF Fine
  <2> HIDE DEF n
  <2>2. n \div 10 \in Nat /\ n \div 10 >= min
    BY <2>1
  <2>3. (n \div 10) * unit \in Nat /\ (n \div 10) * unit >= min * unit
    <3> DEFINE whole == n \div 10
    <3> HIDE DEF whole
    <3>1. whole \in Nat /\ whole >= min
      BY <2>2 DEF whole
    <3>2. whole * unit \in Nat /\ whole * unit >= min * unit
      BY <3>1
    <3> QED BY <3>2 DEF whole
  <2>4. DOMAIN sent = {field} /\ sent[field] = (n \div 10) * unit
    BY <1>2 DEF Typed, n
  <2> QED BY <2>3, <2>4
<1> QED BY <1>1, <1>2

\* What the API must refuse of a body that matches the rest of the schema.
Long(patterns) == Len(patterns) > 20 \/ \E i \in DOMAIN patterns : patterns[i].length > 200
Outside(body) ==
  Sent(body, "allowed_domain")
    /\ ~Within(NormalizeHostname(body.url.host), NormalizeHostname(body.allowed_domain))

LEMMA TargetCodes ==
  ASSUME NEW url
  PROVE  CheckUrl(url, Policy, Answer) # "VALIDATION_ERROR"
<1>1. CheckUrlSyntax(url, Policy) # "VALIDATION_ERROR"
  BY DEF CheckUrlSyntax
<1>2. ASSUME NEW h PROVE ResolvePublicAddresses(h, Policy, Answer).code # "VALIDATION_ERROR"
  BY DEF ResolvePublicAddresses
<1> QED BY <1>1, <1>2 DEF CheckUrl

LEMMA ScopeCodes ==
  ASSUME Limits.maxPatternLength = 200, NEW body, ~Sent(body, "exclude_patterns"),
         NEW patterns, patterns = Or(body, "include_patterns", <<>>),
         \A i \in DOMAIN patterns : patterns[i].length \in Nat \ {0} /\ patterns[i].valid,
         ~Long(patterns), ~Outside(body)
  PROVE  NormalizeScope(body, NormalizeHostname(body.url.host), Limits).code # "VALIDATION_ERROR"
<1> DEFINE host == NormalizeHostname(body.url.host)
           domain == IF Sent(body, "allowed_domain") THEN NormalizeHostname(body.allowed_domain) ELSE host
           exclude == Or(body, "exclude_patterns", <<>>)
           include == Or(body, "include_patterns", <<>>)
<1>1. CheckPatterns(include, Limits) # "VALIDATION_ERROR"
  <2>1. ASSUME NEW i \in DOMAIN patterns PROVE patterns[i].length \in 1..200
    <3> DEFINE n == patterns[i].length
    <3>1. n \in Nat \ {0}
      OBVIOUS
    <3>2. ~(n > 200)
      BY DEF Long
    <3> HIDE DEF n
    <3>3. n \in 1..200
      BY <3>1, <3>2
    <3> QED BY <3>3 DEF n
  <2>2. \A i \in DOMAIN include : include[i].length \in 1..200 /\ include[i].valid
    BY <2>1
  <2> QED BY <2>2 DEF CheckPatterns
<1>2. CheckPatterns(exclude, Limits) # "VALIDATION_ERROR"
  <2>1. exclude = <<>>
    BY DEF Or
  <2> QED BY <2>1 DEF CheckPatterns
<1>3. Within(host, domain)
  BY DEF Outside, Within
<1> HIDE DEF host, domain, exclude, include
<1>4. ASSUME NEW v PROVE Ok(v).code = "ok"
  BY DEF Ok
<1>5. ASSUME NEW c PROVE Fail(c).code = c
  BY DEF Fail
<1> QED BY <1>1, <1>2, <1>3, <1>4, <1>5 DEF NormalizeScope, host, domain, exclude, include

\* What is typed is what the fields of the form hold.
LEMMA FormFields ==
  ASSUME NEW f \in FormType
  PROVE  /\ \A typed \in {f.timeout, f.depth, f.pages, f.limit} : typed \in Seq(Nat) /\ Len(typed) <= 1
         /\ f.include \in Seq([length : Nat \ {0}, valid : BOOLEAN])
         /\ f.formats \subseteq OutputFormat
<1>1. /\ {f.timeout, f.depth, f.pages, f.limit} \subseteq {<<>>} \cup (Seconds \cup Counts)
      /\ f.include \in {<<>>} \cup Patterns
      /\ f.formats \subseteq OutputFormat
  BY DEF FormType, Blank
<1>2. \A S : <<>> \in Seq(S) /\ Len(<<>>) = 0
  OBVIOUS
<1>3. /\ \A typed \in Seconds \cup Counts : typed \in Seq(Nat) /\ Len(typed) <= 1
      /\ \A p \in Patterns : p \in Seq([length : Nat \ {0}, valid : BOOLEAN])
  BY TypedAssumption
<1>4. ASSUME NEW typed \in {f.timeout, f.depth, f.pages, f.limit}
      PROVE  typed \in Seq(Nat) /\ Len(typed) <= 1
  <2>1. CASE typed \in Seconds \cup Counts
    BY <2>1, <1>3
  <2>2. CASE typed = <<>>
    BY <2>2, <1>2
  <2> QED BY <1>1, <2>1, <2>2
<1>5. f.include \in Seq([length : Nat \ {0}, valid : BOOLEAN])
  BY <1>1, <1>2, <1>3, Zenon
<1> QED BY <1>1, <1>4, <1>5

LEMMA WithTimeout ==
  ASSUME NEW known, NEW timeout, NEW base, base = Both(known, timeout),
         DOMAIN known = {"url", "project_id", "formats", "only_main_content"},
         DOMAIN timeout \subseteq {"timeout_ms"}
  PROVE  /\ {"url", "formats"} \subseteq DOMAIN base
         /\ DOMAIN base \subseteq {"url", "project_id", "formats", "only_main_content", "timeout_ms"}
         /\ base["formats"] = known["formats"]
         /\ "timeout_ms" \in DOMAIN base => "timeout_ms" \in DOMAIN timeout /\ base["timeout_ms"] = timeout["timeout_ms"]
BY DEF Both

\* The fields of a page that is scraped.
Base(f) ==
  Both([url |-> f.url[1], project_id |-> "p", formats |-> f.formats, only_main_content |-> TRUE],
         Typed("timeout_ms", f.timeout, 1000))

LEMMA BaseFields ==
  ASSUME NEW f \in FormType, ~FieldErrors(f), f.mode # "map", NEW base, base = Base(f)
  PROVE  /\ {"url", "formats"} \subseteq DOMAIN base
         /\ DOMAIN base \subseteq {"url", "project_id", "formats", "only_main_content", "timeout_ms"}
         /\ base.formats = f.formats /\ f.formats \in (SUBSET OutputFormat) \ {{}}
         /\ "timeout_ms" \in DOMAIN base => base.timeout_ms \in Nat /\ base.timeout_ms >= 1000
<1> DEFINE known == [url |-> f.url[1], project_id |-> "p", formats |-> f.formats, only_main_content |-> TRUE]
           timeout == Typed("timeout_ms", f.timeout, 1000)
<1>1. f.timeout \in Seq(Nat) /\ Len(f.timeout) <= 1 /\ f.formats \subseteq OutputFormat
  BY FormFields
<1>2. Fine(f.timeout, 1) /\ f.formats # {}
  BY DEF FieldErrors
<1>3. /\ DOMAIN timeout \subseteq {"timeout_ms"}
      /\ "timeout_ms" \in DOMAIN timeout => timeout["timeout_ms"] \in Nat /\ timeout["timeout_ms"] >= 1000
  <2>1. 1 \in Nat /\ 1000 \in Nat /\ 1000 = 1 * 1000
    OBVIOUS
  <2> QED BY <1>1, <1>2, <2>1, TypedFields
<1>4. DOMAIN known = {"url", "project_id", "formats", "only_main_content"} /\ known["formats"] = f.formats
  OBVIOUS
<1> HIDE DEF known, timeout
<1>5. base = Both(known, timeout)
  BY DEF Base, known, timeout
<1>6. /\ {"url", "formats"} \subseteq DOMAIN base
      /\ DOMAIN base \subseteq {"url", "project_id", "formats", "only_main_content", "timeout_ms"}
      /\ base["formats"] = known["formats"]
      /\ "timeout_ms" \in DOMAIN base => "timeout_ms" \in DOMAIN timeout /\ base["timeout_ms"] = timeout["timeout_ms"]
  BY <1>3, <1>4, <1>5, WithTimeout
<1>7. f.formats \in (SUBSET OutputFormat) \ {{}}
  BY <1>1, <1>2
<1> QED BY <1>3, <1>4, <1>6, <1>7

\* The fields of its scope.
LEMMA ScopeSent ==
  ASSUME NEW f, NEW scope, scope = Scope(f)
  PROVE  /\ DOMAIN scope \subseteq {"include_patterns", "allowed_domain", "allow_subdomains"}
         /\ Or(scope, "include_patterns", <<>>) = f.include
<1> DEFINE include == [x \in (IF f.include = <<>> THEN {} ELSE {"include_patterns"}) |-> f.include]
           domain == [x \in (IF f.domain = <<>> THEN {} ELSE {"allowed_domain"}) |-> f.domain[1]]
           below == [allow_subdomains |-> FALSE]
           rest == Both(domain, below)
<1>1. DOMAIN below = {"allow_subdomains"} /\ DOMAIN domain \subseteq {"allowed_domain"}
      /\ DOMAIN include \subseteq {"include_patterns"}
      /\ IF "include_patterns" \in DOMAIN include THEN include["include_patterns"] = f.include ELSE f.include = <<>>
  OBVIOUS
<1>2. scope = Both(include, rest)
  BY DEF Scope
<1> HIDE DEF include, domain, below, rest
<1>3. DOMAIN rest \subseteq {"allowed_domain", "allow_subdomains"}
  <2>1. DOMAIN rest = DOMAIN domain \cup DOMAIN below
    BY DEF rest, Both
  <2> QED BY <1>1, <2>1
<1>4. /\ DOMAIN scope = DOMAIN include \cup DOMAIN rest
      /\ \A x \in DOMAIN include \ DOMAIN rest : scope[x] = include[x]
  BY <1>2 DEF Both
<1>5. "include_patterns" \notin DOMAIN rest
  BY <1>3
<1>6. "include_patterns" \in DOMAIN scope <=> "include_patterns" \in DOMAIN include
  BY <1>4, <1>5
<1>7. "include_patterns" \in DOMAIN include => scope["include_patterns"] = include["include_patterns"]
  BY <1>4, <1>5
<1>8. Or(scope, "include_patterns", <<>>) = f.include
  BY <1>1, <1>6, <1>7 DEF Or, Sent
<1> QED BY <1>1, <1>3, <1>4, <1>8

LEMMA CrawlSent ==
  ASSUME NEW base, NEW scope, NEW depth, NEW pages,
         NEW body, body = Both(Both(base, scope), Both(depth, pages)),
         DOMAIN base \subseteq {"url", "project_id", "formats", "only_main_content", "timeout_ms"},
         DOMAIN scope \subseteq {"include_patterns", "allowed_domain", "allow_subdomains"},
         DOMAIN depth \subseteq {"max_depth"}, DOMAIN pages \subseteq {"max_pages"}
  PROVE  /\ \A x : x \in DOMAIN body <=> x \in DOMAIN base \/ x \in DOMAIN scope \/ x \in DOMAIN depth \/ x \in DOMAIN pages
         /\ \A x \in DOMAIN base : body[x] = base[x]
         /\ \A x \in DOMAIN scope : body[x] = scope[x]
         /\ \A x \in DOMAIN pages : body[x] = pages[x]
<1> DEFINE page1 == Both(base, scope)
           size == Both(depth, pages)
<1>1. /\ DOMAIN page1 = DOMAIN base \cup DOMAIN scope
      /\ \A x \in DOMAIN scope : page1[x] = scope[x]
      /\ \A x \in DOMAIN base \ DOMAIN scope : page1[x] = base[x]
  BY DEF Both
<1>2. /\ DOMAIN size = DOMAIN depth \cup DOMAIN pages
      /\ \A x \in DOMAIN pages : size[x] = pages[x]
  BY DEF Both
<1> HIDE DEF page1, size
<1>3. /\ DOMAIN body = DOMAIN page1 \cup DOMAIN size
      /\ \A x \in DOMAIN size : body[x] = size[x]
      /\ \A x \in DOMAIN page1 \ DOMAIN size : body[x] = page1[x]
  BY DEF Both, page1, size
<1>4. DOMAIN base \cap DOMAIN scope = {} /\ DOMAIN page1 \cap DOMAIN size = {}
  BY <1>1, <1>2
<1>5. ASSUME NEW x \in DOMAIN base PROVE body[x] = base[x]
  BY <1>1, <1>3, <1>4
<1>6. ASSUME NEW x \in DOMAIN scope PROVE body[x] = scope[x]
  BY <1>1, <1>3, <1>4
<1>7. ASSUME NEW x \in DOMAIN pages PROVE body[x] = pages[x]
  BY <1>2, <1>3
<1> QED BY <1>1, <1>2, <1>3, <1>5, <1>6, <1>7

LEMMA MapSent ==
  ASSUME NEW target, NEW scope, NEW limit, NEW body, body = Both(Both(target, scope), limit),
         DOMAIN target = {"url"},
         DOMAIN scope \subseteq {"include_patterns", "allowed_domain", "allow_subdomains"},
         DOMAIN limit \subseteq {"limit"}
  PROVE  /\ \A x : x \in DOMAIN body <=> x = "url" \/ x \in DOMAIN scope \/ x \in DOMAIN limit
         /\ \A x \in DOMAIN scope : body[x] = scope[x]
         /\ \A x \in DOMAIN limit : body[x] = limit[x]
<1> DEFINE scoped == Both(target, scope)
<1>1. DOMAIN scoped = {"url"} \cup DOMAIN scope /\ \A x \in DOMAIN scope : scoped[x] = scope[x]
  BY DEF Both
<1> HIDE DEF scoped
<1>2. /\ DOMAIN body = DOMAIN scoped \cup DOMAIN limit
      /\ \A x \in DOMAIN limit : body[x] = limit[x]
      /\ \A x \in DOMAIN scoped \ DOMAIN limit : body[x] = scoped[x]
  BY DEF Both, scoped
<1>3. ASSUME NEW x \in DOMAIN scope PROVE body[x] = scope[x]
  <2>1. x \in DOMAIN scoped \ DOMAIN limit
    BY <1>1
  <2> QED BY <1>1, <1>2, <2>1
<1> QED BY <1>1, <1>2, <1>3

\* A body that only the target, the limits, the patterns and the domain can get
\* refused.
AtLeast(body, field, least) == field \in DOMAIN body => body[field] \in Nat /\ body[field] >= least
Usable(patterns) == \A i \in DOMAIN patterns : patterns[i].length \in Nat \ {0} /\ patterns[i].valid
Sendable(mode, body) ==
  /\ "url" \in DOMAIN body /\ DOMAIN body \subseteq FieldsOf(mode) \ {"wait_for_ms", "exclude_patterns"}
  /\ "formats" \in DOMAIN body => body["formats"] \in (SUBSET OutputFormat) \ {{}}
  /\ mode = "crawl" => "formats" \in DOMAIN body /\ "branding" \notin body["formats"]
  /\ AtLeast(body, "timeout_ms", 1000) /\ AtLeast(body, "max_pages", 1) /\ AtLeast(body, "limit", 1)
  /\ Usable(Or(body, "include_patterns", <<>>))

LEMMA ElementAt ==
  ASSUME NEW S, NEW p \in Seq(S), NEW i \in DOMAIN p
  PROVE  p[i] \in S
<1>1. i \in 1..Len(p)
  OBVIOUS
<1> QED BY <1>1

LEMMA PatternLengths ==
  ASSUME NEW p \in Seq([length : Nat \ {0}, valid : BOOLEAN])
  PROVE  \A i \in DOMAIN p : p[i].length \in Nat \ {0}
<1>1. ASSUME NEW i \in DOMAIN p PROVE p[i] \in [length : Nat \ {0}, valid : BOOLEAN]
  BY ElementAt
<1> QED BY <1>1

LEMMA FormSends ==
  ASSUME NEW f \in FormType, f.mode = "crawl" => "branding" \notin f.formats, ~FieldErrors(f)
  PROVE  Sendable(f.mode, Body(f))
<1> DEFINE body == Body(f)
           scope == Scope(f)
<1>1. \A typed \in {f.timeout, f.depth, f.pages, f.limit} : typed \in Seq(Nat) /\ Len(typed) <= 1
  BY FormFields
<1>2. /\ DOMAIN scope \subseteq {"include_patterns", "allowed_domain", "allow_subdomains"}
      /\ Or(scope, "include_patterns", <<>>) = f.include
  BY ScopeSent
<1>3. f.mode # "scrape" => Usable(f.include)
  <2>1. f.include \in Seq([length : Nat \ {0}, valid : BOOLEAN])
    BY FormFields
  <2>2. f.mode # "scrape" => \A i \in DOMAIN f.include : f.include[i].valid
    BY DEF FieldErrors
  <2>3. \A i \in DOMAIN f.include : f.include[i].length \in Nat \ {0}
    BY <2>1, PatternLengths
  <2> QED BY <2>2, <2>3 DEF Usable
<1>4. ASSUME f.mode # "map"
      PROVE  /\ {"url", "formats"} \subseteq DOMAIN Base(f)
             /\ DOMAIN Base(f) \subseteq {"url", "project_id", "formats", "only_main_content", "timeout_ms"}
             /\ Base(f)["formats"] = f.formats /\ f.formats \in (SUBSET OutputFormat) \ {{}}
             /\ AtLeast(Base(f), "timeout_ms", 1000)
  BY <1>4, BaseFields DEF AtLeast
<1>5. f.mode \in {"scrape", "crawl", "map"}
  BY DEF FormType, Modes
<1>6. CASE f.mode = "scrape"
  <2>1. body = Base(f)
    BY <1>6 DEF Body, Base
  <2> HIDE DEF body
  <2>2. {"include_patterns", "max_pages", "limit"} \cap DOMAIN body = {}
    BY <1>4, <1>6, <2>1
  <2>3. DOMAIN body \subseteq FieldsOf("scrape") \ {"wait_for_ms", "exclude_patterns"}
    BY <1>4, <1>6, <2>1 DEF FieldsOf
  <2>4. Usable(Or(body, "include_patterns", <<>>))
    BY <2>2 DEF Or, Sent, Usable
  <2> QED BY <1>4, <1>6, <2>1, <2>2, <2>3, <2>4 DEF Sendable, AtLeast, body
<1>7. CASE f.mode = "crawl"
  <2> DEFINE base == Base(f)
             depth == Typed("max_depth", f.depth, 1)
             pages == Typed("max_pages", f.pages, 1)
  <2>1. body = Both(Both(base, scope), Both(depth, pages))
    BY <1>7 DEF Body, Base
  <2>2. Fine(f.depth, 0) /\ Fine(f.pages, 1)
    BY <1>7 DEF FieldErrors
  <2>3. DOMAIN depth \subseteq {"max_depth"}
    <3>1. 0 \in Nat /\ 1 \in Nat /\ 0 = 0 * 1
      OBVIOUS
    <3> QED BY <1>1, <2>2, <3>1, TypedFields
  <2>4. DOMAIN pages \subseteq {"max_pages"} /\ AtLeast(pages, "max_pages", 1)
    <3>1. 1 \in Nat /\ 1 = 1 * 1
      OBVIOUS
    <3> QED BY <1>1, <2>2, <3>1, TypedFields DEF AtLeast
  <2>5. /\ {"url", "formats"} \subseteq DOMAIN base
        /\ DOMAIN base \subseteq {"url", "project_id", "formats", "only_main_content", "timeout_ms"}
        /\ base["formats"] = f.formats /\ f.formats \in (SUBSET OutputFormat) \ {{}}
        /\ AtLeast(base, "timeout_ms", 1000)
    BY <1>4, <1>7
  <2> HIDE DEF body, scope, base, depth, pages
  <2>6. /\ \A x : x \in DOMAIN body <=> x \in DOMAIN base \/ x \in DOMAIN scope \/ x \in DOMAIN depth \/ x \in DOMAIN pages
        /\ \A x \in DOMAIN base : body[x] = base[x]
        /\ \A x \in DOMAIN scope : body[x] = scope[x]
        /\ \A x \in DOMAIN pages : body[x] = pages[x]
    BY <1>2, <2>1, <2>3, <2>4, <2>5, CrawlSent
  <2>7. Or(body, "include_patterns", <<>>) = f.include
    <3>1. "include_patterns" \in DOMAIN body <=> "include_patterns" \in DOMAIN scope
      BY <2>3, <2>4, <2>5, <2>6
    <3> QED BY <1>2, <2>6, <3>1 DEF Or, Sent
  <2>8. AtLeast(body, "timeout_ms", 1000) /\ AtLeast(body, "max_pages", 1) /\ AtLeast(body, "limit", 1)
    <3>1. /\ "timeout_ms" \in DOMAIN body => "timeout_ms" \in DOMAIN base
          /\ "max_pages" \in DOMAIN body => "max_pages" \in DOMAIN pages
          /\ "limit" \notin DOMAIN body
      BY <1>2, <2>3, <2>4, <2>5, <2>6
    <3> QED BY <2>4, <2>5, <2>6, <3>1 DEF AtLeast
  <2>9. DOMAIN body \subseteq FieldsOf("crawl") \ {"wait_for_ms", "exclude_patterns"}
    BY <1>2, <2>3, <2>4, <2>5, <2>6 DEF FieldsOf, ScopeFields
  <2>10. "formats" \in DOMAIN body /\ body["formats"] = f.formats /\ "url" \in DOMAIN body
    BY <2>5, <2>6
  <2> QED BY <1>3, <1>7, <2>5, <2>7, <2>8, <2>9, <2>10 DEF Sendable, body
<1>8. CASE f.mode = "map"
  <2> DEFINE target == [url |-> f.url[1]]
             limit == Typed("limit", f.limit, 1)
  <2>1. body = Both(Both(target, scope), limit)
    BY <1>8 DEF Body
  <2>2. Fine(f.limit, 1)
    BY <1>8 DEF FieldErrors
  <2>3. DOMAIN limit \subseteq {"limit"} /\ AtLeast(limit, "limit", 1)
    <3>1. 1 \in Nat /\ 1 = 1 * 1
      OBVIOUS
    <3> DEFINE number == f.limit
    <3>2. number \in Seq(Nat) /\ Len(number) <= 1 /\ Fine(number, 1) /\ limit = Typed("limit", number, 1)
      BY <1>1, <2>2
    <3> HIDE DEF number, limit
    <3>3. DOMAIN limit \subseteq {"limit"} /\ ("limit" \in DOMAIN limit => limit["limit"] \in Nat /\ limit["limit"] >= 1)
      BY <3>1, <3>2, TypedFields
    <3> QED BY <3>3 DEF AtLeast
  <2>4. DOMAIN target = {"url"}
    OBVIOUS
  <2> HIDE DEF body, scope, target, limit
  <2>5. /\ \A x : x \in DOMAIN body <=> x = "url" \/ x \in DOMAIN scope \/ x \in DOMAIN limit
        /\ \A x \in DOMAIN scope : body[x] = scope[x]
        /\ \A x \in DOMAIN limit : body[x] = limit[x]
    BY <1>2, <2>1, <2>3, <2>4, MapSent
  <2>6. Or(body, "include_patterns", <<>>) = f.include
    <3>1. "include_patterns" \in DOMAIN body <=> "include_patterns" \in DOMAIN scope
      BY <2>3, <2>5
    <3> QED BY <1>2, <2>5, <3>1 DEF Or, Sent
  <2>7. AtLeast(body, "timeout_ms", 1000) /\ AtLeast(body, "max_pages", 1) /\ AtLeast(body, "limit", 1)
    <3>1. /\ "timeout_ms" \notin DOMAIN body /\ "max_pages" \notin DOMAIN body
          /\ "limit" \in DOMAIN body => "limit" \in DOMAIN limit
      BY <1>2, <2>3, <2>5
    <3> QED BY <2>3, <2>5, <3>1 DEF AtLeast
  <2>8. DOMAIN body \subseteq FieldsOf("map") \ {"wait_for_ms", "exclude_patterns"}
    BY <1>2, <2>3, <2>5 DEF FieldsOf, ScopeFields
  <2>9. "formats" \notin DOMAIN body /\ "url" \in DOMAIN body
    BY <1>2, <2>3, <2>5
  <2> QED BY <1>3, <1>8, <2>6, <2>7, <2>8, <2>9 DEF Sendable, body
<1> QED BY <1>5, <1>6, <1>7, <1>8

LEMMA OutcomeCodes ==
  /\ \A value : Ok(value).code = "ok" /\ Ok(value).value = value
  /\ \A code : Fail(code).code = code
BY DEF Ok, Fail

\* What is left of the schema are the patterns, of the options the patterns and
\* the domain.
LEMMA SendableMatches ==
  ASSUME NEW mode \in {"scrape", "crawl", "map"}, NEW body, Sendable(mode, body),
         ~Long(Or(body, "include_patterns", <<>>))
  PROVE  MatchesSchema(mode, body)
<1> DEFINE patterns == Or(body, "include_patterns", <<>>)
<1>1. "wait_for_ms" \notin DOMAIN body /\ "exclude_patterns" \notin DOMAIN body
  BY DEF Sendable
<1>2. Or(body, "formats", {"markdown"}) \in (SUBSET OutputFormat) \ {{}}
  BY DEF Sendable, Or, Sent, OutputFormat
<1>3. ~(Len(patterns) > 20)
  BY DEF Long
<1>4. ASSUME NEW i \in DOMAIN patterns PROVE patterns[i].length <= 200
  <2>1. patterns[i].length \in Nat /\ ~(patterns[i].length > 200)
    BY DEF Sendable, Usable, Long
  <2> QED BY <2>1
<1>5. Or(body, "exclude_patterns", <<>>) = <<>>
  BY <1>1 DEF Or, Sent
<1>6. Or(body, "wait_for_ms", 0) <= 30000
  BY <1>1 DEF Or, Sent
<1>7. /\ Or(body, "timeout_ms", 1000) >= 1000
      /\ Or(body, "max_pages", 1) >= 1 /\ Or(body, "limit", 1) >= 1
  BY DEF Sendable, AtLeast, Or, Sent
<1>8. "url" \in DOMAIN body /\ DOMAIN body \subseteq FieldsOf(mode)
  BY DEF Sendable
<1> HIDE DEF patterns
<1> QED BY <1>2, <1>3, <1>4, <1>5, <1>6, <1>7, <1>8 DEF MatchesSchema, patterns

LEMMA ScrapeCodes ==
  ASSUME NEW mode, NEW body, Sendable(mode, body), NEW outcome, outcome = NormalizeScrapeOptions(body, Limits)
  PROVE  /\ outcome.code # "VALIDATION_ERROR"
         /\ outcome.code = "ok" => outcome.value.formats = Or(body, "formats", {"markdown"})
<1> DEFINE timeout == Or(body, "timeout_ms", Limits.defaultScrapeTimeoutMs)
           wait == Or(body, "wait_for_ms", 0)
           options == [formats |-> Or(body, "formats", {"markdown"}), timeoutMs |-> timeout, waitForMs |-> wait,
                       onlyMainContent |-> Or(body, "only_main_content", TRUE)]
<1>1. wait = 0
  BY DEF Sendable, Or, Sent
<1>2. timeout \in Nat
  BY TypedAssumption DEF Sendable, AtLeast, Or, Sent
<1>3. options.formats = Or(body, "formats", {"markdown"})
  OBVIOUS
<1>4. outcome = IF timeout > Limits.maxScrapeTimeoutMs THEN Fail("LIMIT_EXCEEDED")
                ELSE IF 2 * wait > timeout THEN Fail("VALIDATION_ERROR") ELSE Ok(options)
  BY DEF NormalizeScrapeOptions
<1> HIDE DEF timeout, wait, options
<1>5. ~(2 * wait > timeout)
  BY <1>1, <1>2
<1> QED BY <1>3, <1>4, <1>5, OutcomeCodes

LEMMA SendableCodes ==
  ASSUME NEW mode \in {"scrape", "crawl", "map"}, NEW body, Sendable(mode, body),
         ~Long(Or(body, "include_patterns", <<>>)), ~Outside(body)
  PROVE  Normalize(mode, body, Limits, Policy, Answer).code # "VALIDATION_ERROR"
<1> DEFINE host == NormalizeHostname(body.url.host)
           scope == NormalizeScope(body, host, Limits)
           base == NormalizeScrapeOptions(body, Limits)
<1>1. scope.code # "VALIDATION_ERROR"
  <2>1. Limits.maxPatternLength = 200
    BY TypedAssumption
  <2>2. ~Sent(body, "exclude_patterns")
    BY DEF Sendable, Sent
  <2>3. Usable(Or(body, "include_patterns", <<>>))
    BY DEF Sendable
  <2> QED BY <2>1, <2>2, <2>3, ScopeCodes DEF Usable
<1>2. /\ base.code # "VALIDATION_ERROR"
      /\ base.code = "ok" => base.value.formats = Or(body, "formats", {"markdown"})
  BY ScrapeCodes
<1>3. CheckUrl(body.url, Policy, Answer) # "VALIDATION_ERROR"
  BY TargetCodes
<1>4. mode = "crawl" => "branding" \notin Or(body, "formats", {"markdown"})
  BY DEF Sendable, Or, Sent
<1> HIDE DEF scope, base
<1>5. mode = "crawl" => NormalizeCrawlOptions(body, host, Limits).code # "VALIDATION_ERROR"
  BY <1>1, <1>2, <1>4, OutcomeCodes DEF NormalizeCrawlOptions, scope, base
<1>6. MapOptions(body, host, Limits).code # "VALIDATION_ERROR"
  BY <1>1, OutcomeCodes DEF MapOptions, scope
<1> HIDE DEF host
<1> QED BY <1>2, <1>3, <1>5, <1>6, OutcomeCodes DEF Normalize, host, base

LEMMA FormVerdict ==
  ASSUME NEW f \in FormType, f.mode = "crawl" => "branding" \notin f.formats, ~FieldErrors(f),
         Verdict(f.mode, Body(f)) = "VALIDATION_ERROR"
  PROVE  Long(Or(Body(f), "include_patterns", <<>>)) \/ Outside(Body(f))
<1>1. f.mode \in {"scrape", "crawl", "map"}
  BY DEF FormType, Modes
<1>2. Sendable(f.mode, Body(f))
  BY FormSends
<1> QED BY <1>1, <1>2, SendableMatches, SendableCodes DEF Verdict

-----------------------------------------------------------------------------
(* The steps of the dashboard: the form and its request.                   *)

LEMMA InitDashInv == DashInit => DashInv
<1> SUFFICES ASSUME DashInit PROVE DashInv
  OBVIOUS
<1> USE DEF DashInit
<1>1. Filling
  BY DEF Filling, FormType, EmptyForm, Blank, Modes, OutputFormat
<1>2. Posting
  BY DEF Posting, NoPost, EmptyForm
<1>3. Making
  BY DEF Making, Unread, NoPost
<1>4. shown = NoHook /\ NoHook.data = <<>> /\ NoHook.request = NoRequest
  BY DEF NoHook
<1>5. Shape
  <2>1. \A V : NoHook \in HookType(V)
    BY DEF NoHook, HookType
  <2>2. server \in ServerType /\ server.final <= server.rows
    BY DEF NoServer, ServerType
  <2> QED BY <2>1, <2>2 DEF Shape
<1>6. EndIsEnd
  BY <1>4, AnswerCases DEF EndIsEnd
<1>7. Alive /\ Following
  BY <1>4 DEF Alive, Following
<1> QED BY <1>1, <1>2, <1>3, <1>5, <1>6, <1>7 DEF DashInv

LEMMA EditKeeps ==
  ASSUME Filling, Posting, Making, NEW f \in FormType, f.mode = "crawl" => "branding" \notin f.formats,
         f.busy = form.busy, Edit(f)
  PROVE  Filling' /\ Posting' /\ Making'
<1>1. page = "form" /\ post.state = "none" /\ ~f.busy
  BY DEF Edit, Editing, Posting
<1>2. form' = f /\ UNCHANGED <<page, post, made, server, shown, results, filter, cancel>>
  BY DEF Edit, pageVars
<1>3. Filling'
  BY <1>2 DEF Filling
<1>4. Posting'
  BY <1>1, <1>2 DEF Posting
<1>5. Making'
  BY <1>2 DEF Making, Unread
<1> QED BY <1>3, <1>4, <1>5

LEMMA FormInv ==
  ASSUME DashInv, [DashNext]_dashVars
  PROVE  Filling' /\ Posting' /\ Making'
<1> USE DEF DashInv
<1>1. CASE UNCHANGED dashVars
  BY <1>1 DEF dashVars, Filling, Posting, Making, Unread
<1>2. CASE ChangeMode
  <2>1. PICK m \in Modes :
          Edit([form EXCEPT !.mode = m, !.formats = IF m = "crawl" THEN @ \ ScrapeOnly ELSE @])
    BY <1>2 DEF ChangeMode
  <2> DEFINE f == [form EXCEPT !.mode = m, !.formats = IF m = "crawl" THEN @ \ ScrapeOnly ELSE @]
  <2>2. f \in FormType /\ f.busy = form.busy
    BY DEF Filling, FormType
  <2>3. f.mode = "crawl" => "branding" \notin f.formats
    BY DEF Filling, FormType, ScrapeOnly
  <2>4. Edit(f)
    BY <2>1
  <2> HIDE DEF f
  <2> QED BY <2>2, <2>3, <2>4, EditKeeps
<1>3. CASE ToggleFormat
  <2>1. PICK x \in Offered \ (IF form.mode = "crawl" THEN ScrapeOnly ELSE {}) :
          Edit([form EXCEPT !.formats = IF x \in @ THEN @ \ {x} ELSE @ \cup {x}])
    BY <1>3 DEF ToggleFormat
  <2> DEFINE f == [form EXCEPT !.formats = IF x \in @ THEN @ \ {x} ELSE @ \cup {x}]
  <2>2. x \in OutputFormat /\ (form.mode = "crawl" => x # "branding")
    BY TypedAssumption DEF ScrapeOnly
  <2>3. f \in FormType /\ f.busy = form.busy /\ f.mode = form.mode
    BY <2>2 DEF Filling, FormType
  <2>4. f.mode = "crawl" => "branding" \notin f.formats
    BY <2>2, <2>3 DEF Filling, FormType
  <2>5. Edit(f)
    BY <2>1
  <2> HIDE DEF f
  <2> QED BY <2>3, <2>4, <2>5, EditKeeps
<1>4. CASE TypeField
  <2>1. ASSUME NEW f, f \in FormType, f.busy = form.busy, f.mode = form.mode, f.formats = form.formats, Edit(f)
        PROVE  Filling' /\ Posting' /\ Making'
    BY <2>1, EditKeeps DEF Filling
  <2>2. ASSUME NEW u \in Urls, Edit([form EXCEPT !.url = <<u>>])
        PROVE  Filling' /\ Posting' /\ Making'
    BY <2>1, <2>2 DEF Filling, FormType, Blank
  <2>3. ASSUME NEW t \in Seconds, Edit([form EXCEPT !.timeout = t])
        PROVE  Filling' /\ Posting' /\ Making'
    BY <2>1, <2>3 DEF Filling, FormType, Blank
  <2>4. ASSUME NEW n \in Counts,
               Edit([form EXCEPT !.depth = n]) \/ Edit([form EXCEPT !.pages = n]) \/ Edit([form EXCEPT !.limit = n])
        PROVE  Filling' /\ Posting' /\ Making'
    <3>1. CASE Edit([form EXCEPT !.depth = n])
      BY <2>1, <3>1 DEF Filling, FormType, Blank
    <3>2. CASE Edit([form EXCEPT !.pages = n])
      BY <2>1, <3>2 DEF Filling, FormType, Blank
    <3>3. CASE Edit([form EXCEPT !.limit = n])
      BY <2>1, <3>3 DEF Filling, FormType, Blank
    <3> QED BY <2>4, <3>1, <3>2, <3>3
  <2>5. ASSUME NEW p \in Patterns, Edit([form EXCEPT !.include = p])
        PROVE  Filling' /\ Posting' /\ Making'
    BY <2>1, <2>5 DEF Filling, FormType, Blank
  <2>6. ASSUME NEW d \in Domains, Edit([form EXCEPT !.domain = d])
        PROVE  Filling' /\ Posting' /\ Making'
    BY <2>1, <2>6 DEF Filling, FormType, Blank
  <2> QED BY <1>4, <2>2, <2>3, <2>4, <2>5, <2>6 DEF TypeField
<1>5. CASE Submit
  <2>1. /\ page = "form" /\ ~form.busy /\ ~FieldErrors(form) /\ form' = [form EXCEPT !.busy = TRUE]
        /\ post' = [state |-> "sent", mode |-> form.mode, body |-> Body(form), code |-> "none"]
        /\ UNCHANGED <<page, made, server, shown, results, filter, cancel>>
    BY <1>5 DEF Submit, Editing, pageVars
  <2>2. Body(form)' = Body(form) /\ FieldErrors(form)' = FieldErrors(form)
    BY <2>1 DEF Body, Scope, FieldErrors, Filling, FormType
  <2>3. Filling'
    BY <2>1 DEF Filling, FormType
  <2>4. Posting'
    BY <2>1, <2>2 DEF Posting, Filling, FormType
  <2>5. Making'
    <3>1. post.code = "none"
      BY <2>1 DEF Posting, NoPost
    <3> QED BY <2>1, <3>1 DEF Making, Unread
  <2> QED BY <2>3, <2>4, <2>5
<1>6. CASE ServePost
  <2>1. /\ post.state = "sent" /\ page = "form" /\ made = 0 /\ form.busy
        /\ UNCHANGED <<page, form, shown, results, filter, cancel>>
    BY <1>6 DEF ServePost, pageVars, Posting, Making, Unread
  <2>2. PICK code : /\ post' = [NoPost EXCEPT !.state = "answered", !.mode = post.mode, !.code = code]
                    /\ IF code = "ok" /\ post.mode # "map" THEN made' = 1 /\ server'.status = "queued"
                       ELSE UNCHANGED <<made, server>>
    <3>1. CASE post' = [NoPost EXCEPT !.state = "answered", !.mode = post.mode, !.code = "ok"] /\
               IF post.mode = "map" THEN UNCHANGED <<made, server>>
               ELSE made' = made + 1 /\ server' = [NoServer EXCEPT !.status = "queued"]
      <4>1. [NoServer EXCEPT !.status = "queued"].status = "queued"
        BY DEF NoServer
      <4>2. IF post.mode # "map" THEN made' = 1 /\ server'.status = "queued" ELSE UNCHANGED <<made, server>>
        <5>1. CASE post.mode = "map"
          BY <3>1, <5>1
        <5>2. CASE post.mode # "map"
          <6>1. made' = made + 1 /\ server' = [NoServer EXCEPT !.status = "queued"]
            BY <3>1, <5>2
          <6>2. made' = 1
            BY <2>1, <6>1
          <6>3. server'.status = "queued"
            BY <4>1, <6>1
          <6> QED BY <5>2, <6>2, <6>3
        <5> QED BY <5>1, <5>2
      <4> WITNESS "ok"
      <4> QED BY <3>1, <4>2
    <3>2. CASE /\ \E code \in {Verdict(post.mode, post.body), "UNAUTHENTICATED", "TOO_MANY_ACTIVE_JOBS"} \ {"ok"} :
                    post' = [NoPost EXCEPT !.state = "answered", !.mode = post.mode, !.code = code]
               /\ UNCHANGED <<made, server>>
      BY <3>2
    <3> QED BY <1>6, <3>1, <3>2 DEF ServePost
  <2>3. post'.state = "answered" /\ post'.mode = post.mode /\ post'.code = code
    BY <2>2 DEF NoPost
  <2>4. Filling'
    BY <2>1 DEF Filling
  <2>5. Posting'
    BY <2>1, <2>3 DEF Posting
  <2>6. Making'
    BY <2>1, <2>2, <2>3 DEF Making, Unread
  <2> QED BY <2>4, <2>5, <2>6
<1>7. CASE LosePost
  <2>1. /\ page = "form" /\ post' = NoPost /\ form' = [form EXCEPT !.busy = FALSE]
        /\ made' = IF Unread THEN made - 1 ELSE made
        /\ UNCHANGED <<page, shown, results, filter, cancel>>
    BY <1>7 DEF LosePost, pageVars, Posting, Unread
  <2>2. NoPost.state = "none" /\ NoPost.code = "none"
    BY DEF NoPost
  <2>3. Filling' /\ ~form'.busy
    BY <2>1 DEF Filling, FormType
  <2>4. Posting'
    BY <2>1, <2>2, <2>3 DEF Posting
  <2>5. Making'
    BY <2>1, <2>2 DEF Making, Unread
  <2> QED BY <2>3, <2>4, <2>5
<1>8. CASE PostAnswered
  <2>1. page = "form" /\ form.busy /\ post' = NoPost /\ UNCHANGED <<made, server>> /\ shown = NoHook
    BY <1>8 DEF PostAnswered, Posting, Making
  <2>2. NoPost.state = "none" /\ NoPost.code = "none"
    BY DEF NoPost
  <2>3. ~EmptyForm.busy /\ EmptyForm \in FormType /\ EmptyForm.mode = "scrape"
    BY DEF EmptyForm, FormType, Blank, Modes, OutputFormat
  <2>4. CASE Unread /\ form' = EmptyForm /\ OpenJob
    <3>1. page' = "job" /\ shown' = Mounted /\ cancel' = "no"
      BY <2>4 DEF OpenJob, Mount
    <3> QED BY <2>1, <2>2, <2>3, <2>4, <3>1 DEF Filling, Posting, Making, Unread
  <2>5. CASE ~Unread /\ form' = EmptyForm /\ page' = "login" /\ UNCHANGED <<shown, results, filter, cancel>>
    BY <2>1, <2>2, <2>3, <2>5 DEF Filling, Posting, Making, Unread
  <2>6. CASE ~Unread /\ form' = [form EXCEPT !.busy = FALSE] /\ UNCHANGED <<page, shown, results, filter, cancel>>
    <3>1. Filling' /\ ~form'.busy
      BY <2>6 DEF Filling, FormType
    <3> QED BY <2>1, <2>2, <2>6, <3>1 DEF Posting, Making, Unread
  <2> QED BY <1>8, <2>4, <2>5, <2>6 DEF PostAnswered, pageVars, Unread
<1>9. ASSUME UNCHANGED <<form, post>>, page # "form", Making' PROVE Filling' /\ Posting' /\ Making'
  BY <1>9 DEF Filling, Posting
<1>10. page # "form" => ~Unread
  BY DEF Posting, Unread, NoPost
<1>11. CASE SignIn
  <2>1. Mounted # NoHook
    <3>1. Mounted.due = TRUE /\ NoHook.due = FALSE
      BY DEF Mounted, NoHook
    <3> QED BY <3>1
  <2> QED BY <1>9, <1>10, <1>11, <2>1 DEF SignIn, formVars, pageVars, Making, Unread, Posting
<1>12. CASE Work
  <2>1. PICK view \in Views(Active \cup Outcomes) : Becomes(view)
    BY <1>12 DEF Work
  <2>2. server'.status = view.status /\ view.status \in Active \cup Outcomes
    BY <2>1 DEF Becomes, Views
  <2>3. server'.status # "none"
    BY <2>2, JobAssumption DEF Active, Ended
  <2> QED BY <1>9, <1>10, <1>12, <2>3 DEF Work, formVars, pageVars, Making, Unread
<1>13. ASSUME page = "job", UNCHANGED <<page, form, post, made>>, server'.status # "none"
       PROVE  Filling' /\ Posting' /\ Making'
  BY <1>9, <1>10, <1>13 DEF Making, Unread
<1>14. page = "job" => server.status # "none"
  BY DEF Making
<1>15. CASE \/ Restart \/ TimerFires \/ ServeJob \/ ServeResults \/ GetFails \/ JobArrives
            \/ ResultsArrive \/ ChangeFilter \/ ClickCancel \/ CancelAnswered
  <2>1. page = "job" /\ UNCHANGED <<page, form, post, made, server>>
    BY <1>15 DEF Restart, TimerFires, ServeJob, ServeResults, GetFails, JobArrives, ResultsArrive,
                 ChangeFilter, ClickCancel, CancelAnswered, OnJobPage, formVars
  <2> QED BY <1>13, <1>14, <2>1
<1>16. CASE SessionIsOver
  <2>1. /\ page = "job" /\ page' = "login" /\ shown' = Mounted /\ cancel' = "no"
        /\ UNCHANGED <<form, post, made, server>>
    BY <1>16 DEF SessionIsOver, OnJobPage, Mount, formVars
  <2> QED BY <1>9, <1>10, <1>14, <2>1 DEF Making, Unread
<1>17. CASE ServeCancel
  <2>1. page = "job" /\ UNCHANGED <<page, form, post, made>> /\ (UNCHANGED server \/ server'.status = "cancelled")
    BY <1>17 DEF ServeCancel, OnJobPage, formVars, Becomes
  <2> QED BY <1>13, <1>14, <2>1
<1> QED BY <1>1, <1>2, <1>3, <1>4, <1>5, <1>6, <1>7, <1>8, <1>11, <1>12, <1>15, <1>16, <1>17 DEF DashNext

-----------------------------------------------------------------------------
(* The steps of the dashboard: the page of the job.                        *)

ViewType == [status : Active \cup Ended, figures : Nat, rows : Nat]

LEMMA BecomesServer ==
  ASSUME Shape, NEW view \in ViewType, Becomes(view)
  PROVE  /\ server' \in ServerType /\ server'.final <= server'.rows
         /\ server.status \in Ended =>
              server'.status = server.status /\ server'.figures = server.figures /\ server'.final = server.final
<1>1. /\ view.status \in Active \cup Ended /\ view.figures \in Nat /\ view.rows \in Nat
      /\ server.status \in {"none"} \cup Active \cup Ended /\ server.figures \in Nat /\ server.rows \in Nat
      /\ server.final \in Nat /\ server.final <= server.rows
  BY DEF ViewType, Shape, ServerType
<1>2. /\ server'.status = view.status /\ server'.figures = view.figures /\ server'.rows = view.rows
      /\ server'.final = IF server.status \in Ended THEN server.final ELSE view.rows
      /\ server' \in ServerType
  BY <1>1 DEF Becomes, ServerType
<1>3. view.rows >= server.rows
  BY DEF Becomes, Advances
<1>4. server.status \in Ended => view.status = server.status /\ view.figures = server.figures
  BY DEF Becomes, Advances, Follows, Ended
<1>5. server'.final <= server'.rows
  BY <1>1, <1>2, <1>3
<1> QED BY <1>2, <1>4, <1>5

LEMMA DataFacts ==
  ASSUME NEW d \in JobData
  PROVE  /\ d # <<>> /\ d.status \in Active \cup Ended
         /\ \A e \in {<<>>} \cup JobData :
              RefreshKey(d) = RefreshKey(e) => e # <<>> /\ e.status = d.status
<1>1. ASSUME NEW e \in JobData PROVE e # <<>>
  <2>1. DOMAIN e = {"status", "figures"} /\ DOMAIN <<>> = {}
    BY DEF JobData
  <2> QED BY <2>1
<1>2. <<d.status, d.figures>> # <<>>
  OBVIOUS
<1>3. ASSUME NEW e \in JobData, RefreshKey(d) = RefreshKey(e) PROVE e.status = d.status
  BY <1>1, <1>3 DEF RefreshKey
<1>4. RefreshKey(d) # RefreshKey(<<>>)
  BY <1>1, <1>2 DEF RefreshKey
<1>5. d.status \in Active \cup Ended
  BY DEF JobData
<1> QED BY <1>1, <1>3, <1>4, <1>5

LEMMA ResultFacts == ASSUME NEW v \in ResultData PROVE v # <<>>
<1>1. DOMAIN v = {"rows", "filter"} /\ DOMAIN <<>> = {}
  BY DEF ResultData
<1> QED BY <1>1

LEMMA HookFields ==
  ASSUME NEW V, NEW h \in HookType(V)
  PROVE  /\ h.data \in {<<>>} \cup V /\ h.due \in BOOLEAN /\ h.timer \in BOOLEAN
         /\ h.request \in {NoRequest, Sent0} \cup Answers(V)
BY DEF HookType

\* New data of the job: the results are due, or the end was known before.
LEMMA FollowKeeps ==
  ASSUME Shape, Following, NEW d, d \in {<<>>} \cup JobData, Follow(d), shown'.data = d, UNCHANGED <<server, filter>>
  PROVE  Following' /\ results' \in HookType(ResultData)
<1> DEFINE due == results.due \/ RefreshKey(d) # RefreshKey(shown.data)
<1>1. results \in HookType(ResultData) /\ shown.data \in {<<>>} \cup JobData
  BY HookFields DEF Shape
<1>2. due \in BOOLEAN /\ results' = [results EXCEPT !.due = due]
  BY <1>1, HookFields DEF Follow
<1> HIDE DEF due
<1>3. /\ results' \in HookType(ResultData) /\ results'.due = due
      /\ results'.request = results.request /\ results'.data = results.data /\ results'.error = results.error
  BY <1>1, <1>2, DueHook
<1>4. CASE d = <<>>
  BY <1>3, <1>4 DEF Following
<1>5. CASE due
  BY <1>3, <1>5 DEF Following
<1>6. CASE d # <<>> /\ ~due
  <2>1. ~results.due /\ RefreshKey(d) = RefreshKey(shown.data)
    BY <1>6 DEF due
  <2>2. shown.data # <<>> /\ shown.data.status = d.status
    BY <1>1, <1>6, <2>1, DataFacts
  <2>3. \A v : Good(v)' = Good(v)
    BY <2>2 DEF Good
  <2> QED BY <1>3, <2>1, <2>2, <2>3 DEF Following
<1> QED BY <1>3, <1>4, <1>5, <1>6

\* The results are as they were.
LEMMA FollowingKept ==
  ASSUME Following, UNCHANGED <<results, filter>>, shown'.data = shown.data,
         shown.data # <<>> /\ shown.data.status \in Ended => server'.final = server.final
  PROVE  Following'
<1>1. CASE shown.data = <<>>
  BY <1>1 DEF Following
<1>2. CASE shown.data # <<>>
  <2>1. \A v : Good(v)' <=> Good(v)
    BY <1>2 DEF Good
  <2> QED BY <1>2, <2>1 DEF Following
<1> QED BY <1>1, <1>2

LEMMA ShapeInv ==
  ASSUME DashInv, [DashNext]_dashVars
  PROVE  Shape'
<1> USE DEF DashInv
<1>1. /\ server \in ServerType /\ server.final <= server.rows
      /\ shown \in HookType(JobData) /\ results \in HookType(ResultData)
      /\ filter \in {"all", "failed"} /\ cancel \in {"no", "sent", "returned"}
  BY DEF Shape
<1>2. ASSUME UNCHANGED server, shown' \in HookType(JobData), results' \in HookType(ResultData),
             filter' \in {"all", "failed"}, cancel' \in {"no", "sent", "returned"}
      PROVE  Shape'
  BY <1>1, <1>2 DEF Shape
<1>3. ASSUME UNCHANGED <<shown, results, filter>>, cancel' \in {"no", "sent", "returned"},
             server' \in ServerType, server'.final <= server'.rows
      PROVE  Shape'
  BY <1>1, <1>3 DEF Shape
<1>4. \A V : NoHook \in HookType(V) /\ Mounted \in HookType(V)
  BY DEF NoHook, Mounted, HookType
<1>5. NoServer \in ServerType /\ NoServer.final <= NoServer.rows
  BY DEF NoServer, ServerType
<1>6. [NoServer EXCEPT !.status = "queued"] \in ServerType
      /\ [NoServer EXCEPT !.status = "queued"].final <= [NoServer EXCEPT !.status = "queued"].rows
  BY DEF NoServer, ServerType, Active
<1>7. CASE UNCHANGED <<server, shown, results, filter, cancel>>
  BY <1>1, <1>2, <1>7
<1>8. CASE ServePost
  <2>1. UNCHANGED server \/ server' = [NoServer EXCEPT !.status = "queued"]
    BY <1>8 DEF ServePost
  <2> QED BY <1>1, <1>3, <1>6, <1>8, <2>1 DEF ServePost, pageVars
<1>9. CASE LosePost
  BY <1>1, <1>3, <1>5, <1>9 DEF LosePost, pageVars
<1>10. CASE PostAnswered
  <2>1. UNCHANGED server /\ (Mount \/ UNCHANGED <<shown, results, filter, cancel>>)
    BY <1>10 DEF PostAnswered, OpenJob, pageVars
  <2> QED BY <1>2, <1>4, <1>7, <2>1 DEF Mount
<1>11. CASE SessionIsOver
  BY <1>2, <1>4, <1>11 DEF SessionIsOver, Mount, formVars
<1>12. CASE Work
  <2>1. PICK view \in Views(Active \cup Outcomes) : Becomes(view)
    BY <1>12 DEF Work
  <2>2. view \in ViewType
    <3>1. 0..MaxPages \subseteq Nat /\ Outcomes \subseteq Ended
      BY JobAssumption
    <3> QED BY <3>1 DEF Views, ViewType
  <2>3. server' \in ServerType /\ server'.final <= server'.rows
    BY <2>1, <2>2, BecomesServer
  <2> QED BY <1>1, <1>3, <1>12, <2>3 DEF Work, pageVars
<1>13. CASE Restart
  BY <1>1, <1>2, <1>13, RestartedHook DEF Restart, formVars
<1>14. CASE TimerFires
  BY <1>1, <1>2, <1>14, AskedHook DEF TimerFires, formVars
<1>15. CASE ServeJob
  <2>1. [status |-> server.status, figures |-> server.figures] \in JobData
    BY <1>1, <1>15 DEF ServeJob, OnJobPage, Making, ServerType, JobData
  <2>2. Got([status |-> server.status, figures |-> server.figures]) \in Answers(JobData)
    BY <2>1 DEF Answers
  <2> QED BY <1>1, <1>2, <1>15, <2>2, ServedHook DEF ServeJob, formVars
<1>16. CASE ServeResults
  <2>1. [rows |-> server.rows, filter |-> filter] \in ResultData
    BY <1>1 DEF ServerType, ResultData
  <2>2. Got([rows |-> server.rows, filter |-> filter]) \in Answers(ResultData)
    BY <2>1 DEF Answers
  <2> QED BY <1>1, <1>2, <1>16, <2>2, ServedHook DEF ServeResults, formVars
<1>17. CASE GetFails
  <2>1. \A how \in Failures : \A V : Failed(how) \in Answers(V)
    BY DEF Answers
  <2>2. "unreachable" \in Failures
    BY DEF Failures
  <2>3. CASE results' = [results EXCEPT !.request = Failed("unreachable")] /\ UNCHANGED <<shown, server, filter, cancel>>
    BY <1>1, <1>2, <2>1, <2>2, <2>3, ServedHook
  <2>4. CASE UNCHANGED <<results, server, filter, cancel>> /\ \E how \in Failures : shown' = [shown EXCEPT !.request = Failed(how)]
    BY <1>1, <1>2, <2>1, <2>4, ServedHook
  <2> QED BY <1>17, <2>3, <2>4 DEF GetFails, formVars
<1>18. CASE JobArrives
  <2>1. shown' \in HookType(JobData)
    <3>1. IsActive(Latest(shown)) \in BOOLEAN
      BY DEF IsActive
    <3> QED BY <1>1, <1>18, <3>1, ArrivedHook DEF JobArrives
  <2>2. shown'.data \in {<<>>} \cup JobData
    BY <2>1, HookFields
  <2>3. results' \in HookType(ResultData)
    BY <1>18, <2>2, FollowKeeps DEF JobArrives, formVars
  <2> QED BY <1>1, <1>2, <1>18, <2>1, <2>3 DEF JobArrives, formVars
<1>19. CASE ResultsArrive
  BY <1>1, <1>2, <1>19, ArrivedHook DEF ResultsArrive, formVars
<1>20. CASE ChangeFilter
  BY <1>1, <1>2, <1>20, DueHook DEF ChangeFilter, formVars
<1>21. CASE ClickCancel
  BY <1>1, <1>2, <1>21 DEF ClickCancel, formVars
<1>22. CASE ServeCancel
  <2>1. CASE Becomes([status |-> "cancelled", figures |-> server.figures, rows |-> server.rows]) /\ cancel' = "returned"
    <3>1. [status |-> "cancelled", figures |-> server.figures, rows |-> server.rows] \in ViewType
      BY <1>1 DEF ViewType, ServerType, Ended
    <3>2. server' \in ServerType /\ server'.final <= server'.rows
      BY <2>1, <3>1, BecomesServer
    <3> QED BY <1>3, <1>22, <2>1, <3>2 DEF ServeCancel, formVars
  <2>2. CASE cancel' \in {"returned", "no"} /\ UNCHANGED server
    BY <1>1, <1>2, <1>22, <2>2 DEF ServeCancel, formVars
  <2> QED BY <1>22, <2>1, <2>2 DEF ServeCancel
<1>23. CASE CancelAnswered
  <2>1. CASE cancel = "returned"
    <3> DEFINE d == [status |-> server.status, figures |-> server.figures]
    <3>1. d \in JobData
      BY <1>1, <2>1 DEF ServerType, JobData, EndIsEnd
    <3> HIDE DEF d
    <3>2. shown' = [shown EXCEPT !.data = d, !.due = TRUE] /\ Follow(d) /\ UNCHANGED <<server, filter>> /\ cancel' = "no"
      BY <1>23, <2>1 DEF CancelAnswered, formVars, d
    <3>3. shown' \in HookType(JobData) /\ shown'.data = d
      BY <1>1, <3>1, <3>2 DEF HookType
    <3>4. results' \in HookType(ResultData)
      BY <3>1, <3>2, <3>3, FollowKeeps
    <3> QED BY <1>1, <1>2, <3>2, <3>3, <3>4
  <2> QED BY <1>23, <2>1 DEF CancelAnswered
<1>24. CASE ChangeMode \/ ToggleFormat \/ TypeField \/ Submit \/ SignIn \/ UNCHANGED dashVars
  BY <1>7, <1>24 DEF ChangeMode, ToggleFormat, TypeField, Submit, SignIn, dashVars, Edit, pageVars
<1> QED BY <1>8, <1>9, <1>10, <1>11, <1>12, <1>13, <1>14, <1>15, <1>16, <1>17, <1>18, <1>19, <1>20, <1>21, <1>22,
           <1>23, <1>24 DEF DashNext

LEMMA PageInv ==
  ASSUME DashInv, [DashNext]_dashVars, Making'
  PROVE  EndIsEnd' /\ Alive' /\ Following'
<1> USE DEF DashInv
<1> DEFINE Kept == EndIsEnd' /\ Alive' /\ Following'
<1>1. /\ server \in ServerType /\ shown \in HookType(JobData) /\ results \in HookType(ResultData)
      /\ shown.data \in {<<>>} \cup JobData
      /\ shown.request \in {NoRequest, Sent0} \cup Answers(JobData)
      /\ results.data \in {<<>>} \cup ResultData
      /\ results.request \in {NoRequest, Sent0} \cup Answers(ResultData)
  BY HookFields DEF Shape
<1>2. /\ NoHook.data = <<>> /\ NoHook.request = NoRequest
      /\ Mounted.data = <<>> /\ Mounted.request = NoRequest /\ Mounted.due
  BY DEF NoHook, Mounted
\* A page that knows nothing.
<1>3. ASSUME shown' \in {NoHook, Mounted}, cancel' = "no", page' = "job" => shown' = Mounted
      PROVE  Kept
  BY <1>2, <1>3, AnswerCases DEF EndIsEnd, Alive, Following
<1>4. CASE page' # "job"
  <2>1. page' \in {"form", "login"}
    BY <1>4 DEF Making
  <2> QED BY <1>3, <1>4, <2>1 DEF Making
<1>5. CASE PostAnswered /\ page' = "job"
  <2>1. page = "form"
    BY <1>5 DEF PostAnswered, Posting, Making
  <2> QED BY <1>3, <1>5, <2>1 DEF PostAnswered, OpenJob, Mount, pageVars
<1>6. CASE SignIn /\ page' = "job"
  BY <1>3, <1>6 DEF SignIn, Making, pageVars
\* What the page knows stays, the job moves on.
<1>7. ASSUME UNCHANGED <<page, shown, results, filter>>,
             server.status \in Ended =>
               server'.status = server.status /\ server'.figures = server.figures /\ server'.final = server.final,
             cancel' = "returned" => server'.status \in Ended
      PROVE  Kept
  <2>1. \A d : Sound(d) => Sound(d)'
    BY <1>7 DEF Sound
  <2>2. EndIsEnd'
    BY <1>7, <2>1 DEF EndIsEnd
  <2>3. shown.data # <<>> /\ shown.data.status \in Ended => server.status \in Ended
    BY DEF EndIsEnd, Sound
  <2>4. Following'
    BY <1>7, <2>3, FollowingKept
  <2> QED BY <1>7, <2>2, <2>4 DEF Alive
<1>8. CASE page' = "job" /\ Work
  <2>1. PICK view \in Views(Active \cup Outcomes) : Becomes(view)
    BY <1>8 DEF Work
  <2>2. view \in ViewType
    <3>1. 0..MaxPages \subseteq Nat /\ Outcomes \subseteq Ended
      BY JobAssumption
    <3> QED BY <3>1 DEF Views, ViewType
  <2>3. server.status \in Ended =>
          server'.status = server.status /\ server'.figures = server.figures /\ server'.final = server.final
    BY <2>1, <2>2, BecomesServer
  <2>4. "cancelled" \in Ended
    BY DEF Ended
  <2> QED BY <1>7, <1>8, <2>3, <2>4 DEF Work, pageVars, EndIsEnd
<1>9. CASE ServeCancel
  <2>1. CASE server.status \in Active /\ cancel' = "returned"
             /\ Becomes([status |-> "cancelled", figures |-> server.figures, rows |-> server.rows])
    <3>1. server'.status = "cancelled"
      BY <2>1 DEF Becomes
    <3>2. server.status \notin Ended /\ "cancelled" \in Ended
      BY <2>1 DEF Active, Ended
    <3> QED BY <1>7, <1>9, <3>1, <3>2 DEF ServeCancel, formVars
  <2>2. CASE /\ UNCHANGED server
             /\ cancel' = "no" \/ (cancel' = "returned" /\ server.status \in Ended)
    BY <1>7, <1>9, <2>2 DEF ServeCancel, formVars
  <2> QED BY <1>9, <2>1, <2>2 DEF ServeCancel
<1>10. CASE ClickCancel
  BY <1>7, <1>10 DEF ClickCancel, formVars
<1>11. CASE UNCHANGED <<page, server, shown, results, filter, cancel>>
  BY <1>7, <1>11 DEF EndIsEnd
\* The request of the job.
<1>12. ASSUME UNCHANGED <<page, server, results, filter, cancel>>, shown'.data = shown.data,
              shown'.request # NoRequest,
              shown'.request \in Answers(JobData) /\ shown'.request.state = "ok" => Sound(shown'.request.value)
       PROVE  Kept
  <2>1. \A d : Sound(d)' <=> Sound(d)
    BY <1>12 DEF Sound
  <2>2. EndIsEnd'
    BY <1>12, <2>1 DEF EndIsEnd
  <2>3. Following'
    BY <1>12, FollowingKept
  <2> QED BY <1>12, <2>2, <2>3 DEF Alive
<1>13. Sent0 # NoRequest /\ Sent0 \notin Answers(JobData)
  BY AnswerFacts, AnswerCases
<1>14. CASE Restart /\ UNCHANGED results
  <2>1. shown' = Restarted(shown) \/ UNCHANGED shown
    BY <1>14 DEF Restart
  <2>2. CASE shown' = Restarted(shown)
    <3>1. shown'.data = shown.data /\ shown'.request = Sent0
      BY <1>1, <2>2, RestartedHook
    <3> QED BY <1>12, <1>13, <1>14, <3>1 DEF Restart, formVars
  <2>3. CASE UNCHANGED shown
    BY <1>11, <1>14, <2>3 DEF Restart, formVars
  <2> QED BY <2>1, <2>2, <2>3
<1>15. CASE TimerFires
  <2>1. shown'.data = shown.data /\ shown'.request = Sent0
    BY <1>1, <1>15, AskedHook DEF TimerFires
  <2> QED BY <1>12, <1>13, <1>15, <2>1 DEF TimerFires, formVars
<1>16. CASE ServeJob
  <2> DEFINE d == [status |-> server.status, figures |-> server.figures]
  <2>1. d.status = server.status /\ d.figures = server.figures
    OBVIOUS
  <2>2. d \in JobData
    BY <1>1, <1>16 DEF ServeJob, OnJobPage, Making, ServerType, JobData
  <2>3. Got(d) \in Answers(JobData)
    BY <2>2 DEF Answers
  <2>4. shown' = [shown EXCEPT !.request = Got(d)] /\ UNCHANGED <<page, server, results, filter, cancel>>
    BY <1>16 DEF ServeJob, formVars
  <2> HIDE DEF d
  <2>5. shown'.data = shown.data /\ shown'.request = Got(d)
    BY <1>1, <2>3, <2>4, ServedHook
  <2>6. Got(d) # NoRequest /\ Got(d).value = d
    BY AnswerFacts
  <2>7. Sound(d)
    BY <2>1 DEF Sound
  <2> QED BY <1>12, <2>4, <2>5, <2>6, <2>7
<1>17. CASE GetFails /\ UNCHANGED results
  <2>1. PICK how \in Failures : shown' = [shown EXCEPT !.request = Failed(how)] \/ UNCHANGED shown
    BY <1>17 DEF GetFails, Failures
  <2>2. CASE shown' = [shown EXCEPT !.request = Failed(how)]
    <3>1. Failed(how) \in Answers(JobData)
      BY DEF Answers
    <3>2. shown'.data = shown.data /\ shown'.request = Failed(how)
      BY <1>1, <2>2, <3>1, ServedHook
    <3>3. Failed(how) # NoRequest /\ Failed(how).state # "ok"
      BY AnswerFacts
    <3> QED BY <1>12, <1>17, <3>2, <3>3 DEF GetFails, formVars
  <2>3. CASE UNCHANGED shown
    BY <1>11, <1>17, <2>3 DEF GetFails, formVars
  <2> QED BY <2>1, <2>2, <2>3
\* The request of the results.
<1>18. ASSUME UNCHANGED <<page, server, shown, cancel>>, Following' PROVE Kept
  <2>1. \A d : Sound(d)' <=> Sound(d)
    BY <1>18 DEF Sound
  <2> QED BY <1>18, <2>1 DEF EndIsEnd, Alive
<1>19. CASE Restart /\ UNCHANGED shown
  <2>1. results' = Restarted(results) \/ UNCHANGED results
    BY <1>19 DEF Restart
  <2>2. CASE results' = Restarted(results)
    <3>1. results'.request = Sent0
      BY <1>1, <2>2, RestartedHook
    <3> QED BY <1>18, <1>19, <3>1 DEF Restart, formVars, Following
  <2>3. CASE UNCHANGED results
    BY <1>11, <1>19, <2>3 DEF Restart, formVars
  <2> QED BY <2>1, <2>2, <2>3
<1>20. CASE ServeResults
  <2>1. PICK v : v = [rows |-> server.rows, filter |-> filter]
    OBVIOUS
  <2>2. v.rows = server.rows /\ v.filter = filter /\ v \in ResultData
    BY <1>1, <2>1 DEF Shape, ServerType, ResultData
  <2>3. Got(v) \in Answers(ResultData)
    BY <2>2 DEF Answers
  <2>4. results' = [results EXCEPT !.request = Got(v)] /\ UNCHANGED <<page, server, shown, filter, cancel>>
    BY <1>20, <2>1 DEF ServeResults, formVars
  <2>5. results'.request = Got(v) /\ Got(v).value = v
    BY <1>1, <2>3, <2>4, ServedHook, AnswerFacts
  <2>6. server.rows >= server.final
    BY DEF Shape, ServerType
  <2>7. Good(v)'
    BY <2>2, <2>4, <2>6 DEF Good
  <2>8. Following'
    BY <2>3, <2>5, <2>7 DEF Following
  <2> QED BY <1>18, <2>4, <2>8
<1>21. CASE GetFails /\ UNCHANGED shown
  <2>1. results' = [results EXCEPT !.request = Failed("unreachable")] \/ UNCHANGED results
    BY <1>21 DEF GetFails
  <2>2. CASE results' = [results EXCEPT !.request = Failed("unreachable")]
    <3>1. "unreachable" \in Failures
      BY DEF Failures
    <3>2. Failed("unreachable") \in Answers(ResultData) /\ Failed("unreachable").state # "ok"
      BY <3>1, AnswerFacts DEF Answers
    <3>3. results'.request = Failed("unreachable")
      BY <1>1, <2>2, <3>2, ServedHook
    <3>4. Following'
      BY <3>2, <3>3 DEF Following
    <3> QED BY <1>18, <1>21, <3>4 DEF GetFails, formVars
  <2>3. CASE UNCHANGED results
    BY <1>11, <1>21, <2>3 DEF GetFails, formVars
  <2> QED BY <2>1, <2>2, <2>3
<1>22. CASE ResultsArrive
  <2>1. /\ results.request \notin {NoRequest, Sent0} /\ results' = HookAfter(results, FALSE)
        /\ UNCHANGED <<page, server, shown, filter, cancel>>
    BY <1>22 DEF ResultsArrive, formVars
  <2>2. /\ results'.due = results.due /\ results'.request = NoRequest
        /\ results.request.state = "ok" => results'.data = results.request.value /\ results'.data \in ResultData
        /\ results.request.state # "ok" => results'.error # "none"
    <3>1. PICK poll \in BOOLEAN : results' = HookAfter(results, poll)
      BY <2>1
    <3>2. PICK h, r : h = results /\ r = results'
      OBVIOUS
    <3>3. h \in HookType(ResultData) /\ h.request \notin {NoRequest, Sent0} /\ r = HookAfter(h, poll)
      BY <1>1, <2>1, <3>1, <3>2
    <3>4. r.due = h.due /\ r.request = NoRequest
      BY <3>3, ArrivedHook
    <3>5. h.request.state = "ok" => r.data = h.request.value /\ r.data \in ResultData
      BY <3>3, ArrivedHook
    <3>6. h.request.state # "ok" => r.error # "none"
      BY <3>3, ArrivedHook
    <3> QED BY <3>2, <3>4, <3>5, <3>6
  <2>3. \A v : Good(v)' <=> Good(v)
    BY <2>1 DEF Good
  <2>4. results.request.state = "ok" => results'.data # <<>>
    BY <2>2, ResultFacts
  <2>5. Following'
    BY <2>1, <2>2, <2>3, <2>4 DEF Following
  <2> QED BY <1>18, <2>1, <2>5
<1>23. CASE ChangeFilter
  <2>1. results'.due
    BY <1>1, <1>23, DueHook DEF ChangeFilter
  <2> QED BY <1>18, <1>23, <2>1 DEF ChangeFilter, formVars, Following
\* The answer to the poll, and to the button.
<1>24. ASSUME UNCHANGED <<page, server, filter>>, NEW d \in {<<>>} \cup JobData, shown'.data = d, Follow(d),
              d # <<>> => Sound(d), cancel' = "returned" => server'.status \in Ended,
              shown'.request = NoRequest \/ shown'.request = shown.request,
              page = "job" => \/ shown'.due \/ shown'.timer \/ shown'.error # "none"
                              \/ d # <<>> /\ d.status \in Ended
       PROVE  Kept
  <2>1. \A e : Sound(e)' <=> Sound(e)
    BY <1>24 DEF Sound
  <2>2. NoRequest \notin Answers(JobData)
    BY AnswerCases
  <2>3. EndIsEnd'
    BY <1>24, <2>1, <2>2 DEF EndIsEnd
  <2>4. Following'
    BY <1>24, FollowKeeps
  <2>5. Alive'
    BY <1>24 DEF Alive
  <2> QED BY <2>3, <2>4, <2>5
<1>25. CASE JobArrives
  <2> DEFINE poll == IsActive(Latest(shown))
             d == Latest(shown)
  <2>1. /\ shown.request \in Answers(JobData) /\ shown' = HookAfter(shown, poll) /\ Follow(shown'.data)
        /\ UNCHANGED <<page, server, filter, cancel>>
    BY <1>1, <1>25 DEF JobArrives, formVars
  <2>2. d = IF shown.request.state = "ok" THEN shown.request.value ELSE shown.data
    BY DEF Latest
  <2>3. poll \in BOOLEAN /\ (d # <<>> /\ d.status \in Active => poll)
    BY DEF IsActive
  <2> HIDE DEF poll, d
  <2>4. /\ shown'.data = d /\ shown'.request = NoRequest
        /\ shown.request.state = "ok" => d \in JobData /\ (poll => shown'.timer)
        /\ shown.request.state # "ok" => shown'.error # "none"
    BY <1>1, <2>1, <2>2, <2>3, AnswerCases, ArrivedHook
  <2>5. d # <<>> => Sound(d)
    BY <2>1, <2>2 DEF EndIsEnd
  <2>6. d \in {<<>>} \cup JobData
    BY <1>1, <2>2, <2>4
  <2>7. shown.request.state = "ok" => shown'.timer \/ (d # <<>> /\ d.status \in Ended)
    BY <2>3, <2>4, DataFacts
  <2> QED BY <1>24, <2>1, <2>4, <2>5, <2>6, <2>7 DEF EndIsEnd
<1>26. CASE CancelAnswered
  <2>1. CASE cancel = "returned"
    <3> DEFINE d == [status |-> server.status, figures |-> server.figures]
    <3>1. /\ shown' = [shown EXCEPT !.data = d, !.due = TRUE] /\ Follow(d) /\ cancel' = "no"
          /\ UNCHANGED <<page, server, filter>>
      BY <1>26, <2>1 DEF CancelAnswered, formVars
    <3>2. d \in JobData /\ Sound(d)
      BY <1>1, <2>1 DEF ServerType, JobData, Ended, EndIsEnd, Sound
    <3> HIDE DEF d
    <3>3. shown'.data = d /\ shown'.due /\ shown'.request = shown.request
      BY <1>1, <3>1 DEF HookType
    <3> QED BY <1>24, <3>1, <3>2, <3>3
  <2> QED BY <1>26, <2>1 DEF CancelAnswered
<1>27. CASE \/ ChangeMode \/ ToggleFormat \/ TypeField \/ Submit \/ ServePost \/ LosePost
  <2>1. page = "form" /\ page' = page
    BY <1>27 DEF ChangeMode, ToggleFormat, TypeField, Edit, Editing, Submit, ServePost, LosePost,
                 Posting
  <2> QED BY <1>4, <2>1
<1>28. CASE SessionIsOver
  BY <1>4, <1>28 DEF SessionIsOver
<1>29. CASE PostAnswered \/ SignIn \/ Work
  BY <1>4, <1>5, <1>6, <1>8, <1>29
<1>30. Restart => UNCHANGED shown \/ UNCHANGED results
  BY DEF Restart
<1>31. GetFails => UNCHANGED shown \/ UNCHANGED results
  BY DEF GetFails
<1>32. CASE UNCHANGED dashVars
  BY <1>11, <1>32 DEF dashVars
<1>33. CASE Restart
  BY <1>14, <1>19, <1>30, <1>33
<1>34. CASE GetFails
  BY <1>17, <1>21, <1>31, <1>34
<1> QED BY <1>9, <1>10, <1>15, <1>16, <1>20, <1>22, <1>23, <1>25, <1>26, <1>27, <1>28, <1>29, <1>32, <1>33, <1>34 DEF DashNext

LEMMA NextDashInv == DashInv /\ [DashNext]_dashVars => DashInv'
BY FormInv, ShapeInv, PageInv DEF DashInv

-----------------------------------------------------------------------------
(* What holds of the dashboard, from what Dashboard assumes of its         *)
(* constants and from JobView, which JobLifecycle and CrawlSync keep.      *)

\* The inductive invariant, for any fields, answers, patterns and ends of the job.
THEOREM DashInvariant == DashSpec => []DashInv
BY InitDashInv, NextDashInv, PTL DEF DashSpec

\* A body the form sends is refused by the API's checks only for the target, a
\* limit, the number or length of patterns, or a domain that is not the URL's:
\* new-job-form.tsx and schemas.ts agree on all other fields of all three modes.
THEOREM FormAgrees == DashSpec => []FormAgreesWithApi
<1>1. DashInv => FormAgreesWithApi
  <2> SUFFICES ASSUME DashInv, post.state = "sent", Verdict(post.mode, post.body) = "VALIDATION_ERROR"
               PROVE  Long(Or(post.body, "include_patterns", <<>>)) \/ Outside(post.body)
    BY DEF FormAgreesWithApi, Long, Outside
  <2>1. /\ post.mode = form.mode /\ post.body = Body(form) /\ ~FieldErrors(form)
        /\ form \in FormType /\ (form.mode = "crawl" => "branding" \notin form.formats)
    BY DEF DashInv, Filling, Posting
  <2> QED BY <2>1, FormVerdict
<1> QED BY <1>1, DashInvariant, PTL

\* However often the button is pressed and whatever gets lost, one form leaves no
\* more than one job behind that it was told of or may yet be.
THEOREM OneJob == DashSpec => []OneJobPerAnswer
<1>1. DashInv => OneJobPerAnswer
  BY DEF DashInv, Making, OneJobPerAnswer
<1> QED BY <1>1, DashInvariant, PTL

\* A page with nothing on its way and no error shows the end of the job and at
\* least the results there were then, for the filter chosen last, whatever was
\* aborted, refused, lost or overtaken before (use-api.ts:50-81).
THEOREM QuietFresh == DashSpec => []QuietPageIsFresh
<1>1. DashInv => QuietPageIsFresh
  <2> SUFFICES ASSUME DashInv, page = "job", Quiet(shown), Quiet(results)
               PROVE  /\ shown.data.status = server.status /\ server.status \in Ended
                      /\ shown.data.figures = server.figures
                      /\ results.data.filter = filter
                      /\ results.data.rows >= server.final
    BY DEF QuietPageIsFresh, OnJobPage
  <2>1. shown.data # <<>> /\ shown.data.status \in Ended
    BY DEF DashInv, Alive, Quiet
  <2>2. shown.data.status = server.status /\ shown.data.figures = server.figures
    BY <2>1 DEF DashInv, EndIsEnd, Sound
  <2>3. results.request = NoRequest /\ ~results.due /\ results.error = "none"
    BY DEF Quiet
  <2>4. Good(results.data)
    <3>1. NoRequest # Sent0 /\ NoRequest \notin Answers(ResultData)
      BY AnswerFacts, AnswerCases
    <3> QED BY <2>1, <2>3, <3>1 DEF DashInv, Following
  <2> QED BY <2>1, <2>2, <2>4 DEF Good
<1> QED BY <1>1, DashInvariant, PTL
==============================================================================
