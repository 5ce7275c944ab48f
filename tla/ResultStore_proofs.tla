-------------------------- MODULE ResultStore_proofs --------------------------
(***************************************************************************)
(* What holds of ResultStore for any jobs, writers, page size and faults,  *)
(* and of the size limit for bodies of any size.  Rows and blobs are never *)
(* joined by a transaction; what keeps them together is where each writer  *)
(* and the deletion stand.                                                 *)
(***************************************************************************)
EXTENDS ResultStore, SizeLimit, FiniteSetTheorems, TLAPS

\* Where a writer stands tells whether it has a row, a key and a blob.
Progress ==
  \A w \in Writer :
    /\ w \in rows => pc[w] = "stored"
    /\ live /\ pc[w] = "stored" => w \in rows
    /\ pc[w] \in {"idle", "fetched"} => w \notin blobs /\ w \notin keyed
    /\ w \in blobs => w \in keyed
    /\ pc[w] = "duplicate" => w \notin blobs
    /\ live => pc[w] # "rejected" /\ (pc[w] # "idle" => JobOf[w] \in jobs)

\* The project, its jobs and their rows go together, before any blob does.
Removal ==
  /\ deletion.pc = "cleaning" <=> ~live
  /\ ~live => jobs = {} /\ rows = {}

\* While the project lives every body that was stored and not discarded is there.
Kept ==
  live => \A w \in keyed : pc[w] # "duplicate" => w \in blobs

\* A blob of a listed job that is still to be cleaned is all that may be left.
Cleaned ==
  /\ deletion.pc = "listed" => deletion.left = deletion.listed
  /\ deletion.pc = "cleaning" /\ ~deletion.failed =>
    \A w \in blobs : JobOf[w] \in deletion.listed /\ pc[w] = "stored" => JobOf[w] \in deletion.left

IInv == TypeOK /\ Progress /\ Removal /\ Kept /\ Cleaned

LEMMA InitIInv == Init => IInv
BY DEF Init, IInv, TypeOK, Progress, Removal, Kept, Cleaned, WriterState, Ended

LEMMA NextIInv == IInv /\ [Next]_vars => IInv'
<1> SUFFICES ASSUME IInv, [Next]_vars PROVE IInv'
  OBVIOUS
<1> USE ConstantsAssumption DEF IInv, TypeOK, Progress, Removal, Kept, Cleaned, WriterState, Ended, Goto
<1>1. ASSUME NEW j \in Job, CreateJob(j) PROVE IInv'
  BY <1>1 DEF CreateJob
<1>2. ASSUME NEW w \in Writer, Persist(w) PROVE IInv'
  <2>1. CASE Fetch(w) BY <2>1 DEF Fetch
  <2>2. CASE PutBody(w) BY <2>2 DEF PutBody
  <2>3. CASE SkipBody(w) BY <2>3 DEF SkipBody
  <2>4. CASE PutFails(w) BY <2>4 DEF PutFails
  <2>5. CASE InsertStart(w) BY <2>5 DEF InsertStart
  <2>6. CASE InsertCommit(w) BY <2>6 DEF InsertCommit, SameKey
  <2>7. CASE InsertConflict(w) BY <2>7 DEF InsertConflict
  <2>8. CASE InsertRejected(w) BY <2>8 DEF InsertRejected
  <2>9. CASE Discard(w) BY <2>9 DEF Discard
  <2>10. CASE DiscardFails(w) BY <2>10 DEF DiscardFails
  <2>11. CASE Die(w) BY <2>11 DEF Die
  <2> QED BY <1>2, <2>1, <2>2, <2>3, <2>4, <2>5, <2>6, <2>7, <2>8, <2>9, <2>10, <2>11 DEF Persist
<1>3. CASE DeleteProject
  <2>1. CASE ListJobs BY <2>1 DEF ListJobs
  <2>2. CASE DeleteRows BY <2>2 DEF DeleteRows
  <2>3. CASE DeletionDies BY <2>3, ZenonT(60) DEF DeletionDies
  <2>4. ASSUME NEW j \in Job, DeletePrefix(j) PROVE IInv'
    BY <2>4 DEF DeletePrefix, JobBlobs
  <2>5. ASSUME NEW j \in Job, DeletePrefixFails(j) PROVE IInv'
    BY <2>5, ZenonT(60) DEF DeletePrefixFails
  <2> QED BY <1>3, <2>1, <2>2, <2>3, <2>4, <2>5 DEF DeleteProject
<1>4. CASE Read
  <2>1. UNCHANGED <<live, jobs, rows, blobs, keyed, pc, deletion>>
    BY <1>4 DEF Read, StartReading, AskForMore, ReadPage
  <2> QED BY <2>1
<1>5. CASE UNCHANGED vars
  BY <1>5 DEF vars
<1> HIDE DEF IInv, TypeOK, Progress, Removal, Kept, Cleaned, WriterState, Ended, Goto
<1> QED BY <1>1, <1>2, <1>3, <1>4, <1>5 DEF Next

\* The inductive invariant holds throughout.
THEOREM Invariant == Spec => []IInv
BY InitIInv, NextIInv, PTL DEF Spec

\* Rows have distinct (job_id, url) and an existing job, as the constraints of
\* 001_init.sql have it.
THEOREM TypeCorrect == Spec => []TypeOK
<1>1. IInv => TypeOK
  BY DEF IInv
<1> QED BY Invariant, <1>1, PTL

\* A result that can be found can be read, whatever duplicates, failures and a
\* deletion do at the same time (persistPage, DELETE /api/projects/:id).
THEOREM RowsHaveBlobs == Spec => []RowHasBlob
<1>1. IInv => RowHasBlob
  BY DEF IInv, TypeOK, Progress, Removal, Kept, RowHasBlob
<1> QED BY Invariant, <1>1, PTL

\* No regular outcome of persistPage leaves an object without a row, while the
\* project exists.
THEOREM NoLeftovers == Spec => []NothingLeftBehind
<1>1. IInv => NothingLeftBehind
  BY DEF IInv, TypeOK, Progress, Removal, NothingLeftBehind
<1> QED BY Invariant, <1>1, PTL

\* A deletion that met no error removed every object of the results it deleted.
THEOREM DeletionIsThorough == Spec => []DeletedResultsAreGone
<1>1. IInv => DeletedResultsAreGone
  BY DEF IInv, TypeOK, Progress, Cleaned, DeletedResultsAreGone
<1> QED BY Invariant, <1>1, PTL

-----------------------------------------------------------------------------
(* Reading.  The rows inserted or being inserted are in an order that only *)
(* new ones join, at its end; so a row's offset never shrinks while the    *)
(* project exists, and what a reader has not seen is still ahead of it.    *)

\* b[w]: the members of S before w, in a strict total order of S.
IsOrder(S, b) ==
  /\ b \in [Writer -> SUBSET S]
  /\ \A w \in Writer \ S : b[w] = {}
  /\ \A w \in S : w \notin b[w]
  /\ \A v, w \in S : v = w \/ v \in b[w] \/ w \in b[v]
  /\ \A w \in Writer : \A v \in b[w] : b[v] \subseteq b[w]

Placed == {w \in Writer : w \in rows \/ pc[w] = "inserting"}

ReaderTyped ==
  reader \in [pc : {"idle", "asking", "reading", "done", "refused"}, job : Job,
              kind : {"export", "listing"}, offset : Nat, seen : Seq(SUBSET Writer),
              base : SUBSET Writer, late : BOOLEAN]

\* The reader has read a row.
Seen(w) == \E i \in DOMAIN reader.seen : w \in reader.seen[i]

\* Pages that hold the rows there were at the beginning, and those in order.
InOrder ==
  /\ \A i \in DOMAIN reader.seen : \A v \in reader.seen[i] :
       v \in reader.base /\ Position(v) < reader.offset
  /\ \A i, k \in DOMAIN reader.seen : i < k =>
       \A v \in reader.seen[i], w \in reader.seen[k] : v \in before[w]

\* A reader that may read on, or has read its last page.
Begun == reader.pc \in {"asking", "reading", "done"}

\* What a reader that has begun knows of the rows, while they are there; and one
\* that ended before they went has seen what there was at its beginning.
Reading ==
  /\ reader.pc = "idle" => reader.seen = <<>> /\ reader.offset = 0
  /\ live /\ Begun => reader.base \subseteq JobRows(reader.job)
  /\ live /\ reader.pc \in {"asking", "reading"} =>
       \A w \in reader.base : Seen(w) \/ reader.offset <= Position(w)
  /\ live /\ Begun /\ JobRows(reader.job) = reader.base => InOrder
  /\ reader.pc = "done" /\ ~reader.late => \A w \in reader.base : Seen(w)

ReadInv == IsOrder(Placed, before) /\ ReaderTyped /\ Reading
-----------------------------------------------------------------------------
LessThan == {p \in Nat \X Nat : p[1] < p[2]}

LEMMA LeastNumber == \A T \in SUBSET Nat : T # {} => \E x \in T : \A y \in T : x <= y
<1> SUFFICES ASSUME NEW T \in SUBSET Nat, T # {} PROVE \E x \in T : \A y \in T : x <= y
  OBVIOUS
<1>1. IsWellFoundedOn(LessThan, Nat)
  BY NatLessThanWellFounded DEF OpToRel, LessThan
<1>2. PICK x \in T : \A y \in T : <<y, x>> \notin LessThan
  BY <1>1, WFMin
<1>3. ASSUME NEW y \in T PROVE x <= y
  <2>1. y \in Nat /\ x \in Nat /\ <<y, x>> \in Nat \X Nat /\ <<y, x>>[1] = y /\ <<y, x>>[2] = x
    OBVIOUS
  <2>2. ~(y < x)
    BY <1>2, <2>1 DEF LessThan
  <2> QED BY <2>1, <2>2
<1> QED BY <1>3

\* The offset of a row among the rows R, and those with an offset in a range.
Rank(R, b, w) == Cardinality(R \cap b[w])
Ranked(R, b, from, to) == {w \in R : from <= Rank(R, b, w) /\ Rank(R, b, w) < to}

LEMMA OrderWithout ==
  ASSUME NEW S \in SUBSET Writer, NEW b, IsOrder(S, b), NEW gone
  PROVE  IsOrder(S \ gone, [w \in Writer |-> IF w \in gone THEN {} ELSE b[w] \ gone])
<1> DEFINE c == [w \in Writer |-> IF w \in gone THEN {} ELSE b[w] \ gone]
<1>1. \A w \in Writer : c[w] = IF w \in gone THEN {} ELSE b[w] \ gone
  OBVIOUS
<1>2. b \in [Writer -> SUBSET S]
  BY DEF IsOrder
<1>3. c \in [Writer -> SUBSET (S \ gone)]
  BY <1>2
<1> HIDE DEF c
<1>4. \A w \in Writer \ (S \ gone) : c[w] = {}
  BY <1>1 DEF IsOrder
<1>5. \A w \in Writer : c[w] \subseteq b[w]
  BY <1>1
<1>6. \A w \in S \ gone : w \notin c[w]
  <2> SUFFICES ASSUME NEW w \in S, w \notin gone, w \in c[w] PROVE FALSE
    OBVIOUS
  <2> QED BY <1>4, <1>5 DEF IsOrder
<1>7. \A v, w \in S \ gone : v = w \/ v \in c[w] \/ w \in c[v]
  <2> SUFFICES ASSUME NEW v \in S \ gone, NEW w \in S \ gone, v # w PROVE v \in c[w] \/ w \in c[v]
    OBVIOUS
  <2>1. (v \in b[w] /\ w \in Writer) \/ (w \in b[v] /\ v \in Writer)
    BY DEF IsOrder
  <2> QED BY <1>1, <2>1
<1>8. \A w \in Writer : \A v \in c[w] : c[v] \subseteq c[w]
  <2> SUFFICES ASSUME NEW w \in Writer, NEW v \in c[w] PROVE c[v] \subseteq c[w]
    OBVIOUS
  <2>1. v \in b[w] /\ v \notin gone /\ w \notin gone
    BY <1>1
  <2>2. b[v] \subseteq b[w]
    BY <2>1 DEF IsOrder
  <2>3. CASE v \in Writer
    BY <1>1, <2>1, <2>2, <2>3
  <2> QED BY <1>2, <2>1, <2>3
<1>9. IsOrder(S \ gone, c)
  BY <1>3, <1>4, <1>6, <1>7, <1>8 DEF IsOrder
<1> QED BY <1>9 DEF c

LEMMA OrderWith ==
  ASSUME NEW S \in SUBSET Writer, NEW b, IsOrder(S, b), NEW w \in Writer \ S
  PROVE  IsOrder(S \cup {w}, [b EXCEPT ![w] = S])
BY DEF IsOrder

LEMMA FiniteRows == ASSUME NEW R \in SUBSET Writer PROVE IsFiniteSet(R) /\ Cardinality(R) \in Nat
BY FS_Subset, FS_CardinalityType, ConstantsAssumption

LEMMA SmallerPart ==
  ASSUME NEW R \in SUBSET Writer, NEW Q \in SUBSET R
  PROVE  /\ Cardinality(Q) \in Nat /\ Cardinality(Q) <= Cardinality(R)
         /\ \A w \in R \ Q : Cardinality(Q) < Cardinality(R)
<1>1. IsFiniteSet(R) /\ IsFiniteSet(Q) /\ Cardinality(R) \in Nat /\ Cardinality(Q) \in Nat
  BY FiniteRows
<1>2. Cardinality(Q) <= Cardinality(R) /\ (Cardinality(R) = Cardinality(Q) => R = Q)
  BY <1>1, FS_Subset
<1> QED BY <1>1, <1>2

LEMMA RankType ==
  ASSUME NEW R \in SUBSET Writer, NEW b, NEW w
  PROVE  Rank(R, b, w) \in Nat
BY FiniteRows DEF Rank

\* A row before another has a smaller offset.
LEMMA RankOrders ==
  ASSUME NEW S, NEW b, IsOrder(S, b), NEW R \in SUBSET Writer, R \subseteq S,
         NEW v \in R, NEW w \in R, v \in b[w]
  PROVE  Rank(R, b, v) < Rank(R, b, w)
<1>1. /\ R \cap b[w] \in SUBSET Writer
      /\ R \cap b[v] \in SUBSET (R \cap b[w])
      /\ v \in (R \cap b[w]) \ (R \cap b[v])
  BY DEF IsOrder
<1> DEFINE X == R \cap b[w]
           Y == R \cap b[v]
<1>2. X \in SUBSET Writer /\ Y \in SUBSET X /\ v \in X \ Y
  BY <1>1
<1> HIDE DEF X, Y
<1>3. Cardinality(Y) < Cardinality(X)
  BY <1>2, SmallerPart
<1> QED BY <1>3 DEF Rank, X, Y

\* And the other way about: offsets tell which of two rows comes first.
LEMMA RankTells ==
  ASSUME NEW S, NEW b, IsOrder(S, b), NEW R \in SUBSET Writer, R \subseteq S,
         NEW v \in R, NEW w \in R, Rank(R, b, v) <= Rank(R, b, w)
  PROVE  v = w \/ v \in b[w]
<1>1. v = w \/ v \in b[w] \/ w \in b[v]
  BY DEF IsOrder
<1>2. ~(w \in b[v])
  BY RankOrders, RankType
<1> QED BY <1>1, <1>2

\* No more than n rows have an offset below n.
LEMMA RanksAreFew ==
  ASSUME NEW S, NEW b, IsOrder(S, b), NEW R \in SUBSET Writer, R \subseteq S, NEW n \in Nat
  PROVE  Cardinality(Ranked(R, b, 0, n)) <= n
<1> DEFINE T == Ranked(R, b, 0, n)
           f == [w \in T |-> Rank(R, b, w)]
<1>1. T \in SUBSET R /\ \A w \in T : Rank(R, b, w) \in 0..(n - 1)
  BY RankType DEF Ranked
<1>2. \A v, w \in T : Rank(R, b, v) = Rank(R, b, w) => v = w
  <2> SUFFICES ASSUME NEW v \in T, NEW w \in T, Rank(R, b, v) = Rank(R, b, w), v # w PROVE FALSE
    OBVIOUS
  <2>1. v \in R /\ w \in R /\ Rank(R, b, v) \in Nat /\ Rank(R, b, w) \in Nat
    BY <1>1, RankType
  <2>2. v \in b[w] \/ w \in b[v]
    BY <2>1 DEF IsOrder
  <2> QED BY <2>1, <2>2, RankOrders
<1> HIDE DEF T
<1>3. f \in Injection(T, 0..(n - 1))
  BY <1>1, <1>2 DEF Injection, IsInjective
<1>4. IsFiniteSet(0..(n - 1)) /\ Cardinality(0..(n - 1)) = n
  BY FS_Interval
<1> HIDE DEF f
<1>5. Cardinality(T) <= n
  BY <1>3, <1>4, FS_Injection
<1> QED BY <1>5 DEF T

\* And all the smaller offsets are taken.
LEMMA RanksAreFull ==
  ASSUME NEW S, NEW b, IsOrder(S, b), NEW R \in SUBSET Writer, R \subseteq S, NEW n \in Nat,
         NEW w \in R, Rank(R, b, w) >= n
  PROVE  Cardinality(Ranked(R, b, 0, n)) >= n
<1> DEFINE over == {Rank(R, b, v) : v \in {u \in R : Rank(R, b, u) >= n}}
<1>1. over \in SUBSET Nat /\ over # {}
  BY RankType
<1>2. PICK least \in over : \A y \in over : least <= y
  BY <1>1, LeastNumber
<1>3. PICK m \in R : Rank(R, b, m) >= n /\ least = Rank(R, b, m)
  BY <1>2
<1>4. \A v \in R : Rank(R, b, v) < Rank(R, b, m) => Rank(R, b, v) < n
  <2> TAKE v \in R
  <2>1. Rank(R, b, v) >= n => least <= Rank(R, b, v)
    BY <1>2
  <2> QED BY <1>3, <2>1, RankType
<1> HIDE DEF over
<1>5. R \cap b[m] \subseteq Ranked(R, b, 0, n)
  <2> SUFFICES ASSUME NEW v \in R, v \in b[m] PROVE v \in Ranked(R, b, 0, n)
    OBVIOUS
  <2>1. Rank(R, b, v) < Rank(R, b, m)
    BY <1>3, RankOrders
  <2>2. Rank(R, b, v) < n /\ Rank(R, b, v) \in Nat
    BY <1>4, <2>1, RankType
  <2> QED BY <2>2 DEF Ranked
<1> DEFINE X == R \cap b[m]
           Y == Ranked(R, b, 0, n)
<1>6. X \in SUBSET Y /\ Y \in SUBSET Writer
  BY <1>5 DEF Ranked
<1> HIDE DEF X, Y
<1>7. Cardinality(X) <= Cardinality(Y) /\ Cardinality(X) \in Nat /\ Cardinality(Y) \in Nat
  BY <1>6, SmallerPart, FiniteRows
<1>8. Cardinality(X) >= n
  BY <1>3 DEF Rank, X
<1> QED BY <1>7, <1>8 DEF Y

\* A page that is not full, or that reaches the number of the rows, is the last.
LEMMA NoRowAfter ==
  ASSUME NEW S, NEW b, IsOrder(S, b), NEW R \in SUBSET Writer, R \subseteq S,
         NEW n \in Nat, NEW size \in Nat,
         \/ Cardinality(Ranked(R, b, n, n + size)) < size
         \/ n + Cardinality(Ranked(R, b, n, n + size)) >= Cardinality(R)
  PROVE  \A w \in R : Rank(R, b, w) < n + size
<1> SUFFICES ASSUME NEW w \in R, ~(Rank(R, b, w) < n + size) PROVE FALSE
  OBVIOUS
<1> DEFINE A == Ranked(R, b, 0, n)
           B == Ranked(R, b, n, n + size)
           C == Ranked(R, b, 0, n + size)
<1>1. Rank(R, b, w) \in Nat /\ Rank(R, b, w) >= n /\ Rank(R, b, w) >= n + size
  BY RankType
<1>2. Cardinality(A) = n /\ Cardinality(C) = n + size
  <2>1. Cardinality(A) >= n /\ Cardinality(A) <= n /\ Cardinality(A) \in Nat
    <3>1. A \in SUBSET Writer
      BY DEF Ranked
    <3> HIDE DEF A
    <3>2. Cardinality(A) \in Nat
      BY <3>1, FiniteRows
    <3> QED BY <1>1, <3>2, RanksAreFew, RanksAreFull DEF A
  <2>2. Cardinality(C) >= n + size /\ Cardinality(C) <= n + size /\ Cardinality(C) \in Nat
    <3>1. C \in SUBSET Writer /\ n + size \in Nat
      BY DEF Ranked
    <3> HIDE DEF C
    <3>2. Cardinality(C) \in Nat
      BY <3>1, FiniteRows
    <3> QED BY <1>1, <3>1, <3>2, RanksAreFew, RanksAreFull DEF C
  <2> HIDE DEF A, C
  <2> QED BY <2>1, <2>2
<1>3. A \cup B = C /\ A \cap B = {}
  BY RankType DEF Ranked
<1>4. A \in SUBSET Writer /\ B \in SUBSET Writer /\ C \in SUBSET R /\ w \in R \ C
  BY <1>1 DEF Ranked
<1> HIDE DEF A, B, C
<1>5. /\ IsFiniteSet(A) /\ IsFiniteSet(B)
      /\ Cardinality(A) \in Nat /\ Cardinality(B) \in Nat /\ Cardinality(R) \in Nat
  BY <1>4, FiniteRows
<1>6. Cardinality(C) = Cardinality(A) + Cardinality(B)
  <2>1. Cardinality(A \cup B) = Cardinality(A) + Cardinality(B) - Cardinality(A \cap B)
    BY <1>5, FS_Union
  <2>2. A \cap B = {} /\ Cardinality({}) = 0
    BY <1>3, FS_EmptySet
  <2>3. Cardinality(C) = Cardinality(A) + Cardinality(B) - 0
    BY <1>3, <2>1, <2>2
  <2> QED BY <1>5, <2>3
<1>7. Cardinality(C) < Cardinality(R)
  BY <1>4, SmallerPart
<1>8. Cardinality(B) < size \/ n + Cardinality(B) >= Cardinality(R)
  BY DEF B
<1> QED BY <1>2, <1>5, <1>6, <1>7, <1>8

-----------------------------------------------------------------------------
\* Without a change to the rows and those being inserted, their order stays.
LEMMA SameOrder ==
  ASSUME Placed' = Placed, before' = before, IsOrder(Placed, before),
         live' => live, rows \subseteq rows'
  PROVE  /\ IsOrder(Placed', before')
         /\ live' => live /\ rows \subseteq rows' /\ \A w \in rows : before'[w] \cap rows = before[w] \cap rows
OBVIOUS

\* A writer that does not insert, or no longer does, leaves the order.
LEMMA LeavesOrder ==
  ASSUME IsOrder(Placed, before), rows \subseteq Writer, NEW w \in Writer, w \notin rows,
         Placed' = Placed \ {w}, before' = Without({w}), rows' = rows, live' = live
  PROVE  /\ IsOrder(Placed', before')
         /\ live' => live /\ rows \subseteq rows' /\ \A v \in rows : before'[v] \cap rows = before[v] \cap rows
<1>1. Placed \in SUBSET Writer
  BY DEF Placed
<1>2. IsOrder(Placed \ {w}, Without({w}))
  BY <1>1, OrderWithout DEF Without
<1>3. ASSUME NEW v \in rows PROVE Without({w})[v] \cap rows = before[v] \cap rows
  BY DEF Without
<1> QED BY <1>2, <1>3

\* The order of the rows is one, and while the project exists a row keeps its
\* place among those that were there.
LEMMA OrderKept ==
  ASSUME IInv, IsOrder(Placed, before), [Next]_vars
  PROVE  /\ IsOrder(Placed', before')
         /\ live' => live /\ rows \subseteq rows' /\ \A w \in rows : before'[w] \cap rows = before[w] \cap rows
<1> DEFINE Stays ==
      /\ IsOrder(Placed', before')
      /\ live' => live /\ rows \subseteq rows' /\ \A w \in rows : before'[w] \cap rows = before[w] \cap rows
<1>0. /\ rows \subseteq Writer /\ pc \in [Writer -> WriterState]
      /\ \A w \in rows : pc[w] = "stored"
  BY DEF IInv, TypeOK, Progress
<1>1. ASSUME Placed' = Placed, before' = before, live' => live, rows \subseteq rows' PROVE Stays
  BY <1>1, SameOrder
<1>2. ASSUME NEW w \in Writer, w \notin rows, Placed' = Placed \ {w}, before' = Without({w}),
             rows' = rows, live' = live
      PROVE  Stays
  BY <1>0, <1>2, LeavesOrder
<1> SUFFICES Stays
  OBVIOUS
<1> HIDE DEF Stays
<1>3. ASSUME NEW j \in Job, CreateJob(j) PROVE Stays
  <2>1. Placed' = Placed
    BY <1>3 DEF CreateJob, Placed
  <2> QED BY <1>1, <1>3, <2>1 DEF CreateJob
<1>4. ASSUME NEW w \in Writer, Persist(w) PROVE Stays
  <2>1. CASE Fetch(w) \/ PutBody(w) \/ SkipBody(w) \/ PutFails(w) \/ Discard(w) \/ DiscardFails(w)
    <3>1. /\ before' = before /\ rows' = rows /\ live' = live
          /\ pc[w] \in {"idle", "fetched", "discarding"}
          /\ \E s \in WriterState \ {"inserting"} : pc' = [pc EXCEPT ![w] = s]
      BY <2>1 DEF Fetch, PutBody, SkipBody, PutFails, Discard, DiscardFails, Goto, WriterState, Ended
    <3>2. Placed' = Placed
      BY <1>0, <3>1 DEF Placed
    <3> QED BY <1>1, <3>1, <3>2
  <2>2. CASE InsertStart(w)
    <3>1. /\ pc[w] = "prepared" /\ before' = [before EXCEPT ![w] = Placed]
          /\ pc' = [pc EXCEPT ![w] = "inserting"] /\ rows' = rows /\ live' = live
      BY <2>2 DEF InsertStart, Goto, Placed
    <3>2. w \notin rows /\ w \notin Placed /\ Placed \in SUBSET Writer
      BY <1>0, <3>1 DEF Placed
    <3>3. Placed' = Placed \cup {w}
      BY <1>0, <3>1 DEF Placed
    <3>4. IsOrder(Placed', before')
      BY <3>1, <3>2, <3>3, OrderWith
    <3>5. \A v \in rows : before'[v] = before[v]
      BY <1>0, <3>1, <3>2 DEF IsOrder
    <3> QED BY <3>1, <3>4, <3>5 DEF Stays
  <2>3. CASE InsertCommit(w)
    <3>1. /\ pc[w] = "inserting" /\ before' = before /\ live' = live
          /\ rows' = rows \cup {w} /\ pc' = [pc EXCEPT ![w] = "stored"]
      BY <2>3 DEF InsertCommit, Goto
    <3>2. Placed' = Placed
      BY <1>0, <3>1 DEF Placed
    <3> QED BY <1>1, <3>1, <3>2
  <2>4. CASE InsertConflict(w) \/ InsertRejected(w) \/ Die(w)
    <3>1. /\ before' = Without({w}) /\ rows' = rows /\ live' = live
          /\ pc[w] # "stored"
          /\ \E s \in WriterState \ {"inserting"} : pc' = [pc EXCEPT ![w] = s]
      BY <2>4 DEF InsertConflict, InsertRejected, Die, Goto, WriterState, Ended
    <3>2. w \notin rows
      BY <1>0, <3>1
    <3>3. Placed' = Placed \ {w}
      BY <1>0, <3>1, <3>2 DEF Placed
    <3> QED BY <1>2, <3>1, <3>2, <3>3
  <2> QED BY <1>4, <2>1, <2>2, <2>3, <2>4 DEF Persist
<1>5. CASE DeleteProject
  <2>1. CASE DeleteRows
    <3>1. rows' = {} /\ before' = Without(rows) /\ pc' = pc /\ ~live'
      BY <2>1 DEF DeleteRows
    <3>2. Placed' = Placed \ rows /\ Placed \in SUBSET Writer
      BY <1>0, <3>1 DEF Placed
    <3>3. IsOrder(Placed \ rows, Without(rows))
      BY <3>2, OrderWithout DEF Without
    <3> QED BY <3>1, <3>2, <3>3 DEF Stays
  <2>2. CASE ~DeleteRows
    <3>1. before' = before /\ rows' = rows /\ pc' = pc /\ live' = live
      BY <1>5, <2>2 DEF DeleteProject, ListJobs, DeletionDies, DeletePrefix, DeletePrefixFails
    <3>2. Placed' = Placed
      BY <3>1 DEF Placed
    <3> QED BY <1>1, <3>1, <3>2
  <2> QED BY <2>1, <2>2
<1>6. CASE Read
  <2>1. before' = before /\ rows' = rows /\ pc' = pc /\ live' = live
    BY <1>6 DEF Read, StartReading, AskForMore, ReadPage
  <2>2. Placed' = Placed
    BY <2>1 DEF Placed
  <2> QED BY <1>1, <2>1, <2>2
<1>7. CASE UNCHANGED vars
  <2>1. before' = before /\ rows' = rows /\ pc' = pc /\ live' = live
    BY <1>7 DEF vars
  <2>2. Placed' = Placed
    BY <2>1 DEF Placed
  <2> QED BY <1>1, <2>1, <2>2
<1> QED BY <1>3, <1>4, <1>5, <1>6, <1>7 DEF Next

-----------------------------------------------------------------------------
LEMMA Appended ==
  ASSUME NEW T, NEW s \in Seq(T), NEW e \in T
  PROVE  /\ Append(s, e) \in Seq(T) /\ Len(s) \in Nat
         /\ DOMAIN s = 1..Len(s) /\ DOMAIN Append(s, e) = 1..(Len(s) + 1)
         /\ \A i \in 1..Len(s) : Append(s, e)[i] = s[i]
         /\ Append(s, e)[Len(s) + 1] = e
OBVIOUS

LEMMA PositionIsRank ==
  ASSUME NEW j, NEW w \in JobRows(j)
  PROVE  Position(w) = Rank(JobRows(j), before, w)
<1>1. JobOf[w] = j
  BY DEF JobRows
<1> QED BY <1>1 DEF Position, Rank

\* While the project exists the offset of a row only grows, and not at all when
\* the job has no new row.
LEMMA OffsetsGrow ==
  ASSUME IInv, IInv', IsOrder(Placed, before), [Next]_vars, live', NEW j
  PROVE  /\ live /\ JobRows(j) \subseteq JobRows(j)'
         /\ \A w \in JobRows(j) :
              /\ Position(w) \in Nat /\ Position(w)' \in Nat /\ Position(w) <= Position(w)'
              /\ JobRows(j)' = JobRows(j) => Position(w)' = Position(w)
              /\ before'[w] \cap rows = before[w] \cap rows
<1>1. /\ live /\ rows \subseteq rows'
      /\ \A w \in rows : before'[w] \cap rows = before[w] \cap rows
  BY OrderKept
<1>2. rows' \in SUBSET Writer /\ rows \in SUBSET Writer
  BY DEF IInv, TypeOK
<1>3. JobRows(j) \subseteq JobRows(j)' /\ JobRows(j) \subseteq rows /\ JobRows(j)' \subseteq rows'
  BY <1>1 DEF JobRows
<1>4. ASSUME NEW w \in JobRows(j)
      PROVE  /\ Position(w) \in Nat /\ Position(w)' \in Nat /\ Position(w) <= Position(w)'
             /\ JobRows(j)' = JobRows(j) => Position(w)' = Position(w)
             /\ before'[w] \cap rows = before[w] \cap rows
  <2>1. JobOf[w] = j /\ before'[w] \cap rows = before[w] \cap rows
    BY <1>1, <1>3 DEF JobRows
  <2>2. Position(w) = Cardinality(JobRows(j) \cap before[w])
    BY <2>1 DEF Position
  <2>3. Position(w)' = Cardinality(JobRows(j)' \cap before'[w])
    BY <2>1 DEF Position
  <2>4. JobRows(j) \cap before[w] = JobRows(j) \cap before'[w]
    BY <1>3, <2>1
  <2>5. PICK X : X = JobRows(j) \cap before[w]
    OBVIOUS
  <2>6. PICK Y : Y = JobRows(j)' \cap before'[w]
    OBVIOUS
  <2>7. Y \in SUBSET Writer /\ X \in SUBSET Y
    BY <1>2, <1>3, <2>4, <2>5, <2>6
  <2>8. Cardinality(X) \in Nat /\ Cardinality(Y) \in Nat /\ Cardinality(X) <= Cardinality(Y)
    BY <2>7, SmallerPart, FiniteRows
  <2>9. JobRows(j)' = JobRows(j) => X = Y
    BY <2>4, <2>5, <2>6
  <2> QED BY <2>1, <2>2, <2>3, <2>5, <2>6, <2>8, <2>9
<1> QED BY <1>1, <1>3, <1>4

\* What a reader knows stays true while others go on.
LEMMA ReadingLasts ==
  ASSUME IInv, IInv', ReadInv, [Next]_vars, UNCHANGED reader
  PROVE  Reading'
<1>1. ReaderTyped /\ Reading /\ IsOrder(Placed, before)
  BY DEF ReadInv
<1>2. PICK j : j = reader.job
  OBVIOUS
<1>3. reader' = reader /\ reader'.job = j
  BY <1>2
<1>4. live' =>
        /\ live /\ JobRows(j) \subseteq JobRows(j)'
        /\ \A w \in JobRows(j) :
             /\ Position(w) \in Nat /\ Position(w)' \in Nat /\ Position(w) <= Position(w)'
             /\ JobRows(j)' = JobRows(j) => Position(w)' = Position(w)
             /\ before'[w] \cap rows = before[w] \cap rows
  BY <1>1, OffsetsGrow
<1>5. \A w : Seen(w)' <=> Seen(w)
  BY <1>3 DEF Seen
<1>6. /\ reader'.pc = "idle" => reader'.seen = <<>> /\ reader'.offset = 0
      /\ reader'.pc = "done" /\ ~reader'.late => \A w \in reader'.base : Seen(w)'
  BY <1>1, <1>3, <1>5 DEF Reading
<1>7. ASSUME live', Begun' PROVE reader'.base \subseteq JobRows(j)'
  BY <1>1, <1>2, <1>3, <1>4, <1>7 DEF Reading, Begun
<1>8. ASSUME live', reader'.pc \in {"asking", "reading"}, NEW w \in reader'.base
      PROVE  Seen(w)' \/ reader'.offset <= Position(w)'
  <2>1. w \in JobRows(j) /\ (Seen(w) \/ reader.offset <= Position(w))
    BY <1>1, <1>2, <1>3, <1>4, <1>8 DEF Reading, Begun
  <2>2. Position(w) \in Nat /\ Position(w)' \in Nat /\ Position(w) <= Position(w)'
    BY <1>4, <1>8, <2>1
  <2>3. reader.offset \in Nat
    BY <1>1 DEF ReaderTyped
  <2> QED BY <1>3, <1>5, <2>1, <2>2, <2>3
<1>9. ASSUME live', Begun', JobRows(j)' = reader'.base PROVE InOrder'
  <2>1. live /\ reader.base \subseteq JobRows(j)
    BY <1>1, <1>2, <1>3, <1>4, <1>9 DEF Reading, Begun
  <2>2. JobRows(j) = reader.base /\ JobRows(j)' = JobRows(j)
    BY <1>3, <1>4, <1>9, <2>1
  <2>3. InOrder
    BY <1>1, <1>2, <1>3, <1>9, <2>1, <2>2 DEF Reading, Begun
  <2>4. ASSUME NEW i \in DOMAIN reader.seen, NEW v \in reader.seen[i]
        PROVE  v \in reader.base /\ v \in rows /\ Position(v)' < reader.offset
    <3>1. v \in JobRows(j) /\ Position(v) < reader.offset
      BY <2>2, <2>3 DEF InOrder
    <3> QED BY <1>4, <1>9, <2>2, <3>1 DEF JobRows
  <2>5. ASSUME NEW i \in DOMAIN reader.seen, NEW k \in DOMAIN reader.seen, i < k,
               NEW v \in reader.seen[i], NEW w \in reader.seen[k]
        PROVE  v \in before'[w]
    <3>1. v \in before[w]
      BY <2>3, <2>5 DEF InOrder
    <3>2. v \in rows /\ w \in JobRows(j)
      BY <2>2, <2>4
    <3> QED BY <1>4, <1>9, <3>1, <3>2
  <2> QED BY <1>3, <2>4, <2>5 DEF InOrder
<1> QED BY <1>3, <1>6, <1>7, <1>8, <1>9 DEF Reading

LEMMA StartReads ==
  ASSUME IInv, ReadInv, NEW j \in Job, NEW kind \in {"export", "listing"}, StartReading(j, kind)
  PROVE  ReaderTyped' /\ Reading'
<1>1. /\ reader.pc = "idle" /\ reader.seen = <<>> /\ reader.offset = 0
      /\ reader \in [pc : {"idle", "asking", "reading", "done", "refused"}, job : Job,
                     kind : {"export", "listing"}, offset : Nat, seen : Seq(SUBSET Writer),
                     base : SUBSET Writer, late : BOOLEAN]
  BY DEF ReadInv, ReaderTyped, Reading, StartReading
<1>2. /\ reader' = [reader EXCEPT !.pc = "reading", !.job = j, !.kind = kind, !.base = JobRows(j)]
      /\ rows' = rows
  BY DEF StartReading
<1>3. JobRows(j) \in SUBSET Writer
  BY DEF IInv, TypeOK, JobRows
<1>4. /\ reader'.pc = "reading" /\ reader'.job = j /\ reader'.base = JobRows(j)
      /\ reader'.seen = <<>> /\ reader'.offset = 0
  BY <1>1, <1>2
<1>5. ReaderTyped'
  BY <1>1, <1>2, <1>3 DEF ReaderTyped
<1>6. \A w : Position(w)' \in Nat
  <2> SUFFICES ASSUME NEW w PROVE Position(w)' \in Nat
    OBVIOUS
  <2>1. JobRows(JobOf[w])' \cap before'[w] \in SUBSET Writer
    BY <1>2 DEF IInv, TypeOK, JobRows
  <2>2. PICK X : X = JobRows(JobOf[w])' \cap before'[w]
    OBVIOUS
  <2>3. Cardinality(X) \in Nat
    BY <2>1, <2>2, FiniteRows
  <2> QED BY <2>2, <2>3 DEF Position
<1>7. JobRows(j)' = JobRows(j)
  BY <1>2 DEF JobRows
<1>8. InOrder'
  BY <1>4 DEF InOrder
<1> QED BY <1>4, <1>5, <1>6, <1>7, <1>8 DEF Reading

\* One page more: rows that were ahead of the reader are on it or still ahead,
\* and after the last page none is.
LEMMA PageReads ==
  ASSUME IInv, ReadInv, ReadPage, live
  PROVE  ReaderTyped' /\ Reading'
<1>1. /\ reader \in [pc : {"idle", "asking", "reading", "done", "refused"}, job : Job,
                     kind : {"export", "listing"}, offset : Nat, seen : Seq(SUBSET Writer),
                     base : SUBSET Writer, late : BOOLEAN]
      /\ IsOrder(Placed, before) /\ Reading /\ live /\ reader.pc = "reading"
  BY DEF ReadInv, ReaderTyped, ReadPage
<1>2. PICK page : page = Page(reader.offset)
  OBVIOUS
<1>3. PICK last \in {"asking", "done", "reading"} :
        /\ last = CASE LastPage(reader.offset, page) -> "done"
                    [] reader.kind = "listing" -> "asking"
                    [] OTHER -> "reading"
        /\ last = "done" => LastPage(reader.offset, page)
  <2>1. CASE LastPage(reader.offset, page)
    BY <2>1
  <2>2. CASE ~LastPage(reader.offset, page) /\ reader.kind = "listing"
    BY <2>2
  <2>3. CASE ~LastPage(reader.offset, page) /\ reader.kind # "listing"
    BY <2>3
  <2> QED BY <2>1, <2>2, <2>3
<1>3a. PICK late \in BOOLEAN : late = (reader.job \notin jobs)
  OBVIOUS
<1>4. PICK R : R = JobRows(reader.job)
  OBVIOUS
<1>5. PICK s : s = Append(reader.seen, page)
  OBVIOUS
<1>6. /\ reader' = [reader EXCEPT !.seen = s, !.offset = @ + PageSize, !.late = late, !.pc = last]
      /\ UNCHANGED <<live, jobs, rows, before>>
  BY <1>2, <1>3, <1>3a, <1>5 DEF ReadPage
<1>7. R \in SUBSET Writer /\ R \subseteq Placed /\ JobRows(reader.job)' = R
  BY <1>4, <1>6 DEF IInv, TypeOK, JobRows, Placed
<1>8. \A w \in R : Position(w) = Rank(R, before, w) /\ Position(w) \in Nat
  BY <1>4, <1>7, PositionIsRank, RankType
<1>9. page = Ranked(R, before, reader.offset, reader.offset + PageSize)
  BY <1>2, <1>4, <1>8 DEF Page, Ranked
<1>10. page \in SUBSET Writer /\ page \subseteq R
  BY <1>7, <1>9 DEF Ranked
<1>11. /\ s \in Seq(SUBSET Writer) /\ Len(reader.seen) \in Nat
       /\ DOMAIN reader.seen = 1..Len(reader.seen) /\ DOMAIN s = 1..(Len(reader.seen) + 1)
       /\ \A i \in 1..Len(reader.seen) : s[i] = reader.seen[i]
       /\ s[Len(reader.seen) + 1] = page
  <2>1. reader.seen \in Seq(SUBSET Writer)
    BY <1>1
  <2> QED BY <1>5, <1>10, <2>1, Appended
<1>12. PageSize \in Nat \ {0} /\ reader.offset \in Nat /\ reader.base \subseteq R
  BY <1>1, <1>4, ConstantsAssumption DEF Reading, Begun
<1>13. /\ reader'.seen = s /\ reader'.offset = reader.offset + PageSize /\ reader'.pc = last
       /\ reader'.job = reader.job /\ reader'.base = reader.base
  BY <1>1, <1>6
<1>14. ReaderTyped'
  <2>1. /\ reader' = [pc |-> last, job |-> reader.job, kind |-> reader.kind,
                      offset |-> reader.offset + PageSize, seen |-> s, base |-> reader.base,
                      late |-> late]
        /\ reader.job \in Job /\ reader.kind \in {"export", "listing"} /\ reader.base \in SUBSET Writer
    BY <1>1, <1>6
  <2>2. reader.offset + PageSize \in Nat
    BY <1>12
  <2> QED BY <1>11, <2>1, <2>2 DEF ReaderTyped
<1>15. \A w \in R : Position(w)' = Position(w)
  BY <1>6 DEF Position, JobRows
<1>16. ASSUME NEW w \in reader.base
       PROVE  Seen(w)' \/ reader.offset + PageSize <= Position(w)
  <2>1. CASE Seen(w)
    <3>1. PICK i \in DOMAIN reader.seen : w \in reader.seen[i]
      BY <2>1 DEF Seen
    <3>2. i \in DOMAIN s /\ s[i] = reader.seen[i]
      BY <1>11, <3>1
    <3> QED BY <1>13, <3>1, <3>2 DEF Seen
  <2>2. CASE ~Seen(w)
    <3>1. reader.offset <= Position(w) /\ w \in R /\ Position(w) \in Nat
      BY <1>1, <1>8, <1>12, <1>16, <2>2 DEF Reading
    <3>2. CASE Position(w) < reader.offset + PageSize
      <4>1. w \in page
        BY <1>8, <1>9, <3>1, <3>2 DEF Ranked
      <4>2. Len(reader.seen) + 1 \in DOMAIN s
        BY <1>11
      <4> QED BY <1>11, <1>13, <4>1, <4>2 DEF Seen
    <3> QED BY <1>12, <3>1, <3>2
  <2> QED BY <2>1, <2>2
<1>17. ASSUME last = "done", NEW w \in reader.base PROVE Seen(w)'
  <2>1. LastPage(reader.offset, page)
    BY <1>3, <1>17
  <2>2. \/ Cardinality(page) < PageSize
        \/ reader.offset + Cardinality(page) >= Cardinality(R)
    BY <1>4, <2>1 DEF LastPage
  <2>3. Rank(R, before, w) < reader.offset + PageSize
    BY <1>1, <1>7, <1>9, <1>12, <2>2, NoRowAfter
  <2>4. Position(w) < reader.offset + PageSize /\ Position(w) \in Nat
    BY <1>8, <1>12, <2>3
  <2> QED BY <1>12, <1>16, <2>4
<1>18. ASSUME R = reader.base PROVE InOrder'
  <2>1. InOrder
    BY <1>1, <1>4, <1>18 DEF Reading, Begun
  <2>2. ASSUME NEW i \in DOMAIN s, NEW v \in s[i]
        PROVE  v \in R /\ Position(v)' < reader.offset + PageSize
    <3>1. CASE i \in DOMAIN reader.seen
      <4>1. v \in R /\ Position(v) < reader.offset
        BY <1>11, <1>18, <2>1, <2>2, <3>1 DEF InOrder
      <4> QED BY <1>8, <1>12, <1>15, <4>1
    <3>2. CASE i = Len(reader.seen) + 1
      <4>1. v \in page /\ v \in R
        BY <1>10, <1>11, <2>2, <3>2
      <4>2. Rank(R, before, v) < reader.offset + PageSize
        BY <1>9, <4>1 DEF Ranked
      <4> QED BY <1>8, <1>15, <4>1, <4>2
    <3> QED BY <1>11, <3>1, <3>2
  <2>3. ASSUME NEW i \in DOMAIN s, NEW k \in DOMAIN s, i < k, NEW v \in s[i], NEW w \in s[k]
        PROVE  v \in before'[w]
    <3>1. i \in DOMAIN reader.seen /\ v \in reader.seen[i]
      BY <1>11, <2>3
    <3>2. CASE k \in DOMAIN reader.seen
      <4>1. w \in reader.seen[k]
        BY <1>11, <2>3, <3>2
      <4> QED BY <1>6, <2>1, <2>3, <3>1, <3>2, <4>1 DEF InOrder
    <3>3. CASE k = Len(reader.seen) + 1
      <4>1. w \in page /\ w \in R /\ v \in R /\ Position(v) < reader.offset
        BY <1>10, <1>11, <1>18, <2>1, <2>3, <3>1, <3>3 DEF InOrder
      <4>2. reader.offset <= Rank(R, before, w)
        BY <1>9, <4>1 DEF Ranked
      <4>3. /\ Rank(R, before, v) < Rank(R, before, w)
            /\ Rank(R, before, v) \in Nat /\ Rank(R, before, w) \in Nat
        BY <1>8, <1>12, <4>1, <4>2
      <4>4. v = w \/ v \in before[w]
        BY <1>1, <1>7, <4>1, <4>3, RankTells
      <4> QED BY <1>6, <4>3, <4>4
    <3> QED BY <1>11, <3>2, <3>3
  <2> QED BY <1>13, <1>18, <2>2, <2>3 DEF InOrder
<1>19. /\ reader'.base \subseteq JobRows(reader.job)'
       /\ reader'.pc # "idle"
  BY <1>3, <1>7, <1>12, <1>13
<1>20. \A w \in reader'.base : Seen(w)' \/ reader'.offset <= Position(w)'
  BY <1>12, <1>13, <1>15, <1>16
<1>21. JobRows(reader.job)' = reader'.base => InOrder'
  BY <1>7, <1>13, <1>18
<1>22. reader'.pc = "done" => \A w \in reader'.base : Seen(w)'
  BY <1>13, <1>17
<1> QED BY <1>14, <1>19, <1>20, <1>21, <1>22 DEF Reading

\* A page read after the deletion is empty, and the reader's latest page is late.
LEMMA PageOfNothing ==
  ASSUME IInv, ReadInv, ReadPage, ~live
  PROVE  ReaderTyped' /\ Reading'
<1>1. /\ reader \in [pc : {"idle", "asking", "reading", "done", "refused"}, job : Job,
                     kind : {"export", "listing"}, offset : Nat, seen : Seq(SUBSET Writer),
                     base : SUBSET Writer, late : BOOLEAN]
      /\ jobs = {}
  BY DEF ReadInv, ReaderTyped, IInv, Removal
<1>2. PICK page : page = Page(reader.offset)
  OBVIOUS
<1>3. PICK last \in {"asking", "done", "reading"} :
        last = CASE LastPage(reader.offset, page) -> "done"
                 [] reader.kind = "listing" -> "asking"
                 [] OTHER -> "reading"
  <2>1. CASE LastPage(reader.offset, page)
    BY <2>1
  <2>2. CASE ~LastPage(reader.offset, page) /\ reader.kind = "listing"
    BY <2>2
  <2>3. CASE ~LastPage(reader.offset, page) /\ reader.kind # "listing"
    BY <2>3
  <2> QED BY <2>1, <2>2, <2>3
<1>4. PICK s : s = Append(reader.seen, page)
  OBVIOUS
<1>5. /\ reader' = [reader EXCEPT !.seen = s, !.offset = @ + PageSize,
                     !.late = (reader.job \notin jobs), !.pc = last]
      /\ live' = live
  BY <1>2, <1>3, <1>4 DEF ReadPage
<1>6. page \in SUBSET Writer
  BY <1>2 DEF Page, JobRows, IInv, TypeOK
<1>7. s \in Seq(SUBSET Writer)
  <2>1. reader.seen \in Seq(SUBSET Writer)
    BY <1>1
  <2> QED BY <1>4, <1>6, <2>1, Appended
<1>8. reader' = [pc |-> last, job |-> reader.job, kind |-> reader.kind,
                 offset |-> reader.offset + PageSize, seen |-> s, base |-> reader.base,
                 late |-> TRUE]
  BY <1>1, <1>5
<1>9. reader.offset + PageSize \in Nat
  BY <1>1, ConstantsAssumption
<1>10. ReaderTyped'
  BY <1>1, <1>7, <1>8, <1>9 DEF ReaderTyped
<1>11. reader'.pc # "idle" /\ reader'.late /\ ~live'
  <2>1. reader'.pc = last /\ last # "idle" /\ reader'.late
    BY <1>8
  <2>2. ~live'
    BY <1>5
  <2> QED BY <2>1, <2>2
<1> QED BY <1>10, <1>11 DEF Reading

\* Looking the job up again changes nothing of what has been read.
LEMMA AskingReads ==
  ASSUME IInv, ReadInv, AskForMore
  PROVE  ReaderTyped' /\ Reading'
<1>1. PICK next \in {"reading", "refused"} : reader' = [reader EXCEPT !.pc = next]
  BY DEF AskForMore
<1>2. /\ reader \in [pc : {"idle", "asking", "reading", "done", "refused"}, job : Job,
                     kind : {"export", "listing"}, offset : Nat, seen : Seq(SUBSET Writer),
                     base : SUBSET Writer, late : BOOLEAN]
      /\ Reading /\ reader.pc = "asking"
  BY DEF ReadInv, ReaderTyped, AskForMore
<1>3. /\ reader'.pc = next /\ reader'.job = reader.job /\ reader'.base = reader.base
      /\ reader'.seen = reader.seen /\ reader'.offset = reader.offset
  BY <1>1, <1>2
<1>4. ReaderTyped'
  BY <1>1, <1>2 DEF ReaderTyped
<1>5. UNCHANGED <<live, rows, before>>
  BY DEF AskForMore
<1>6. JobRows(reader.job)' = JobRows(reader.job)
  BY <1>3, <1>5 DEF JobRows
<1>7. \A w : (Seen(w)' <=> Seen(w)) /\ Position(w)' = Position(w)
  BY <1>3, <1>5 DEF Seen, Position, JobRows
<1>8. InOrder' <=> InOrder
  BY <1>3, <1>5, <1>7 DEF InOrder
<1> QED BY <1>2, <1>3, <1>4, <1>5, <1>6, <1>7, <1>8 DEF Reading, Begun

LEMMA InitReads == Init => ReadInv
<1> SUFFICES ASSUME Init PROVE ReadInv
  OBVIOUS
<1>1. /\ rows = {} /\ before = [w \in Writer |-> {}] /\ pc = [w \in Writer |-> "idle"]
      /\ reader = NoReader
  BY DEF Init
<1>2. Placed = {}
  BY <1>1 DEF Placed
<1>3. IsOrder(Placed, before)
  BY <1>1, <1>2 DEF IsOrder
<1>4. (CHOOSE j \in Job : TRUE) \in Job
  BY ConstantsAssumption
<1>5. ReaderTyped
  BY <1>1, <1>4 DEF ReaderTyped, NoReader
<1>6. Reading
  BY <1>1 DEF Reading, Begun, NoReader
<1> QED BY <1>3, <1>5, <1>6 DEF ReadInv

LEMMA NextReads == IInv /\ IInv' /\ ReadInv /\ [Next]_vars => ReadInv'
<1> SUFFICES ASSUME IInv, IInv', ReadInv, [Next]_vars PROVE ReadInv'
  OBVIOUS
<1>1. IsOrder(Placed', before')
  BY OrderKept DEF ReadInv
<1>2. CASE UNCHANGED reader
  <2>1. ReaderTyped'
    BY <1>2 DEF ReadInv, ReaderTyped
  <2> QED BY <1>1, <1>2, <2>1, ReadingLasts DEF ReadInv
<1>3. CASE Read
  <2>1. ASSUME NEW j \in Job, NEW kind \in {"export", "listing"}, StartReading(j, kind) PROVE ReadInv'
    BY <1>1, <2>1, StartReads DEF ReadInv
  <2>2. CASE ReadPage
    <3>1. CASE live
      BY <1>1, <2>2, <3>1, PageReads DEF ReadInv
    <3>2. CASE ~live
      BY <1>1, <2>2, <3>2, PageOfNothing DEF ReadInv
    <3> QED BY <3>1, <3>2
  <2>3. CASE AskForMore
    BY <1>1, <2>3, AskingReads DEF ReadInv
  <2> QED BY <1>3, <2>1, <2>2, <2>3 DEF Read
<1>4. CASE Next /\ ~Read
  <2>1. UNCHANGED reader
    <3>1. ASSUME NEW w \in Writer, Persist(w) PROVE UNCHANGED reader
      BY <3>1 DEF Persist, Fetch, PutBody, SkipBody, PutFails, InsertStart, InsertCommit, InsertConflict,
         InsertRejected, Discard, DiscardFails, Die
    <3>2. ASSUME NEW j \in Job, CreateJob(j) PROVE UNCHANGED reader
      BY <3>2 DEF CreateJob
    <3>3. CASE DeleteProject
      BY <3>3 DEF DeleteProject, ListJobs, DeleteRows, DeletionDies, DeletePrefix, DeletePrefixFails
    <3> QED BY <1>4, <3>1, <3>2, <3>3 DEF Next
  <2> QED BY <1>2, <2>1
<1>5. CASE UNCHANGED vars
  BY <1>2, <1>5 DEF vars
<1> QED BY <1>3, <1>4, <1>5

\* A client that read to the last page while the job existed has every row that
\* was there when it began (GET /jobs/:id/results and /export), whatever page size,
\* and the rows in order when none came in meanwhile: paging by offset misses
\* nothing, for results are only appended, in the order of created_at.  Of a client
\* whose latest page was read after the job had gone it says nothing: the code
\* ends such an export as if it were complete.
THEOREM ReadingIsComplete == Spec => []ReadingMissesNothing
<1>1. IInv /\ ReadInv => ReadingMissesNothing
  <2> SUFFICES ASSUME ReadInv, reader.pc = "done", ~reader.late
               PROVE  /\ reader.base \subseteq UNION Range(reader.seen)
                      /\ live /\ JobRows(reader.job) = reader.base =>
                           \A i, k \in DOMAIN reader.seen : i < k =>
                             \A v \in reader.seen[i], w \in reader.seen[k] : v \in before[w]
    BY DEF ReadingMissesNothing
  <2>1. \A w \in reader.base : Seen(w)
    BY DEF ReadInv, Reading
  <2>2. reader.base \subseteq UNION Range(reader.seen)
    BY <2>1 DEF Seen, Range
  <2>3. live /\ JobRows(reader.job) = reader.base => InOrder
    BY DEF ReadInv, Reading, Begun
  <2> QED BY <2>2, <2>3 DEF InOrder
<1> QED BY Invariant, InitReads, NextReads, <1>1, PTL DEF Spec

-----------------------------------------------------------------------------
(* The size limit: cutting by bytes keeps a budget that counts JSON, for a *)
(* text loses at least as many bytes of its JSON as of its own.            *)

LEMMA SizeType == ASSUME NEW c \in Content PROVE Size(c) \in Nat
BY DEF Content, Text, Size

\* A text that is cut to `keep` bytes is a text, and its JSON shrinks by at least
\* the bytes it lost.
LEMMA CutShrinks ==
  ASSUME NEW t \in Text, NEW keep \in Nat, NEW u \in Cut(t, keep)
  PROVE  /\ u \in Text
         /\ u.raw <= keep
         /\ u.json <= t.json
         /\ u.json + t.raw <= t.json + u.raw
BY DEF Cut, Text, IsText

\* After its turn a text is whole, for the body fitted; or empty; or as much
\* shorter as the body was too large.
LEMMA TrimmedFits ==
  ASSUME NEW c \in Content, NEW t \in Text, NEW u \in Trimmed(c, t)
  PROVE  /\ u \in Text
         /\ u.json <= t.json
         /\ u # t => Size(c) > MaxBytes
         /\ \/ u = t /\ Size(c) <= MaxBytes
            \/ u.raw = 0 /\ u.json = 0
            \/ u.json + Size(c) <= t.json + MaxBytes
<1>1. Size(c) \in Nat /\ MaxBytes \in Nat /\ Slack \in Nat
  BY SizeType, SizeAssumption
<1>2. CASE Size(c) <= MaxBytes \/ t.raw = 0
  <2>1. u = t
    BY <1>2 DEF Trimmed
  <2> QED BY <1>1, <1>2, <2>1 DEF Text, IsText
<1>3. CASE Size(c) > MaxBytes /\ t.raw # 0
  <2> DEFINE over == Size(c) - MaxBytes
  <2>1. over \in Nat
    BY <1>1, <1>3
  <2>2. t.raw \in Nat /\ t.json \in Nat
    BY DEF Text
  <2>3. Keep(t, over) \in Nat
    BY <1>1, <2>1, <2>2 DEF Keep
  <2>4. u \in Cut(t, Keep(t, over))
    BY <1>1, <1>3, <2>2 DEF Trimmed
  <2> HIDE DEF over
  <2>5. /\ u \in Text
        /\ u.raw <= Keep(t, over)
        /\ u.json <= t.json
        /\ u.json + t.raw <= t.json + u.raw
    BY <2>3, <2>4, CutShrinks
  <2>6. u.raw \in Nat /\ u.json \in Nat /\ (u.raw = 0 => u.json = 0)
    BY <2>5 DEF Text, IsText
  <2>7. CASE t.raw > over + Slack
    <3>1. u.json + over <= t.json
      BY <1>1, <2>1, <2>2, <2>5, <2>6, <2>7 DEF Keep
    <3> QED BY <1>1, <1>3, <2>2, <2>5, <2>6, <3>1 DEF over
  <2>8. CASE ~(t.raw > over + Slack)
    BY <1>3, <2>5, <2>6, <2>8 DEF Keep
  <2> QED BY <2>7, <2>8
<1> QED BY <1>1, <1>2, <1>3 DEF Text

\* A body that is too large is cut in five turns.
LEMMA Turns ==
  ASSUME NEW c \in Content, Size(c) > MaxBytes, NEW d \in ApplySizeLimit(c)
  PROVE  \E a \in Light(c) : \E h \in CutHtml(a) : \E t \in CutText(h) : \E m \in CutMarkdown(t) :
           d = WithoutLinks(m)
<1>1. ~(Size(c) <= MaxBytes)
  BY SizeType, SizeAssumption
<1> QED BY <1>1 DEF ApplySizeLimit

\* The image goes, and some links may: nothing else changes.
LEMMA LightBody ==
  ASSUME NEW c \in Content, NEW a \in Light(c)
  PROVE  /\ a \in Content
         /\ a.rest = c.rest /\ a.html = c.html /\ a.text = c.text /\ a.markdown = c.markdown
         /\ Size(a) <= MaxBytes \/ a.image = 0
<1>1. PICK b \in FewerLinks(c) : a = WithoutImage(b)
  BY DEF Light
<1>2. PICK n \in 0..c.links : b = [c EXCEPT !.links = n]
  BY <1>1 DEF FewerLinks
<1>3. b \in Content
  BY <1>2 DEF Content
<1>4. Size(b) \in Nat /\ MaxBytes \in Nat
  BY <1>3, SizeType, SizeAssumption
<1>5. CASE Size(b) > MaxBytes
  BY <1>1, <1>2, <1>3, <1>5 DEF WithoutImage, Content
<1>6. CASE ~(Size(b) > MaxBytes)
  BY <1>1, <1>2, <1>3, <1>4, <1>6 DEF WithoutImage, Content
<1> QED BY <1>5, <1>6

\* The turn of a text: it alone may change, only when the body is too large, and
\* the body fits or the text is gone.  The same for the three of them.
LEMMA HtmlTurn ==
  ASSUME NEW c \in Content, NEW d \in CutHtml(c)
  PROVE  /\ d \in Content /\ d.text = c.text /\ d.markdown = c.markdown
         /\ d.links = c.links /\ d.image = c.image /\ d.rest = c.rest
         /\ Size(d) <= Size(c)
         /\ d.html # c.html => Size(c) > MaxBytes
         /\ Size(d) <= MaxBytes \/ (d.html.raw = 0 /\ d.html.json = 0)
<1>1. PICK t \in Trimmed(c, c.html) : d = [c EXCEPT !.html = t]
  BY DEF CutHtml
<1>2. c.html \in Text
  BY DEF Content
<1>3. /\ t \in Text /\ t.json <= c.html.json
      /\ t # c.html => Size(c) > MaxBytes
      /\ \/ t = c.html /\ Size(c) <= MaxBytes
         \/ t.raw = 0 /\ t.json = 0
         \/ t.json + Size(c) <= c.html.json + MaxBytes
  BY <1>1, <1>2, TrimmedFits
<1>4. /\ d \in Content /\ d.html = t
      /\ d.text = c.text /\ d.markdown = c.markdown
      /\ d.links = c.links /\ d.image = c.image /\ d.rest = c.rest
  BY <1>1, <1>3 DEF Content
<1> QED BY <1>3, <1>4, SizeAssumption DEF Content, Text, Size

LEMMA TextTurn ==
  ASSUME NEW c \in Content, NEW d \in CutText(c)
  PROVE  /\ d \in Content /\ d.html = c.html /\ d.markdown = c.markdown
         /\ d.links = c.links /\ d.image = c.image /\ d.rest = c.rest
         /\ Size(d) <= Size(c)
         /\ d.text # c.text => Size(c) > MaxBytes
         /\ Size(d) <= MaxBytes \/ (d.text.raw = 0 /\ d.text.json = 0)
<1>1. PICK t \in Trimmed(c, c.text) : d = [c EXCEPT !.text = t]
  BY DEF CutText
<1>2. c.text \in Text
  BY DEF Content
<1>3. /\ t \in Text /\ t.json <= c.text.json
      /\ t # c.text => Size(c) > MaxBytes
      /\ \/ t = c.text /\ Size(c) <= MaxBytes
         \/ t.raw = 0 /\ t.json = 0
         \/ t.json + Size(c) <= c.text.json + MaxBytes
  BY <1>1, <1>2, TrimmedFits
<1>4. /\ d \in Content /\ d.text = t
      /\ d.html = c.html /\ d.markdown = c.markdown
      /\ d.links = c.links /\ d.image = c.image /\ d.rest = c.rest
  BY <1>1, <1>3 DEF Content
<1> QED BY <1>3, <1>4, SizeAssumption DEF Content, Text, Size

LEMMA MarkdownTurn ==
  ASSUME NEW c \in Content, NEW d \in CutMarkdown(c)
  PROVE  /\ d \in Content /\ d.html = c.html /\ d.text = c.text
         /\ d.links = c.links /\ d.image = c.image /\ d.rest = c.rest
         /\ Size(d) <= Size(c)
         /\ d.markdown # c.markdown => Size(c) > MaxBytes
         /\ Size(d) <= MaxBytes \/ (d.markdown.raw = 0 /\ d.markdown.json = 0)
<1>1. PICK t \in Trimmed(c, c.markdown) : d = [c EXCEPT !.markdown = t]
  BY DEF CutMarkdown
<1>2. c.markdown \in Text
  BY DEF Content
<1>3. /\ t \in Text /\ t.json <= c.markdown.json
      /\ t # c.markdown => Size(c) > MaxBytes
      /\ \/ t = c.markdown /\ Size(c) <= MaxBytes
         \/ t.raw = 0 /\ t.json = 0
         \/ t.json + Size(c) <= c.markdown.json + MaxBytes
  BY <1>1, <1>2, TrimmedFits
<1>4. /\ d \in Content /\ d.markdown = t
      /\ d.html = c.html /\ d.text = c.text
      /\ d.links = c.links /\ d.image = c.image /\ d.rest = c.rest
  BY <1>1, <1>3 DEF Content
<1> QED BY <1>3, <1>4, SizeAssumption DEF Content, Text, Size

\* The links go when the body is still too large.
LEMMA LinksTurn ==
  ASSUME NEW c \in Content
  PROVE  LET d == WithoutLinks(c)
         IN  /\ d.html = c.html /\ d.text = c.text /\ d.markdown = c.markdown
             /\ Size(c) <= MaxBytes => Size(d) <= MaxBytes
             /\ Size(c) > MaxBytes => Size(d) + c.links = Size(c)
<1>1. CASE Size(c) > MaxBytes
  <2>1. Size(c) \in Nat /\ MaxBytes \in Nat
    BY SizeType, SizeAssumption
  <2>2. WithoutLinks(c) = [c EXCEPT !.links = 0]
    BY <1>1 DEF WithoutLinks
  <2> QED BY <1>1, <2>1, <2>2 DEF Content, Text, Size
<1>2. CASE ~(Size(c) > MaxBytes)
  BY <1>2 DEF WithoutLinks
<1> QED BY <1>1, <1>2

\* What is stored of a page fits the budget of a result whatever the page holds
\* (unless what is never cut is larger): applySizeLimit, which measures JSON and
\* cuts bytes.
THEOREM BodyFits == \A c \in Content : Fits(c)
<1> SUFFICES ASSUME NEW c \in Content, c.rest <= MaxBytes, NEW d \in ApplySizeLimit(c)
             PROVE  Size(d) <= MaxBytes
  BY DEF Fits
<1>1. CASE Size(c) <= MaxBytes
  BY <1>1 DEF ApplySizeLimit
<1>2. CASE ~(Size(c) <= MaxBytes)
  <2>1. Size(c) > MaxBytes
    BY <1>2, SizeType, SizeAssumption
  <2>2a. PICK a \in Light(c) : \E h \in CutHtml(a) : \E t \in CutText(h) : \E m \in CutMarkdown(t) :
           d = WithoutLinks(m)
    BY <2>1, Turns
  <2>2h. PICK h \in CutHtml(a) : \E t \in CutText(h) : \E m \in CutMarkdown(t) : d = WithoutLinks(m)
    BY <2>2a
  <2>2t. PICK t \in CutText(h) : \E m \in CutMarkdown(t) : d = WithoutLinks(m)
    BY <2>2h
  <2>2. PICK m \in CutMarkdown(t) : d = WithoutLinks(m)
    BY <2>2t
  <2>3. a \in Content /\ a.rest = c.rest /\ (Size(a) <= MaxBytes \/ a.image = 0)
    BY LightBody
  <2>4. /\ h \in Content /\ h.image = a.image /\ h.rest = a.rest /\ Size(h) <= Size(a)
        /\ Size(h) <= MaxBytes \/ h.html.json = 0
    BY <2>3, HtmlTurn
  <2>5. /\ t \in Content /\ t.image = h.image /\ t.rest = h.rest /\ Size(t) <= Size(h)
        /\ t.html = h.html
        /\ Size(t) <= MaxBytes \/ t.text.json = 0
    BY <2>4, TextTurn
  <2>6. /\ m \in Content /\ m.image = t.image /\ m.rest = t.rest /\ Size(m) <= Size(t)
        /\ m.html = t.html /\ m.text = t.text
        /\ Size(m) <= MaxBytes \/ m.markdown.json = 0
    BY <2>5, MarkdownTurn
  <2>7. Size(a) \in Nat /\ Size(h) \in Nat /\ Size(t) \in Nat /\ Size(m) \in Nat /\ MaxBytes \in Nat
    BY <2>3, <2>4, <2>5, <2>6, SizeType, SizeAssumption
  <2>8. CASE Size(m) <= MaxBytes
    BY <2>2, <2>6, <2>8, LinksTurn
  <2>9. CASE ~(Size(m) <= MaxBytes)
    <3>1. m.image = 0 /\ m.html.json = 0 /\ m.text.json = 0 /\ m.markdown.json = 0 /\ m.rest = c.rest
      BY <2>3, <2>4, <2>5, <2>6, <2>7, <2>9
    <3>2. Size(m) = m.links + c.rest /\ m.links \in Nat /\ c.rest \in Nat
      BY <2>6, <3>1 DEF Size, Content
    <3>3. Size(d) + m.links = Size(m)
      BY <2>2, <2>6, <2>7, <2>9, LinksTurn
    <3>4. d \in Content
      BY <2>2, <2>6 DEF WithoutLinks, Content
    <3> QED BY <2>7, <3>2, <3>3, <3>4, SizeType
  <2> QED BY <2>8, <2>9
<1> QED BY <1>1, <1>2

\* "So the most useful representation survives": the markdown is whole as long as
\* any html or text is left.
THEOREM MarkdownIsLast == \A c \in Content : MarkdownLast(c)
<1> SUFFICES ASSUME NEW c \in Content, NEW d \in ApplySizeLimit(c), d.markdown # c.markdown
             PROVE  d.html.raw = 0 /\ d.text.raw = 0
  BY DEF MarkdownLast
<1>1. Size(c) > MaxBytes
  <2>1. ~(Size(c) <= MaxBytes)
    BY DEF ApplySizeLimit
  <2> QED BY <2>1, SizeType, SizeAssumption
<1>2a. PICK a \in Light(c) : \E h \in CutHtml(a) : \E t \in CutText(h) : \E m \in CutMarkdown(t) :
         d = WithoutLinks(m)
  BY <1>1, Turns
<1>2h. PICK h \in CutHtml(a) : \E t \in CutText(h) : \E m \in CutMarkdown(t) : d = WithoutLinks(m)
  BY <1>2a
<1>2t. PICK t \in CutText(h) : \E m \in CutMarkdown(t) : d = WithoutLinks(m)
  BY <1>2h
<1>2. PICK m \in CutMarkdown(t) : d = WithoutLinks(m)
  BY <1>2t
<1>3. a \in Content /\ a.markdown = c.markdown
  BY LightBody
<1>4. /\ h \in Content /\ h.markdown = a.markdown
      /\ Size(h) <= MaxBytes \/ h.html.raw = 0
  BY <1>3, HtmlTurn
<1>5. /\ t \in Content /\ t.markdown = h.markdown /\ t.html = h.html /\ Size(t) <= Size(h)
      /\ Size(t) <= MaxBytes \/ t.text.raw = 0
  BY <1>4, TextTurn
<1>6. /\ m \in Content /\ m.html = t.html /\ m.text = t.text
      /\ m.markdown # t.markdown => Size(t) > MaxBytes
  BY <1>5, MarkdownTurn
<1>7. d.html = m.html /\ d.text = m.text /\ d.markdown = m.markdown
  BY <1>2, <1>6, LinksTurn
<1>8. Size(t) > MaxBytes
  BY <1>3, <1>4, <1>5, <1>6, <1>7
<1>9. Size(h) \in Nat /\ Size(t) \in Nat /\ MaxBytes \in Nat
  BY <1>4, <1>5, SizeType, SizeAssumption
<1> QED BY <1>4, <1>5, <1>6, <1>7, <1>8, <1>9
==============================================================================
