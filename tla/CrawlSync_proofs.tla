--------------------------- MODULE CrawlSync_proofs ---------------------------
(***************************************************************************)
(* What holds of CrawlSync for any number of processes, pages and faults:  *)
(* that what a client sees of it keeps the promise of JobView, that the    *)
(* final counters are those of the rows, that a completed crawl has its    *)
(* pages, and that the figures a client polls agree.  An ordinary sync may *)
(* miss pages; it is the drain, which starts over on a crawl that has      *)
(* ended, that has to be complete, however often syncs run into another.   *)
(***************************************************************************)
EXTENDS CrawlSync, FiniteSetTheorems, TLAPS

Fates == {"pending", "good", "bad", "error"}
EngineStatus == {"running", "completed", "failed", "cancelled"}
Steps == {"idle", "request", "persist", "failures", "count", "progress", "finish", "release"}

Fields ==
  [pc : Steps, outcome : {"none"} \cup Ended, skip : Nat, requests : Nat, round : 0..Rounds,
   pages : Seq(Page), more : BOOLEAN,
   snap : [status : EngineStatus, discovered : Nat, processed : Nat],
   seen : [cursor : Nat, discovered : Nat],
   counts : [succeeded : Nat, failed : Nat]]

\* The locals of a sync; a job is finished with an outcome.
Locals == {s \in Fields : s.pc = "finish" => s.outcome # "none"}

Typed ==
  /\ fate \in [Page -> Fates] /\ docs \in Seq(Page) /\ total \in Nat
  /\ engine \in EngineStatus \cup {"gone"}
  /\ status \in {"running"} \cup Ended
  /\ cursor \in Nat /\ discovered \in Nat /\ processed \in Nat /\ succeeded \in Nat /\ failed \in Nat
  /\ rows \in [Page -> {"none", "good", "bad"}]
  /\ sync \in [Instance -> Locals]
  /\ warned \in BOOLEAN /\ short \in BOOLEAN /\ overlapped \in BOOLEAN

-----------------------------------------------------------------------------
(* The counters.                                                           *)

\* Two syncs at work have overlapped; a job that is over is left alone by then.
Alone ==
  ~overlapped =>
    /\ \A i, k \in Instance : sync[i].pc # "idle" /\ sync[k].pc # "idle" => i = k
    /\ status = "completed" => \A i \in Instance : sync[i].pc = "idle"

RowCounts == [succeeded |-> Cardinality(RowsWith("good")), failed |-> Cardinality(RowsWith("bad"))]
Recorded == succeeded = Cardinality(RowsWith("good")) /\ failed = Cardinality(RowsWith("bad"))

\* From the count to the end the rows stand still.
Counted ==
  ~overlapped => \A i \in Instance :
    /\ sync[i].pc = "progress" => sync[i].counts = RowCounts
    /\ sync[i].pc = "finish" /\ sync[i].outcome = "completed" /\ status = "running" => Recorded

CountInv == Typed /\ Alone /\ Counted /\ CountersMatchRows

-----------------------------------------------------------------------------
(* The pages.                                                              *)

Delivered == {"good", "bad"}
Crawled == Cardinality(Page) - Cardinality(PagesWith("pending"))

\* The engine lists what it has delivered, and no more than it has discovered.
Listed ==
  /\ \A n \in 1..Len(docs) : fate[docs[n]] \in Delivered
  /\ \A p \in Page : fate[p] \in Delivered => \E n \in 1..Len(docs) : docs[n] = p
  /\ Len(docs) <= Crawled /\ Crawled <= total
  /\ cursor <= Len(docs)

\* A row tells how its page ended.
Rows ==
  \A p \in Page : /\ rows[p] = "good" => fate[p] = "good"
                  /\ rows[p] = "bad" => fate[p] \in {"bad", "error"}

\* The first n documents have rows, or will have with what the sync still holds.
Covers(s, n) ==
  \A k \in 1..n : rows[docs[k]] # "none" \/ \E m \in 1..Len(s.pages) : s.pages[m] = docs[k]
AllStored == \A k \in 1..Len(docs) : rows[docs[k]] # "none"

\* How far a drain of a completed crawl is: what it has read is stored, or will
\* be, and when nothing more is to come it has read the list to the end.
Drained(s) ==
  /\ s.pc \in {"request", "persist"} => Covers(s, s.skip)
  /\ s.pc = "persist" /\ ~s.more => s.skip = Len(docs)
  /\ s.pc \notin {"request", "persist"} => AllStored

\* A sync reads within the list and holds pages of it; it takes a crawl for
\* completed only when it is, for good, and drains it from the start.
Over == engine \in {"completed", "gone"}
Fine(s) ==
  /\ s.skip <= Len(docs) /\ s.seen.cursor <= Len(docs)
  /\ \A n \in 1..Len(s.pages) : fate[s.pages[n]] \in Delivered
  /\ s.pc \in {"persist", "failures", "count", "progress"} /\ s.outcome = "none" =>
       (s.snap.status = "completed" => Over)
  /\ s.outcome = "completed" =>
       s.pc \notin {"idle", "release"} /\ Over /\ (~short /\ ~warned => Drained(s))

Done == Over /\ (~short /\ ~warned => AllStored)
Complete == status = "completed" => Done

PageInv == Typed /\ Listed /\ Rows /\ Complete /\ \A i \in Instance : Fine(sync[i])

-----------------------------------------------------------------------------
(* Types.                                                                  *)

LEMMA MaxOfTwo ==
  ASSUME NEW a \in Nat, NEW b \in Nat
  PROVE  Max({a, b}) \in Nat /\ Max({a, b}) >= a /\ Max({a, b}) >= b
<1>1. \E x \in {a, b} : \A y \in {a, b} : x >= y
  <2>1. CASE a >= b
    BY <2>1
  <2>2. CASE b >= a
    BY <2>2
  <2> QED BY <2>1, <2>2
<1>2. Max({a, b}) \in {a, b} /\ \A y \in {a, b} : Max({a, b}) >= y
  BY <1>1 DEF Max
<1> QED BY <1>2

LEMMA MaxOfThree ==
  ASSUME NEW a \in Nat, NEW b \in Nat, NEW c \in Nat
  PROVE  Max({a, b, c}) \in Nat /\ \A y \in {a, b, c} : Max({a, b, c}) >= y
<1>1. \E x \in {a, b, c} : \A y \in {a, b, c} : x >= y
  <2>1. CASE a >= b /\ a >= c
    BY <2>1
  <2>2. CASE b >= a /\ b >= c
    BY <2>2
  <2>3. CASE c >= a /\ c >= b
    BY <2>3
  <2> QED BY <2>1, <2>2, <2>3
<1>2. Max({a, b, c}) \in {a, b, c} /\ \A y \in {a, b, c} : Max({a, b, c}) >= y
  BY <1>1 DEF Max
<1> QED BY <1>2

\* One element more, one place on for those behind it.
LEMMA Inserted ==
  ASSUME NEW S, NEW q \in Seq(S), NEW k \in 1..Len(q) + 1, NEW e \in S
  PROVE  /\ InsertAt(q, k, e) \in Seq(S)
         /\ Len(InsertAt(q, k, e)) = Len(q) + 1
         /\ \A n \in 1..Len(q) + 1 :
              InsertAt(q, k, e)[n] = IF n < k THEN q[n] ELSE IF n = k THEN e ELSE q[n - 1]
<1> DEFINE front == SubSeq(q, 1, k - 1)
           back == SubSeq(q, k, Len(q))
<1>1. front \in Seq(S) /\ Len(front) = k - 1 /\ \A n \in 1..k - 1 : front[n] = q[n]
  OBVIOUS
<1>2. back \in Seq(S) /\ Len(back) = Len(q) + 1 - k /\ \A n \in 1..Len(q) + 1 - k : back[n] = q[k + n - 1]
  OBVIOUS
<1>3. <<e>> \in Seq(S) /\ Len(<<e>>) = 1 /\ <<e>>[1] = e
  OBVIOUS
<1>4. InsertAt(q, k, e) = (front \o <<e>>) \o back
  BY DEF InsertAt
<1> HIDE DEF front, back
<1>5. /\ front \o <<e>> \in Seq(S) /\ Len(front \o <<e>>) = k
      /\ \A n \in 1..k : (front \o <<e>>)[n] = IF n < k THEN q[n] ELSE e
  BY <1>1, <1>3
<1> DEFINE fore == front \o <<e>>
<1>6. InsertAt(q, k, e) \in Seq(S) /\ Len(InsertAt(q, k, e)) = Len(q) + 1
  <2>1. fore \o back \in Seq(S) /\ Len(fore \o back) = Len(q) + 1
    BY <1>2, <1>5
  <2> QED BY <2>1, <1>4, Zenon
<1>7. \A n \in 1..Len(q) + 1 : InsertAt(q, k, e)[n] = IF n <= k THEN fore[n] ELSE back[n - k]
  <2>1. \A n \in 1..Len(q) + 1 : (fore \o back)[n] = IF n <= k THEN fore[n] ELSE back[n - k]
    BY <1>2, <1>5
  <2> QED BY <2>1, <1>4, Zenon
<1>8. ASSUME NEW n \in 1..Len(q) + 1, n > k  PROVE back[n - k] = q[n - 1]
  BY <1>2, <1>8
<1>9. ASSUME NEW n \in 1..Len(q) + 1, n <= k
      PROVE  fore[n] = IF n < k THEN q[n] ELSE e
  BY <1>5, <1>9
<1> HIDE DEF fore
<1>10. ASSUME NEW n \in 1..Len(q) + 1
       PROVE  InsertAt(q, k, e)[n] = IF n < k THEN q[n] ELSE IF n = k THEN e ELSE q[n - 1]
  BY <1>7, <1>8, <1>9
<1> QED BY <1>6, <1>10

\* What a status request returns: the documents behind the skip.
Upto(skip) == IF skip + PageSize < Len(docs) THEN skip + PageSize ELSE Len(docs)
Batch(skip) == SubSeq(docs, skip + 1, Upto(skip))

LEMMA BatchOf ==
  ASSUME docs \in Seq(Page), NEW skip \in Nat
  PROVE  /\ Batch(skip) \in Seq(Page) /\ Len(Batch(skip)) \in Nat
         /\ skip <= Len(docs) => Len(Batch(skip)) = Upto(skip) - skip
         /\ \A n \in 1..Len(Batch(skip)) : skip + n \in 1..Len(docs) /\ Batch(skip)[n] = docs[skip + n]
<1>1. Upto(skip) \in Nat /\ Upto(skip) <= Len(docs) /\ (skip <= Len(docs) => skip <= Upto(skip))
  BY ConstantsAssumption DEF Upto
<1> QED BY <1>1 DEF Batch

LEMMA RowNumbers ==
  Cardinality(RowsWith("good")) \in Nat /\ Cardinality(RowsWith("bad")) \in Nat
BY ConstantsAssumption, FS_Subset, FS_CardinalityType DEF RowsWith

LEMMA IdleLocal == Idle \in Locals
BY ConstantsAssumption DEF Idle, Locals, Fields, Ended, EngineStatus, Steps

LEMMA Elsewhere ==
  /\ \A s \in Locals : s \in Fields
  /\ \A s \in Fields : s.pc # "finish" => s \in Locals
BY DEF Locals

LEMMA LocalsOf ==
  ASSUME Typed, NEW i \in Instance
  PROVE  /\ sync[i] \in Locals /\ sync[i].pages \in Seq(Page)
         /\ sync[i].snap.discovered \in Nat /\ sync[i].snap.processed \in Nat
         /\ sync[i].counts.succeeded \in Nat /\ sync[i].counts.failed \in Nat
         /\ sync[i].seen.cursor \in Nat /\ sync[i].seen.discovered \in Nat /\ sync[i].skip \in Nat
BY DEF Typed, Locals, Fields

LEMMA InitTyped == Init => Typed
<1> SUFFICES ASSUME Init PROVE Typed
  OBVIOUS
<1>1. sync \in [Instance -> Locals] /\ docs \in Seq(Page)
  BY IdleLocal DEF Init
<1> QED BY <1>1 DEF Init, Typed, Fates, EngineStatus

\* A step that changes one process and leaves the rest.
LEMMA OneSync ==
  ASSUME Typed, NEW i \in Instance, NEW s \in Locals, sync' = [sync EXCEPT ![i] = s]
  PROVE  sync' \in [Instance -> Locals]
BY DEF Typed

LEMMA EngineTyped ==
  ASSUME Typed, Discover \/ EngineEnds \/ LeaseExpires \/ Cancel \/ \E p \in Page : CrawlPage(p)
  PROVE  Typed'
<1>1. CASE Discover
  BY <1>1 DEF Discover, Typed, counterVars, history
<1>2. CASE EngineEnds
  BY <1>2 DEF EngineEnds, Typed, counterVars, Disturbed, EngineStatus
<1>3. CASE LeaseExpires
  BY <1>3 DEF LeaseExpires, Typed, counterVars, engineVars
<1>4. CASE Cancel
  BY <1>4 DEF Cancel, Typed, counterVars, EngineStatus, Ended
<1>5. ASSUME NEW p \in Page, CrawlPage(p)  PROVE Typed'
  <2>1. docs' \in Seq(Page)
    BY <1>5, Inserted DEF CrawlPage, Typed
  <2>2. fate' \in [Page -> Fates]
    BY <1>5 DEF CrawlPage, Typed, Fates
  <2> QED BY <1>5, <2>1, <2>2 DEF CrawlPage, Typed, counterVars, history
<1> QED BY <1>1, <1>2, <1>3, <1>4, <1>5

LEMMA TickTyped == ASSUME Typed, NEW i \in Instance, Tick(i) PROVE Typed'
<1>1. /\ [Idle EXCEPT !.pc = "request", !.skip = cursor,
                      !.seen = [cursor |-> cursor, discovered |-> discovered]] \in Locals
      /\ [Idle EXCEPT !.pc = "request", !.outcome = "failed",
                      !.seen = [cursor |-> cursor, discovered |-> discovered]] \in Locals
  BY IdleLocal DEF Typed, Locals, Fields, Ended, Steps
<1>2. sync' \in [Instance -> Locals]
  BY <1>1, OneSync DEF Tick
<1>3. engine' \in EngineStatus \cup {"gone"} /\ overlapped' \in BOOLEAN
  BY DEF Tick, Typed, EngineStatus, Disturbed
<1> QED BY <1>2, <1>3 DEF Tick, Typed, counterVars

LEMMA RequestTyped == ASSUME Typed, NEW i \in Instance, Request(i) PROVE Typed'
<1> DEFINE s == sync[i]
           batch == Batch(s.skip)
           more == batch # <<>> /\ s.skip + Len(batch) < total
           t == [s EXCEPT !.pages = @ \o batch, !.skip = @ + Len(batch), !.more = more,
                    !.snap = [status |-> engine, discovered |-> total,
                              processed |-> Len(docs)],
                    !.requests = IF more /\ @ + 1 < PerCall THEN @ + 1 ELSE 0,
                    !.pc = IF more /\ s.requests + 1 < PerCall THEN "request" ELSE "persist"]
<1>1. batch \in Seq(Page) /\ Len(batch) \in Nat
  BY BatchOf, LocalsOf DEF Typed
<1>2. s.pages \o batch \in Seq(Page) /\ engine \in EngineStatus /\ more \in BOOLEAN /\ Len(docs) \in Nat
  BY <1>1, LocalsOf DEF Typed, Request
<1>3. sync' = [sync EXCEPT ![i] = t]
  BY DEF Request, Batch, Upto
<1>4. t \in Locals
  <2> DEFINE asked == IF more /\ s.requests + 1 < PerCall THEN s.requests + 1 ELSE 0
             to == IF more /\ s.requests + 1 < PerCall THEN "request" ELSE "persist"
             told == [status |-> engine, discovered |-> total, processed |-> Len(docs)]
  <2>1. asked \in Nat /\ to \in Steps
    BY LocalsOf DEF Locals, Fields, Steps
  <2>2. told \in [status : EngineStatus, discovered : Nat, processed : Nat]
    BY <1>2 DEF Typed
  <2>3. t = [s EXCEPT !.pages = s.pages \o batch, !.skip = s.skip + Len(batch), !.more = more,
                      !.snap = told, !.requests = asked, !.pc = to]
    OBVIOUS
  <2>4. s.skip + Len(batch) \in Nat
    BY <1>1, LocalsOf
  <2> HIDE DEF batch, more, asked, to, told, t
  <2>5. t \in Fields
    BY <1>2, <2>1, <2>2, <2>3, <2>4, LocalsOf DEF Locals, Fields
  <2>6. t.pc # "finish"
    BY <2>3, LocalsOf DEF Locals, Fields, to
  <2> QED BY <2>5, <2>6 DEF Locals
<1> HIDE DEF t
<1>5. sync' \in [Instance -> Locals]
  BY <1>3, <1>4, OneSync
<1> QED BY <1>5 DEF Request, Typed, engineVars, counterVars, history

LEMMA PullTyped ==
  ASSUME Typed, NEW i \in Instance, RequestGone(i) \/ Persist(i) \/ PullNext(i)
  PROVE  Typed'
<1> USE LocalsOf
<1>1. CASE RequestGone(i)
  <2>1. [sync[i] EXCEPT !.pc = "persist", !.more = FALSE, !.requests = 0,
           !.snap = [status |-> "failed", discovered |-> 0, processed |-> 0]] \in Locals
    <3> DEFINE told == [status |-> "failed", discovered |-> 0, processed |-> 0]
    <3>1. told \in [status : EngineStatus, discovered : Nat, processed : Nat]
      BY DEF EngineStatus
    <3> HIDE DEF told
    <3>0. sync[i] \in Fields
      BY Elsewhere
    <3>2. [sync[i] EXCEPT !.pc = "persist", !.more = FALSE, !.requests = 0, !.snap = told] \in Fields
      BY <3>0, <3>1 DEF Fields, Steps
    <3>3. [sync[i] EXCEPT !.pc = "persist", !.more = FALSE, !.requests = 0, !.snap = told].pc = "persist"
      BY Elsewhere DEF Fields
    <3> QED BY <3>2, <3>3, Elsewhere DEF told
  <2>2. sync' \in [Instance -> Locals]
    BY <1>1, <2>1, OneSync DEF RequestGone
  <2> QED BY <1>1, <2>2 DEF RequestGone, Typed, engineVars, counterVars, CutShort
<1>2. CASE Persist(i)
  <2>1. Tail(sync[i].pages) \in Seq(Page) /\ Head(sync[i].pages) \in Page
    BY <1>2 DEF Persist
  <2>2. [sync[i] EXCEPT !.pages = Tail(@)] \in Locals
    BY <2>1 DEF Locals, Fields
  <2>3. sync' \in [Instance -> Locals]
    BY <1>2, <2>2 DEF Persist, Typed
  <2>4. rows' \in [Page -> {"none", "good", "bad"}]
    BY <1>2, <2>1 DEF Persist, Typed
  <2> QED BY <1>2, <2>3, <2>4 DEF Persist, Typed, engineVars, counterVars, history
<1>3. CASE PullNext(i)
  <2>1. /\ sync[i].round < Rounds => [sync[i] EXCEPT !.pc = "request", !.round = @ + 1] \in Locals
        /\ [sync[i] EXCEPT !.pc = "count", !.more = FALSE, !.round = 0] \in Locals
        /\ [sync[i] EXCEPT !.pc = "failures", !.more = FALSE, !.round = 0, !.skip = 0,
              !.snap = [Idle.snap EXCEPT !.discovered = sync[i].snap.discovered]] \in Locals
    <3> DEFINE clear == [Idle.snap EXCEPT !.discovered = sync[i].snap.discovered]
    <3>1. clear \in [status : EngineStatus, discovered : Nat, processed : Nat]
      BY DEF Idle, EngineStatus
    <3>2. 0 \in 0..Rounds /\ (sync[i].round < Rounds => sync[i].round + 1 \in 0..Rounds)
      BY ConstantsAssumption DEF Locals, Fields
    <3> HIDE DEF clear
    <3>3. [sync[i] EXCEPT !.pc = "failures", !.more = FALSE, !.round = 0, !.skip = 0, !.snap = clear] \in Locals
      <4> DEFINE t == [sync[i] EXCEPT !.pc = "failures", !.more = FALSE, !.round = 0, !.skip = 0, !.snap = clear]
      <4>0. sync[i] \in Fields
        BY Elsewhere
      <4>1. t \in Fields
        BY <4>0, <3>1, <3>2 DEF Fields, Steps
      <4>2. t.pc = "failures"
        BY Elsewhere DEF Fields
      <4> HIDE DEF t
      <4>3. t \in Locals
        BY <4>1, <4>2, Elsewhere
      <4> QED BY <4>3 DEF t
    <3>4. /\ sync[i].round < Rounds => [sync[i] EXCEPT !.pc = "request", !.round = @ + 1] \in Locals
          /\ [sync[i] EXCEPT !.pc = "count", !.more = FALSE, !.round = 0] \in Locals
      BY <3>2 DEF Locals, Fields, Steps
    <3> QED BY <3>3, <3>4 DEF clear
  <2>2. sync' \in [Instance -> Locals]
    BY <1>3, <2>1 DEF PullNext, Typed
  <2> QED BY <1>3, <2>2 DEF PullNext, Typed, engineVars, counterVars, CutShort
<1> QED BY <1>1, <1>2, <1>3

\* What updateProgress writes: the greater figures, the counts, a cursor.
LEMMA Recording ==
  ASSUME Typed, NEW d \in Nat, NEW n \in Nat, NEW at \in Nat, NEW counts,
         counts.succeeded \in Nat, counts.failed \in Nat, Record(d, n, counts, at)
  PROVE  /\ cursor' \in Nat /\ discovered' \in Nat /\ processed' \in Nat
         /\ succeeded' \in Nat /\ failed' \in Nat
         /\ cursor' \in {cursor, at}
BY MaxOfTwo DEF Typed, Record, counterVars

\* Where a process goes when it stops pulling, counts, or is done.
Counting(s) == [s EXCEPT !.pc = "count", !.pages = <<>>, !.skip = 0, !.more = FALSE, !.round = 0,
                         !.snap = IF s.pc = "failures" THEN s.snap ELSE Idle.snap]
LEMMA Jumps ==
  /\ [Idle EXCEPT !.pc = "release"] \in Locals
  /\ [Idle EXCEPT !.pc = "finish", !.outcome = "failed"] \in Locals
  /\ \A s \in Locals : Counting(s) \in Locals
  /\ \A s \in Locals, o \in Ended, at \in Nat : DrainFrom(s, o, at) \in Locals
  /\ \A s \in Locals : s.outcome # "none" =>
       [Idle EXCEPT !.pc = "finish", !.outcome = s.outcome, !.counts = s.counts] \in Locals
<1>1. Idle.snap \in [status : EngineStatus, discovered : Nat, processed : Nat]
      /\ Idle.counts \in [succeeded : Nat, failed : Nat] /\ 0 \in 0..Rounds
      /\ <<>> \in Seq(Page)
  BY ConstantsAssumption DEF Idle, EngineStatus
<1>2. /\ [Idle EXCEPT !.pc = "release"] \in Locals
      /\ [Idle EXCEPT !.pc = "finish", !.outcome = "failed"] \in Locals
  BY IdleLocal DEF Locals, Fields, Steps, Ended
<1>3. ASSUME NEW s \in Locals PROVE Counting(s) \in Locals
  <2> DEFINE quiet == IF s.pc = "failures" THEN s.snap ELSE Idle.snap
             none == <<>>
  <2>1. Counting(s) = [s EXCEPT !.pc = "count", !.pages = none, !.skip = 0, !.more = FALSE, !.round = 0,
                                !.snap = quiet]
    BY DEF Counting
  <2> HIDE DEF quiet, none
  <2>2. quiet \in [status : EngineStatus, discovered : Nat, processed : Nat] /\ none \in Seq(Page)
    BY <1>1, Elsewhere DEF quiet, none, Fields
  <2>0. s \in Fields
    BY Elsewhere
  <2>5. 0 \in 0..Rounds /\ 0 \in Nat /\ "count" \in Steps /\ FALSE \in BOOLEAN
    BY ConstantsAssumption DEF Steps
  <2>3. Counting(s) \in Fields
    BY <2>5, <2>0, <2>1, <2>2 DEF Fields
  <2>4. Counting(s).pc # "finish"
    BY <2>1, Elsewhere DEF Fields
  <2> QED BY <2>3, <2>4, Elsewhere
<1>4. ASSUME NEW s \in Locals, NEW o \in Ended, NEW at \in Nat
      PROVE  DrainFrom(s, o, at) \in Locals
  <2> DEFINE quiet == Idle.snap
             none == Idle.counts
  <2>1. DrainFrom(s, o, at) = [s EXCEPT !.pc = "request", !.outcome = o, !.skip = at, !.round = 0,
                                        !.snap = quiet, !.counts = none, !.more = FALSE]
    BY DEF DrainFrom
  <2> HIDE DEF quiet, none
  <2>2. quiet \in [status : EngineStatus, discovered : Nat, processed : Nat]
        /\ none \in [succeeded : Nat, failed : Nat]
    BY <1>1 DEF quiet, none
  <2>0. s \in Fields
    BY Elsewhere
  <2>3. DrainFrom(s, o, at) \in Fields
    BY <1>1, <2>0, <2>1, <2>2 DEF Fields, Steps
  <2>4. DrainFrom(s, o, at).pc # "finish"
    BY <2>1, Elsewhere DEF Fields
  <2> QED BY <2>3, <2>4, Elsewhere
<1>5. ASSUME NEW s \in Locals, s.outcome # "none"
      PROVE  [Idle EXCEPT !.pc = "finish", !.outcome = s.outcome, !.counts = s.counts] \in Locals
  BY <1>5, IdleLocal DEF Locals, Fields, Steps
<1> QED BY <1>2, <1>3, <1>4, <1>5

LEMMA CountTyped ==
  ASSUME Typed, NEW i \in Instance, Failures(i) \/ Count(i) \/ Finish(i) \/ Release(i)
  PROVE  Typed'
<1> USE LocalsOf
<1>1. CASE Failures(i)
  <2>1. sync' \in [Instance -> Locals]
    <3>1. [sync[i] EXCEPT !.pc = "count"] \in Locals
      BY DEF Locals, Fields, Steps
    <3> QED BY <1>1, <3>1 DEF Failures, Typed
  <2>2. rows' \in [Page -> {"none", "good", "bad"}]
    BY <1>1 DEF Failures, Typed
  <2> QED BY <1>1, <2>1, <2>2 DEF Failures, Typed, engineVars, counterVars
<1>2. CASE Count(i)
  <2>1. RowCounts \in [succeeded : Nat, failed : Nat]
    BY RowNumbers DEF RowCounts
  <2> DEFINE t == [sync[i] EXCEPT !.pc = "progress", !.counts = RowCounts]
  <2>2. t \in Locals
    BY <2>1 DEF Locals, Fields, Steps
  <2>3. sync' = [sync EXCEPT ![i] = t]
    BY <1>2 DEF Count, RowCounts, Typed
  <2> HIDE DEF t
  <2>4. sync' \in [Instance -> Locals]
    BY <2>2, <2>3, OneSync
  <2> QED BY <1>2, <2>4 DEF Count, Typed, engineVars, counterVars, history
<1>3. CASE Finish(i)
  <2>1. sync' \in [Instance -> Locals]
    BY <1>3, IdleLocal, OneSync DEF Finish
  <2>2. status' \in {"running"} \cup Ended
    <3>1. sync[i].outcome \in Ended
      BY <1>3 DEF Locals, Fields, Finish
    <3> QED BY <1>3, <3>1 DEF Finish, Typed, Ended
  <2> QED BY <1>3, <2>1, <2>2 DEF Finish, Typed, engineVars, counterVars, history
<1>4. CASE Release(i)
  <2>1. sync' \in [Instance -> Locals]
    BY <1>4, IdleLocal, OneSync DEF Release
  <2> QED BY <1>4, <2>1 DEF Release, Typed, engineVars, counterVars, history
<1> QED BY <1>1, <1>2, <1>3, <1>4

\* Both updateProgress calls: the figures stay numbers.
LEMMA ProgressTyped ==
  ASSUME Typed, NEW i \in Instance, Progress(i) \/ FinalProgress(i)
  PROVE  Typed'
<1> DEFINE s == sync[i]
           n == s.counts.succeeded + s.counts.failed
<1>1. n \in Nat
  BY LocalsOf
<1>2. CASE Progress(i)
  <2>1. Record(Max({s.snap.discovered, n}), Max({s.snap.processed, n}), s.counts, s.skip)
    BY <1>2 DEF Progress
  <2> HIDE DEF n
  <2>2. Max({s.snap.discovered, n}) \in Nat /\ Max({s.snap.processed, n}) \in Nat
    BY <1>1, LocalsOf, MaxOfTwo
  <2>3. /\ cursor' \in Nat /\ discovered' \in Nat /\ processed' \in Nat
        /\ succeeded' \in Nat /\ failed' \in Nat
    BY <2>1, <2>2, LocalsOf, Recording
  <2>4. s.snap.status # "running" => DrainFrom(s, s.snap.status, 0) \in Locals
    <3>1. s.snap.status \in EngineStatus
      BY LocalsOf DEF Locals, Fields
    <3> QED BY <3>1, LocalsOf, Jumps DEF EngineStatus, Ended
  <2>5. sync' \in [Instance -> Locals]
    BY <1>2, <2>4, Jumps, OneSync DEF Progress
  <2> QED BY <1>2, <2>3, <2>5 DEF Progress, Typed, engineVars, history
<1>3. CASE FinalProgress(i)
  <2>1. Record(Max({s.seen.discovered, s.snap.discovered, n}), n, s.counts, s.seen.cursor)
    BY <1>3 DEF FinalProgress
  <2> HIDE DEF n
  <2>2. Max({s.seen.discovered, s.snap.discovered, n}) \in Nat
    BY <1>1, LocalsOf, MaxOfThree
  <2>3. /\ cursor' \in Nat /\ discovered' \in Nat /\ processed' \in Nat
        /\ succeeded' \in Nat /\ failed' \in Nat
    BY <1>1, <2>1, <2>2, LocalsOf, Recording
  <2>4. sync' \in [Instance -> Locals]
    BY <1>3, LocalsOf, Jumps, OneSync DEF FinalProgress
  <2> QED BY <1>3, <2>3, <2>4 DEF FinalProgress, Typed, engineVars, history
<1> QED BY <1>2, <1>3

\* Every way a process gives up leads to one of these places.
LEMMA GivesUp ==
  ASSUME Typed, NEW i \in Instance, EngineDown(i) \/ Throws(i)
  PROVE  \/ /\ sync' = [sync EXCEPT ![i] = [Idle EXCEPT !.pc = "release"]] /\ UNCHANGED warned
            /\ sync[i].pc # "idle"
         \/ /\ sync' = [sync EXCEPT ![i] = [Idle EXCEPT !.pc = "finish", !.outcome = "failed"]]
            /\ UNCHANGED warned /\ sync[i].pc # "idle"
         \/ /\ sync' = [sync EXCEPT ![i] = Counting(sync[i])] /\ warned'
            /\ sync[i].pc # "idle" /\ sync[i].outcome # "none"
<1>0. GiveUp(i) => sync' = [sync EXCEPT ![i] = Counting(sync[i])] /\ warned'
  BY DEF GiveUp, Counting
<1>1. CASE EngineDown(i)
  BY <1>0, <1>1 DEF EngineDown
<1>2. CASE Throws(i)
  BY <1>0, <1>2 DEF Throws
<1> QED BY <1>1, <1>2

LEMMA FaultTyped == ASSUME Typed, NEW i \in Instance, EngineDown(i) \/ Throws(i) PROVE Typed'
<1>1. sync' \in [Instance -> Locals] /\ warned' \in BOOLEAN
  BY GivesUp, LocalsOf, Jumps, OneSync DEF Typed
<1> QED BY <1>1 DEF EngineDown, Throws, Typed, engineVars, counterVars

LEMMA NextTyped == Typed /\ [Next]_vars => Typed'
<1> SUFFICES ASSUME Typed, [Next]_vars PROVE Typed'
  OBVIOUS
<1>1. CASE UNCHANGED vars
  BY <1>1 DEF vars, engineVars, counterVars, history, Typed
<1>2. CASE Next
  BY <1>2, EngineTyped, TickTyped, RequestTyped, PullTyped, CountTyped, ProgressTyped, FaultTyped DEF Next
<1> QED BY <1>1, <1>2

\* The variables of the model have their types: the row's status and figures,
\* the engine's list, the locals of every syncCrawl.
THEOREM TypeCorrect == Spec => []Typed
BY InitTyped, NextTyped, PTL DEF Spec

-----------------------------------------------------------------------------
(* What a client reads: the job's view advances as JobView says.           *)

\* A row is written once, with its verdict, and never removed.
RowsKept == \A p \in Page : rows[p] # "none" => rows'[p] = rows[p]

LEMMA MoreRows ==
  ASSUME Typed, Typed', RowsKept
  PROVE  Cardinality(Page \ RowsWith("none"))' >= Cardinality(Page \ RowsWith("none"))
<1> DEFINE before == Page \ RowsWith("none")
           after == Page \ RowsWith("none")'
<1>1. before \subseteq after
  BY DEF RowsKept, RowsWith, Typed
<1>2. IsFiniteSet(after)
  BY ConstantsAssumption, FS_Subset
<1> QED BY <1>1, <1>2, FS_Subset, FS_CardinalityType

\* What one step has to show of the row's status, its figures and the results.
LEMMA ViewStep ==
  ASSUME Typed, Typed', RowsKept, Follows(status, status'),
         status # "running" => UNCHANGED <<discovered, processed, failed>>
  PROVE  Advances(View, View')
<1>1. status # "queued"
  BY DEF Typed, Ended
<1> QED BY <1>1, MoreRows DEF View, Advances

\* Who changes the status, and to what: `finish` is conditional on a running row.
LEMMA StatusFollows ==
  ASSUME Typed, [Next]_vars
  PROVE  Follows(status, status')
<1>1. CASE Discover \/ EngineEnds \/ LeaseExpires \/ \E p \in Page : CrawlPage(p)
  BY <1>1 DEF Discover, EngineEnds, LeaseExpires, CrawlPage, Follows
<1>2. CASE Cancel
  BY <1>2 DEF Cancel, Follows, Ended
<1>3. ASSUME NEW i \in Instance, Finish(i) PROVE Follows(status, status')
  <2>1. sync[i].outcome \in Ended
    BY <1>3, LocalsOf DEF Locals, Fields, Finish
  <2> QED BY <1>3, <2>1 DEF Finish, Follows, Ended
<1>4. ASSUME NEW i \in Instance,
             \/ Tick(i) \/ Request(i) \/ RequestGone(i) \/ Persist(i) \/ PullNext(i) \/ Failures(i)
             \/ Count(i) \/ Progress(i) \/ FinalProgress(i) \/ Release(i) \/ EngineDown(i) \/ Throws(i)
      PROVE  Follows(status, status')
  BY <1>4 DEF Tick, Request, RequestGone, Persist, PullNext, Failures, Count, Progress, FinalProgress,
              Release, EngineDown, Throws, Follows
<1>5. CASE UNCHANGED vars
  BY <1>5 DEF vars, Follows
<1> QED BY <1>1, <1>2, <1>3, <1>4, <1>5 DEF Next

\* Only updateProgress writes the figures, and only while the job runs.
LEMMA FiguresRest ==
  ASSUME [Next]_vars, status # "running"
  PROVE  UNCHANGED <<discovered, processed, failed>>
<1>1. CASE \/ Discover \/ EngineEnds \/ LeaseExpires \/ Cancel \/ \E p \in Page : CrawlPage(p)
           \/ UNCHANGED vars
  BY <1>1 DEF Discover, EngineEnds, LeaseExpires, Cancel, CrawlPage, vars, counterVars
<1>2. ASSUME NEW i \in Instance,
             \/ Tick(i) \/ Request(i) \/ RequestGone(i) \/ Persist(i) \/ PullNext(i) \/ Failures(i)
             \/ Count(i) \/ Finish(i) \/ Release(i) \/ EngineDown(i) \/ Throws(i)
      PROVE  UNCHANGED <<discovered, processed, failed>>
  BY <1>2 DEF Tick, Request, RequestGone, Persist, PullNext, Failures, Count, Finish, Release,
              EngineDown, Throws, counterVars
<1>3. ASSUME NEW i \in Instance, Progress(i) \/ FinalProgress(i)
      PROVE  UNCHANGED <<discovered, processed, failed>>
  BY <1>3 DEF Progress, FinalProgress, Record, counterVars
<1> QED BY <1>1, <1>2, <1>3 DEF Next

\* A page is persisted once: a URL with a row keeps it.
LEMMA NextKeepsRows == ASSUME Typed, [Next]_vars PROVE RowsKept
<1>1. CASE \/ Discover \/ EngineEnds \/ LeaseExpires \/ Cancel \/ \E p \in Page : CrawlPage(p)
           \/ UNCHANGED vars
  BY <1>1 DEF Discover, EngineEnds, LeaseExpires, Cancel, CrawlPage, vars, RowsKept
<1>2. ASSUME NEW i \in Instance,
             \/ Tick(i) \/ Request(i) \/ RequestGone(i) \/ PullNext(i) \/ Count(i) \/ Progress(i)
             \/ FinalProgress(i) \/ Finish(i) \/ Release(i) \/ EngineDown(i) \/ Throws(i)
      PROVE  RowsKept
  BY <1>2 DEF Tick, Request, RequestGone, PullNext, Count, Progress, FinalProgress, Finish, Release,
              EngineDown, Throws, RowsKept
<1>3. ASSUME NEW i \in Instance, Persist(i) PROVE RowsKept
  BY <1>3 DEF Persist, Typed, RowsKept
<1>4. ASSUME NEW i \in Instance, Failures(i) PROVE RowsKept
  BY <1>4 DEF Failures, Typed, RowsKept
<1> QED BY <1>1, <1>2, <1>3, <1>4 DEF Next

\* A client that reads the job again and again sees it go on as JobView
\* promises, and that is all the dashboard relies on: the status follows its
\* course, no result disappears, and once the job is over, cancelled in the middle
\* of a sync or ended by another process, no sync changes its figures any more.
THEOREM ViewKept == Spec => ViewAdvances
<1>1. Typed /\ [Next]_vars => [Advances(View, View')]_vars
  <2> SUFFICES ASSUME Typed, [Next]_vars PROVE Advances(View, View')
    OBVIOUS
  <2>1. Typed'
    BY NextTyped
  <2> QED BY <2>1, StatusFollows, FiguresRest, NextKeepsRows, ViewStep
<1> QED BY <1>1, TypeCorrect, PTL DEF Spec, ViewAdvances

-----------------------------------------------------------------------------
(* The counters: who counts is alone with the rows until the job is over.  *)

LEMMA InitCounts == Init => Alone /\ Counted /\ CountersMatchRows
BY DEF Init, Idle, Alone, Counted, CountersMatchRows

\* A step of the engine, a lease or a user.
LEMMA CountsLeftAlone ==
  ASSUME CountInv, UNCHANGED <<rows, sync, counterVars, overlapped>>, status' \in {status, "cancelled"}
  PROVE  Alone' /\ Counted' /\ CountersMatchRows'
<1>1. RowCounts' = RowCounts /\ Recorded' = Recorded
  BY DEF RowCounts, Recorded, RowsWith, counterVars
<1>2. CountersMatchRows = (status = "completed" /\ ~overlapped => Recorded)
  BY DEF CountersMatchRows, Recorded
<1>3. CountersMatchRows' = (status' = "completed" /\ ~overlapped' => Recorded')
  BY DEF CountersMatchRows, Recorded
<1>4. status' # "completed" \/ status' = status
  OBVIOUS
<1>5. Alone'
  BY <1>4 DEF CountInv, Alone
<1>6. Counted'
  BY <1>1 DEF CountInv, Counted
<1>7. CountersMatchRows'
  BY <1>1, <1>2, <1>3, <1>4 DEF CountInv
<1> QED BY <1>5, <1>6, <1>7

\* A step of the one process at work: it is enough that it counts right.
LEMMA CountsOfOne ==
  ASSUME CountInv, NEW i \in Instance, sync[i].pc # "idle", UNCHANGED overlapped,
         NEW s, sync' = [sync EXCEPT ![i] = s], UNCHANGED status,
         ~overlapped => (s.pc = "progress" => s.counts = RowCounts'),
         ~overlapped => (s.pc = "finish" /\ s.outcome = "completed" /\ status = "running" => Recorded')
  PROVE  Alone' /\ Counted' /\ CountersMatchRows'
<1> SUFFICES ASSUME ~overlapped PROVE Alone' /\ Counted' /\ CountersMatchRows'
  BY DEF Alone, Counted, CountersMatchRows
<1>1. \A k \in Instance : k # i => sync[k].pc = "idle" /\ sync'[k] = sync[k]
  BY DEF CountInv, Alone, Typed
<1>2. sync'[i] = s /\ status # "completed"
  BY DEF CountInv, Alone, Typed
<1>3. Alone'
  BY <1>1, <1>2 DEF Alone
<1>4. Counted'
  BY <1>1, <1>2 DEF Counted
<1> QED BY <1>2, <1>3, <1>4 DEF CountersMatchRows

\* Where the pulling goes on.
Settling(s) == [s EXCEPT !.pc = "count", !.more = FALSE, !.round = 0]
Ending(s) == [s EXCEPT !.pc = "failures", !.more = FALSE, !.round = 0, !.skip = 0,
                       !.snap = [Idle.snap EXCEPT !.discovered = s.snap.discovered]]
Again(s) == [s EXCEPT !.pc = "request", !.round = @ + 1]

LEMMA PullsOn ==
  ASSUME Typed, NEW i \in Instance, PullNext(i)
  PROVE  \/ /\ sync[i].more /\ sync[i].round < Rounds
            /\ sync' = [sync EXCEPT ![i] = Again(sync[i])]
         \/ /\ ~sync[i].more \/ sync[i].round >= Rounds
            /\ \/ /\ sync[i].outcome = "none"
                  /\ sync' = [sync EXCEPT ![i] = Settling(sync[i])]
               \/ /\ sync[i].outcome # "none"
                  /\ sync' = [sync EXCEPT ![i] = Ending(sync[i])]
            /\ short' = (short \/ CutShort(sync[i]))
BY DEF PullNext, Again, Settling, Ending, Typed

LEMMA PulledTo ==
  ASSUME NEW s \in Locals
  PROVE  Again(s).pc = "request" /\ Settling(s).pc = "count" /\ Ending(s).pc = "failures"
BY Elsewhere DEF Again, Settling, Ending, Fields

LEMMA NextCounts ==
  ASSUME CountInv, [Next]_vars
  PROVE  Alone' /\ Counted' /\ CountersMatchRows'
<1> USE DEF counterVars, engineVars, history
<1>1. CASE Discover \/ EngineEnds \/ LeaseExpires \/ Cancel \/ \E p \in Page : CrawlPage(p)
  <2>1. UNCHANGED <<rows, sync, counterVars, overlapped>> /\ status' \in {status, "cancelled"}
    BY <1>1 DEF Discover, EngineEnds, LeaseExpires, Cancel, CrawlPage
  <2> QED BY <2>1, CountsLeftAlone
<1>2. ASSUME NEW i \in Instance, Tick(i)
      PROVE  Alone' /\ Counted' /\ CountersMatchRows'
  <2> DEFINE s == sync'[i]
  <2>1. sync' = [sync EXCEPT ![i] = s] /\ s.pc = "request"
    BY <1>2 DEF Tick, Idle, CountInv, Typed
  <2>2. ~overlapped' => ~overlapped /\ \A k \in Instance : sync[k].pc = "idle"
    BY <1>2 DEF Tick
  <2>3. status' = "running"
    BY <1>2 DEF Tick
  <2>4. \A k \in Instance : sync'[k] = IF k = i THEN s ELSE sync[k]
    BY <2>1 DEF CountInv, Typed
  <2>5. Alone'
    BY <2>1, <2>2, <2>3, <2>4 DEF Alone
  <2>6. Counted'
    BY <2>1, <2>2, <2>4 DEF Counted
  <2> QED BY <2>3, <2>5, <2>6 DEF CountersMatchRows
<1>3. ASSUME NEW i \in Instance, Request(i) \/ RequestGone(i) \/ Persist(i) \/ PullNext(i) \/ Failures(i)
      PROVE  Alone' /\ Counted' /\ CountersMatchRows'
  <2>1. sync[i] \in Fields
    BY LocalsOf, Elsewhere DEF CountInv
  <2> DEFINE s == sync'[i]
  <2>2. sync' = [sync EXCEPT ![i] = s] /\ s.pc \notin {"progress", "finish"}
    <3>1. CASE Request(i)
      BY <2>1, <3>1 DEF Request, Fields, CountInv, Typed
    <3>2. CASE RequestGone(i)
      BY <2>1, <3>2 DEF RequestGone, Fields, CountInv, Typed
    <3>3. CASE Persist(i)
      BY <2>1, <3>3 DEF Persist, Fields, CountInv, Typed
    <3>4. CASE PullNext(i)
      BY LocalsOf, <3>4, PullsOn, PulledTo DEF CountInv, Typed
    <3>5. CASE Failures(i)
      BY <2>1, <3>5 DEF Failures, Fields, CountInv, Typed
    <3> QED BY <1>3, <3>1, <3>2, <3>3, <3>4, <3>5
  <2>3. sync[i].pc # "idle" /\ UNCHANGED <<status, overlapped>>
    BY <1>3 DEF Request, RequestGone, Persist, PullNext, Failures
  <2> QED BY <2>2, <2>3, CountsOfOne
<1>4. ASSUME NEW i \in Instance, Count(i)
      PROVE  Alone' /\ Counted' /\ CountersMatchRows'
  <2> DEFINE s == [sync[i] EXCEPT !.pc = "progress", !.counts = RowCounts]
  <2>1. sync' = [sync EXCEPT ![i] = s] /\ sync[i] \in Fields
    BY <1>4, LocalsOf, Elsewhere DEF Count, RowCounts, CountInv, Typed
  <2>2. s.pc = "progress" /\ s.counts = RowCounts /\ RowCounts' = RowCounts
    BY <1>4, <2>1 DEF Count, RowCounts, RowsWith, Fields
  <2>3. sync[i].pc # "idle" /\ UNCHANGED <<status, overlapped>>
    BY <1>4 DEF Count
  <2> HIDE DEF s
  <2> QED BY <2>1, <2>2, <2>3, CountsOfOne
<1>5. ASSUME NEW i \in Instance, Progress(i)
      PROVE  Alone' /\ Counted' /\ CountersMatchRows'
  <2>1. sync[i] \in Fields
    BY LocalsOf, Elsewhere DEF CountInv
  <2> DEFINE s == sync'[i]
  <2>2. sync' = [sync EXCEPT ![i] = s] /\ s.pc \in {"request", "release"}
    BY <1>5, <2>1 DEF Progress, DrainFrom, Idle, Fields, CountInv, Typed
  <2>3. sync[i].pc # "idle" /\ UNCHANGED <<status, overlapped>>
    BY <1>5 DEF Progress
  <2> QED BY <2>2, <2>3, CountsOfOne
<1>6. ASSUME NEW i \in Instance, FinalProgress(i)
      PROVE  Alone' /\ Counted' /\ CountersMatchRows'
  <2> DEFINE s == sync'[i]
  <2>1. sync' = [sync EXCEPT ![i] = s] /\ s.pc = "finish"
    BY <1>6 DEF FinalProgress, Idle, CountInv, Typed
  <2>2. sync[i].pc = "progress" /\ UNCHANGED <<status, overlapped, rows>>
    BY <1>6 DEF FinalProgress
  <2>3. ~overlapped => sync[i].counts = RowCounts
    BY <2>2 DEF CountInv, Counted
  <2>4. status = "running" => succeeded' = sync[i].counts.succeeded /\ failed' = sync[i].counts.failed
    BY <1>6 DEF FinalProgress, Record
  <2>5. ~overlapped => (status = "running" => Recorded')
    BY <2>2, <2>3, <2>4 DEF Recorded, RowCounts, RowsWith
  <2> QED BY <2>1, <2>2, <2>5, CountsOfOne
<1>7. ASSUME NEW i \in Instance, Finish(i)
      PROVE  Alone' /\ Counted' /\ CountersMatchRows'
  <2>1. UNCHANGED <<rows, counterVars, overlapped>> /\ sync[i].pc = "finish"
    BY <1>7 DEF Finish
  <2>2. \A k \in Instance : sync'[k] = IF k = i THEN Idle ELSE sync[k]
    BY <1>7 DEF Finish, CountInv, Typed
  <2>3. Idle.pc = "idle"
    BY DEF Idle
  <2>4. \A k \in Instance : sync'[k].pc # "idle" => k # i /\ sync'[k] = sync[k]
    BY <2>2, <2>3
  <2>5. RowCounts' = RowCounts /\ Recorded' = Recorded
    BY <2>1 DEF RowCounts, Recorded, RowsWith
  <2>6. ~overlapped => \A k \in Instance : sync'[k].pc = "idle"
    BY <2>1, <2>4 DEF CountInv, Alone
  <2>7. Alone' /\ Counted'
    BY <2>1, <2>6 DEF Alone, Counted
  <2>8. ~overlapped => (status' = "completed" => sync[i].outcome = "completed" /\ status = "running")
    <3>1. status = "completed" => overlapped
      BY <2>1 DEF CountInv, Alone
    <3> QED BY <1>7, <3>1 DEF Finish
  <2>9. CountersMatchRows'
    BY <2>1, <2>5, <2>8 DEF CountInv, Counted, CountersMatchRows, Recorded
  <2> QED BY <2>7, <2>9
<1>8. ASSUME NEW i \in Instance, Release(i)
      PROVE  Alone' /\ Counted' /\ CountersMatchRows'
  <2>1. sync' = [sync EXCEPT ![i] = Idle] /\ Idle.pc = "idle"
    BY <1>8 DEF Release, Idle
  <2>2. sync[i].pc # "idle" /\ UNCHANGED <<status, overlapped>>
    BY <1>8 DEF Release
  <2> QED BY <2>1, <2>2, CountsOfOne
<1>9. ASSUME NEW i \in Instance, EngineDown(i) \/ Throws(i)
      PROVE  Alone' /\ Counted' /\ CountersMatchRows'
  <2>1. sync[i] \in Fields /\ UNCHANGED <<status, overlapped>>
    BY <1>9, LocalsOf, Elsewhere DEF CountInv, EngineDown, Throws
  <2> DEFINE s == sync'[i]
  <2>2. /\ sync' = [sync EXCEPT ![i] = s] /\ s.pc # "progress"
        /\ s.pc = "finish" => s.outcome = "failed"
    <3>1. Counting(sync[i]).pc = "count"
      BY <2>1 DEF Counting, Fields
    <3>2. /\ [Idle EXCEPT !.pc = "release"].pc = "release"
          /\ [Idle EXCEPT !.pc = "finish", !.outcome = "failed"].outcome = "failed"
          /\ [Idle EXCEPT !.pc = "finish", !.outcome = "failed"].pc = "finish"
      BY DEF Idle
    <3>3. Typed
      BY DEF CountInv
    <3> QED BY <1>9, <3>1, <3>2, <3>3, GivesUp DEF Typed
  <2>3. sync[i].pc # "idle"
    BY <1>9, GivesUp DEF CountInv
  <2> QED BY <2>1, <2>2, <2>3, CountsOfOne
<1>10. CASE UNCHANGED vars
  BY <1>10, CountsLeftAlone DEF vars
<1> QED BY <1>1, <1>2, <1>3, <1>4, <1>5, <1>6, <1>7, <1>8, <1>9, <1>10 DEF Next

\* A completed crawl reports as many good and bad pages as it has rows, unless
\* syncs overlapped: what drainAndFinish counts is what it records and finishes with.
THEOREM CountersRight == Spec => []CountersMatchRows
<1>1. Init => CountInv
  BY InitTyped, InitCounts DEF CountInv
<1>2. CountInv /\ [Next]_vars => CountInv'
  <2> SUFFICES ASSUME CountInv, [Next]_vars PROVE CountInv'
    OBVIOUS
  <2>1. Typed
    BY DEF CountInv
  <2> QED BY <2>1, NextTyped, NextCounts DEF CountInv
<1>3. CountInv => CountersMatchRows
  BY DEF CountInv
<1> QED BY <1>1, <1>2, <1>3, PTL DEF Spec

-----------------------------------------------------------------------------
(* The pages: what a step leaves as it was.                                *)

LEMMA PageNumbers ==
  /\ Cardinality(Page) \in Nat /\ IsFiniteSet(PagesWith("pending"))
  /\ Cardinality(PagesWith("pending")) \in Nat
  /\ Cardinality(PagesWith("pending")) <= Cardinality(Page)
BY ConstantsAssumption, FS_Subset, FS_CardinalityType DEF PagesWith

LEMMA InitPages == Init => Listed /\ Rows /\ Complete /\ \A i \in Instance : Fine(sync[i])
<1> SUFFICES ASSUME Init PROVE Listed /\ Rows /\ Complete /\ \A i \in Instance : Fine(sync[i])
  OBVIOUS
<1>1. PagesWith("pending") = Page
  BY DEF Init, PagesWith
<1>2. Listed
  BY <1>1, PageNumbers DEF Init, Listed, Delivered, Crawled
<1>3. \A i \in Instance : Fine(sync[i])
  BY DEF Init, Idle, Fine
<1> QED BY <1>2, <1>3 DEF Init, Rows, Complete, Done

\* The crawl stands still or ends, the rows only become more.
Steady ==
  /\ UNCHANGED <<fate, docs>>
  /\ (warned => warned') /\ (short => short')
  /\ engine' = engine \/ engine = "running" \/ engine' = "gone"
  /\ \A p \in Page : rows[p] # "none" => rows'[p] # "none"

LEMMA StoredStays ==
  ASSUME Typed, Steady
  PROVE  /\ Over => Over'
         /\ AllStored => AllStored'
BY DEF Typed, Steady, Over, AllStored

LEMMA FineStays == ASSUME Typed, Steady, NEW s \in Locals, Fine(s) PROVE Fine(s)'
<1>1. ASSUME Covers(s, s.skip), s.skip <= Len(docs) PROVE Covers(s, s.skip)'
  <2>1. s.skip \in Nat /\ \A k \in 1..s.skip : docs[k] \in Page
    BY <1>1, Elsewhere DEF Typed, Fields
  <2> QED BY <1>1, <2>1 DEF Covers, Steady
<1>2. ASSUME Drained(s), s.skip <= Len(docs) PROVE Drained(s)'
  BY <1>1, <1>2, StoredStays DEF Drained, Steady
<1> QED BY <1>2, StoredStays DEF Fine, Steady

LEMMA FineOf ==
  ASSUME NEW i \in Instance, NEW s, sync'[i] = s, Fine(s)'
  PROVE  Fine(sync[i])'
BY DEF Fine, Drained, Covers

LEMMA GlobalStays ==
  ASSUME PageInv, Steady, total' \in Nat, total' >= total, cursor' <= Len(docs),
         status' = "completed" => status = "completed" \/ Done
  PROVE  Listed' /\ Complete'
<1>1. Listed'
  <2>1. Crawled' = Crawled /\ Crawled \in Int
    BY PageNumbers DEF Steady, Crawled, PagesWith
  <2> QED BY <2>1 DEF PageInv, Typed, Listed, Steady
<1>2. Complete'
  BY StoredStays DEF PageInv, Complete, Done, Steady
<1> QED BY <1>1, <1>2

\* A step of one process, and what it has to show.
LEMMA PagesOfOne ==
  ASSUME PageInv, Steady, UNCHANGED total, cursor' <= Len(docs),
         status' = "completed" => status = "completed" \/ Done,
         NEW i \in Instance, NEW s, sync' = [sync EXCEPT ![i] = s], Fine(s)'
  PROVE  Listed' /\ Complete' /\ \A k \in Instance : Fine(sync[k])'
<1>1. Listed' /\ Complete'
  BY GlobalStays DEF PageInv, Typed
<1>2. ASSUME NEW k \in Instance PROVE Fine(sync[k])'
  <2>1. CASE k = i
    BY <2>1, FineOf DEF PageInv, Typed
  <2>2. CASE k # i
    <3>1. sync[k] \in Locals /\ Fine(sync[k]) /\ sync'[k] = sync[k]
      BY <2>2 DEF PageInv, Typed
    <3>2. PICK t \in Locals : t = sync[k]
      BY <3>1
    <3>3. Fine(t)'
      BY <3>1, <3>2, FineStays DEF PageInv
    <3> QED BY <3>1, <3>2, <3>3, FineOf
  <2> QED BY <2>1, <2>2
<1> QED BY <1>1, <1>2

LEMMA EnginePages ==
  ASSUME PageInv, Discover \/ EngineEnds \/ LeaseExpires \/ Cancel \/ UNCHANGED vars
  PROVE  Listed' /\ Rows' /\ Complete' /\ \A i \in Instance : Fine(sync[i])'
<1>1. /\ Steady /\ UNCHANGED <<fate, rows, sync, cursor>> /\ total' \in {total, total + 1}
      /\ status' = "completed" => status = "completed"
  BY DEF Discover, EngineEnds, LeaseExpires, Cancel, vars, Steady, counterVars, engineVars, history
<1>2. Listed' /\ Complete'
  <2>1. total' \in Nat /\ total' >= total
    BY <1>1 DEF PageInv, Typed
  <2>2. cursor' <= Len(docs)
    BY <1>1 DEF PageInv, Listed
  <2> QED BY <1>1, <2>1, <2>2, GlobalStays
<1>3. Rows'
  BY <1>1 DEF PageInv, Rows
<1>4. ASSUME NEW i \in Instance PROVE Fine(sync[i])'
  <2>1. PICK s \in Locals : s = sync[i] /\ Fine(s) /\ sync'[i] = s
    BY <1>1 DEF PageInv, Typed
  <2>2. Fine(s)'
    BY <1>1, <2>1, FineStays DEF PageInv
  <2> QED BY <2>1, <2>2, FineOf
<1> QED BY <1>2, <1>3, <1>4

\* A page is crawled: nothing that is listed or stored is touched, and no sync
\* believes that a crawl which goes on is over.
LEMMA CrawlPagePages ==
  ASSUME PageInv, NEW p \in Page, CrawlPage(p)
  PROVE  Listed' /\ Rows' /\ Complete' /\ \A i \in Instance : Fine(sync[i])'
<1>1. /\ engine = "running" /\ fate[p] = "pending" /\ Crawled < total
      /\ UNCHANGED <<total, engine, status, cursor, rows, sync, warned, short>>
  BY DEF CrawlPage, Crawled, counterVars, history
<1>2. PICK f \in {"good", "bad", "error"} : fate' = [fate EXCEPT ![p] = f]
  BY DEF CrawlPage
<1>3. Crawled' = Crawled + 1
  <2>1. PagesWith("pending")' = PagesWith("pending") \ {p} /\ p \in PagesWith("pending")
    BY <1>1, <1>2 DEF PagesWith, PageInv, Typed
  <2>2. Cardinality(PagesWith("pending")') = Cardinality(PagesWith("pending")) - 1
    BY <2>1, PageNumbers, FS_RemoveElement
  <2> QED BY <2>2, PageNumbers DEF Crawled
<1>4. \A q \in Page : q # p => fate'[q] = fate[q]
  BY <1>2 DEF PageInv, Typed
<1>5. fate'[p] = f
  BY <1>2 DEF PageInv, Typed
<1>6. Rows'
  BY <1>1, <1>4 DEF PageInv, Rows, Typed
<1>7. /\ Len(docs') \in Nat /\ Len(docs) <= Len(docs') /\ Len(docs') <= Len(docs) + 1
      /\ \A n \in 1..Len(docs') : (docs'[n] = p /\ f \in Delivered) \/ \E k \in 1..Len(docs) : docs'[n] = docs[k]
      /\ \A k \in 1..Len(docs) : \E n \in 1..Len(docs') : docs'[n] = docs[k]
      /\ f \in Delivered => \E n \in 1..Len(docs') : docs'[n] = p
  <2>1. CASE UNCHANGED docs /\ f = "error"
    BY <2>1 DEF PageInv, Typed, Delivered
  <2>2. CASE f \in Delivered /\ \E k \in 1..Len(docs) + 1 : docs' = InsertAt(docs, k, p)
    <3>1. PICK k \in 1..Len(docs) + 1 : docs' = InsertAt(docs, k, p)
      BY <2>2
    <3>2. /\ Len(docs') = Len(docs) + 1 /\ Len(docs) \in Nat
          /\ \A n \in 1..Len(docs) + 1 :
               docs'[n] = IF n < k THEN docs[n] ELSE IF n = k THEN p ELSE docs[n - 1]
      BY <3>1, Inserted DEF PageInv, Typed
    <3>3. ASSUME NEW n \in 1..Len(docs) + 1
          PROVE  docs'[n] = p \/ \E j \in 1..Len(docs) : docs'[n] = docs[j]
      <4>1. CASE n < k
        BY <3>2, <4>1
      <4>2. CASE n = k
        BY <3>2, <4>2
      <4>3. CASE n > k
        <5>1. n - 1 \in 1..Len(docs) /\ docs'[n] = docs[n - 1]
          BY <3>2, <4>3
        <5> QED BY <5>1
      <4> QED BY <4>1, <4>2, <4>3
    <3>4. ASSUME NEW j \in 1..Len(docs)
          PROVE  \E n \in 1..Len(docs) + 1 : docs'[n] = docs[j]
      <4>1. CASE j < k
        BY <3>2, <4>1
      <4>2. CASE j >= k
        <5>1. j + 1 \in 1..Len(docs) + 1 /\ docs'[j + 1] = docs[j]
          BY <3>2, <4>2
        <5> QED BY <5>1
      <4> QED BY <4>1, <4>2
    <3>5. docs'[k] = p
      BY <3>2
    <3> QED BY <2>2, <3>2, <3>3, <3>4, <3>5
  <2>3. fate'[p] = f /\ "good" # "error" /\ "bad" # "error"
    BY <1>5
  <2> QED BY <2>1, <2>2, <2>3 DEF CrawlPage, Delivered, PageInv, Typed
<1>8. \A k \in 1..Len(docs) : docs[k] \in Page /\ docs[k] # p
  BY <1>1 DEF PageInv, Typed, Listed, Delivered
<1>9. Listed'
  <2>1. ASSUME NEW n \in 1..Len(docs') PROVE fate'[docs'[n]] \in Delivered
    <3>1. CASE docs'[n] = p /\ f \in Delivered
      BY <1>5, <3>1
    <3>2. ASSUME NEW k \in 1..Len(docs), docs'[n] = docs[k] PROVE fate'[docs'[n]] \in Delivered
      BY <1>4, <1>8, <3>2 DEF PageInv, Listed
    <3> QED BY <1>7, <3>1, <3>2
  <2>2. ASSUME NEW q \in Page, fate'[q] \in Delivered
        PROVE  \E n \in 1..Len(docs') : docs'[n] = q
    <3>1. CASE q = p
      BY <1>5, <1>7, <2>2, <3>1
    <3>2. CASE q # p
      <4>1. PICK k \in 1..Len(docs) : docs[k] = q
        BY <1>4, <2>2, <3>2 DEF PageInv, Listed
      <4> QED BY <1>7, <4>1
    <3> QED BY <3>1, <3>2
  <2>3. Len(docs') <= Crawled' /\ Crawled' <= total' /\ cursor' <= Len(docs')
    BY <1>1, <1>3, <1>7, PageNumbers DEF PageInv, Listed, Typed, Crawled
  <2> QED BY <2>1, <2>2, <2>3 DEF Listed
<1>10. ASSUME NEW i \in Instance PROVE Fine(sync[i])'
  <2>1. PICK s \in Locals : s = sync[i] /\ Fine(s) /\ sync'[i] = s
    BY <1>1 DEF PageInv, Typed
  <2>2. s.pages \in Seq(Page) /\ s.skip \in Nat /\ s.seen.cursor \in Nat
    BY Elsewhere DEF Fields
  <2>3. ASSUME NEW n \in 1..Len(s.pages) PROVE fate'[s.pages[n]] \in Delivered
    <3>1. s.pages[n] \in Page /\ fate[s.pages[n]] \in Delivered
      BY <2>1, <2>2 DEF Fine
    <3>2. s.pages[n] # p
      BY <1>1, <3>1 DEF Delivered
    <3> QED BY <1>4, <3>1, <3>2
  <2>4. s.skip <= Len(docs') /\ s.seen.cursor <= Len(docs')
    BY <1>7, <2>1, <2>2 DEF Fine, PageInv, Typed
  <2>5. ~Over /\ ~Over'
    BY <1>1 DEF Over
  <2>6. Fine(s)'
    BY <2>1, <2>3, <2>4, <2>5 DEF Fine
  <2> QED BY <2>1, <2>6, FineOf
<1>11. Complete'
  BY <1>1 DEF PageInv, Complete, Done, Over
<1> QED BY <1>6, <1>9, <1>10, <1>11

-----------------------------------------------------------------------------
(* The pages: a pull.                                                      *)

LEMMA OwnSync ==
  ASSUME PageInv, NEW i \in Instance
  PROVE  /\ sync[i] \in Locals /\ sync[i] \in Fields /\ Fine(sync[i])
         /\ Len(docs) \in Nat /\ docs \in Seq(Page) /\ cursor \in Nat /\ cursor <= Len(docs)
BY LocalsOf, Elsewhere DEF PageInv, Typed, Listed

\* The engine stands and so do the rows: it is enough that the new locals are fine.
LEMMA PagesOfReader ==
  ASSUME PageInv, UNCHANGED <<engineVars, status, cursor, rows, warned>>, short => short',
         NEW i \in Instance, NEW s \in Locals, sync' = [sync EXCEPT ![i] = s], Fine(s)
  PROVE  Listed' /\ Rows' /\ Complete' /\ \A k \in Instance : Fine(sync[k])'
<1>1. Steady
  BY DEF Steady, engineVars
<1>2. Fine(s)'
  BY <1>1, FineStays DEF PageInv
<1>3. cursor' <= Len(docs) /\ Rows'
  BY DEF PageInv, Listed, Rows, engineVars
<1> QED BY <1>1, <1>2, <1>3, PagesOfOne DEF engineVars

\* The locals after a status request.
LEMMA Requested ==
  ASSUME Typed, NEW i \in Instance, Request(i)
  PROVE  \E t :
    /\ sync' = [sync EXCEPT ![i] = t]
    /\ LET s == sync[i]
           more == Batch(s.skip) # <<>> /\ s.skip + Len(Batch(s.skip)) < total
           on == more /\ s.requests + 1 < PerCall
       IN  /\ t.pages = s.pages \o Batch(s.skip) /\ t.skip = s.skip + Len(Batch(s.skip))
           /\ t.more = more /\ t.snap.status = engine
           /\ t.snap.discovered = total /\ t.snap.processed = Len(docs) /\ t.counts = s.counts
           /\ t.seen = s.seen /\ t.outcome = s.outcome
           /\ t.pc = IF on THEN "request" ELSE "persist"
<1> DEFINE s == sync[i]
           batch == Batch(s.skip)
           more == batch # <<>> /\ s.skip + Len(batch) < total
           told == [status |-> engine, discovered |-> total, processed |-> Len(docs)]
           t == [s EXCEPT !.pages = @ \o batch, !.skip = @ + Len(batch), !.more = more, !.snap = told,
                    !.requests = IF more /\ @ + 1 < PerCall THEN @ + 1 ELSE 0,
                    !.pc = IF more /\ s.requests + 1 < PerCall THEN "request" ELSE "persist"]
<1>1. sync' = [sync EXCEPT ![i] = t]
  BY DEF Request, Batch, Upto
<1>2. s \in Fields
  BY LocalsOf, Elsewhere
<1>3. told.status = engine /\ told.discovered = total /\ told.processed = Len(docs)
  OBVIOUS
<1> HIDE DEF batch, told
<1>4. /\ t.pages = s.pages \o batch /\ t.skip = s.skip + Len(batch)
      /\ t.more = more /\ t.snap = told /\ t.counts = s.counts
      /\ t.seen = s.seen /\ t.outcome = s.outcome
      /\ t.pc = IF more /\ s.requests + 1 < PerCall THEN "request" ELSE "persist"
  BY <1>2 DEF Fields
<1> HIDE DEF t
<1> QED BY <1>1, <1>3, <1>4 DEF batch

LEMMA Joined ==
  ASSUME NEW a \in Seq(Page), NEW b \in Seq(Page)
  PROVE  /\ a \o b \in Seq(Page) /\ Len(a \o b) = Len(a) + Len(b)
         /\ \A n \in 1..Len(a) : (a \o b)[n] = a[n]
         /\ \A n \in 1..Len(b) : (a \o b)[Len(a) + n] = b[n]
<1>1. a \o b \in Seq(Page) /\ Len(a \o b) = Len(a) + Len(b)
  OBVIOUS
<1>2. \A n \in 1..Len(a) : (a \o b)[n] = a[n]
  OBVIOUS
<1>3. ASSUME NEW n \in 1..Len(b) PROVE (a \o b)[Len(a) + n] = b[n]
  OBVIOUS
<1> QED BY <1>1, <1>2, <1>3

LEMMA RequestPages ==
  ASSUME PageInv, Typed', NEW i \in Instance, Request(i)
  PROVE  Listed' /\ Rows' /\ Complete' /\ \A k \in Instance : Fine(sync[k])'
<1> DEFINE s == sync[i]
           batch == Batch(s.skip)
           more == batch # <<>> /\ s.skip + Len(batch) < total
           on == more /\ s.requests + 1 < PerCall
<1>1. PICK t :
        /\ sync' = [sync EXCEPT ![i] = t]
        /\ t.pages = s.pages \o batch /\ t.skip = s.skip + Len(batch)
        /\ t.more = more /\ t.snap.status = engine
        /\ t.seen = s.seen /\ t.outcome = s.outcome
        /\ t.pc = IF on THEN "request" ELSE "persist"
  BY Requested DEF PageInv
<1>2. t \in Locals
  <2>1. sync'[i] = t /\ sync'[i] \in Locals
    BY <1>1 DEF Typed, PageInv
  <2> QED BY <2>1
<1>3. /\ s.pages \in Seq(Page) /\ s.skip \in Nat
      /\ s.pc = "request" /\ Fine(s) /\ s.skip <= Len(docs) /\ docs \in Seq(Page) /\ Len(docs) \in Nat
      /\ total \in Nat /\ Len(docs) <= total /\ engine # "gone"
  <2>1. s \in Fields /\ Fine(s) /\ docs \in Seq(Page) /\ Len(docs) \in Nat
    BY OwnSync
  <2>2. s.pages \in Seq(Page) /\ s.skip \in Nat
    BY <2>1 DEF Fields
  <2>3. total \in Nat /\ Len(docs) <= total
    BY <2>1, PageNumbers DEF PageInv, Typed, Listed, Crawled
  <2>4. s.pc = "request" /\ engine # "gone"
    BY DEF Request
  <2>5. s.skip <= Len(docs)
    BY <2>1 DEF Fine
  <2> QED BY <2>1, <2>2, <2>3, <2>4, <2>5
<1>4. /\ batch \in Seq(Page) /\ Len(batch) = Upto(s.skip) - s.skip
      /\ \A n \in 1..Len(batch) : s.skip + n \in 1..Len(docs) /\ batch[n] = docs[s.skip + n]
  BY <1>3, BatchOf
<1>5. /\ t.skip \in Nat /\ t.skip <= Len(docs)
      /\ ~more => t.skip = Len(docs)
  <2>1. t.skip = Upto(s.skip)
    BY <1>1, <1>3, <1>4, ConstantsAssumption DEF Upto
  <2>2. batch = <<>> => Upto(s.skip) = s.skip
    BY <1>3, <1>4, ConstantsAssumption DEF Upto
  <2>3. t.skip = s.skip + Len(batch)
    BY <1>1
  <2> HIDE DEF batch
  <2> QED BY <1>3, <2>1, <2>2, <2>3, ConstantsAssumption DEF Upto
<1> HIDE DEF s, batch, more
<1>6. /\ t.pages \in Seq(Page) /\ Len(t.pages) = Len(s.pages) + Len(batch)
      /\ \A n \in 1..Len(s.pages) : t.pages[n] = s.pages[n]
      /\ \A n \in 1..Len(batch) : t.pages[Len(s.pages) + n] = batch[n]
      /\ \A n \in 1..Len(t.pages) : n \in 1..Len(s.pages) \/ \E j \in 1..Len(batch) : t.pages[n] = batch[j]
  <2>1. s.pages \o batch \in Seq(Page) /\ Len(s.pages \o batch) = Len(s.pages) + Len(batch)
    BY <1>3, <1>4, Joined
  <2>2. \A n \in 1..Len(s.pages) : (s.pages \o batch)[n] = s.pages[n]
    BY <1>3, <1>4, Joined
  <2>3. \A n \in 1..Len(batch) : (s.pages \o batch)[Len(s.pages) + n] = batch[n]
    BY <1>3, <1>4, Joined
  <2>4. t.pages = s.pages \o batch
    BY <1>1
  <2>5. ASSUME NEW n \in 1..Len(t.pages), n \notin 1..Len(s.pages)
        PROVE  \E j \in 1..Len(batch) : t.pages[n] = batch[j]
    <3>1. n - Len(s.pages) \in 1..Len(batch) /\ n = Len(s.pages) + (n - Len(s.pages))
      BY <1>3, <1>4, <2>1, <2>4, <2>5
    <3> QED BY <2>3, <2>4, <3>1
  <2> QED BY <2>1, <2>2, <2>3, <2>4, <2>5
<1>7. ASSUME NEW n \in 1..Len(t.pages) PROVE fate[t.pages[n]] \in Delivered
  <2>1. CASE n \in 1..Len(s.pages)
    BY <1>3, <1>6, <2>1 DEF Fine
  <2>2. ASSUME NEW j \in 1..Len(batch), t.pages[n] = batch[j] PROVE fate[t.pages[n]] \in Delivered
    BY <1>4, <2>2 DEF PageInv, Listed
  <2> QED BY <1>6, <2>1, <2>2
<1>8. ASSUME t.outcome = "completed", ~short, ~warned
      PROVE  Drained(t)
  <2>1. Drained(s)
    BY <1>1, <1>3, <1>8 DEF Fine
  <2>2. ASSUME NEW k \in 1..t.skip
        PROVE  rows[docs[k]] # "none" \/ \E m \in 1..Len(t.pages) : t.pages[m] = docs[k]
    <3>1. CASE k \in 1..s.skip
      <4>1. rows[docs[k]] # "none" \/ \E m \in 1..Len(s.pages) : s.pages[m] = docs[k]
        BY <1>3, <2>1, <3>1 DEF Drained, Covers
      <4>2. \A m \in 1..Len(s.pages) : m \in 1..Len(t.pages) /\ t.pages[m] = s.pages[m]
        BY <1>3, <1>4, <1>6
      <4> QED BY <4>1, <4>2
    <3>2. CASE k \notin 1..s.skip
      <4>1. k - s.skip \in 1..Len(batch) /\ s.skip + (k - s.skip) = k
        BY <1>1, <1>3, <1>4, <1>5, <3>2
      <4>2. PICK j \in 1..Len(batch) : s.skip + j = k
        BY <4>1
      <4>3. batch[j] = docs[k]
        BY <1>4, <4>2
      <4>4. Len(s.pages) + j \in 1..Len(t.pages)
        BY <1>3, <1>4, <1>6
      <4> QED BY <1>6, <4>3, <4>4
    <3> QED BY <3>1, <3>2
  <2>3. Covers(t, t.skip)
    BY <2>2 DEF Covers
  <2>4. t.pc \in {"request", "persist"} /\ (t.pc = "persist" /\ ~t.more => t.skip = Len(docs))
    BY <1>1, <1>5
  <2> QED BY <2>3, <2>4 DEF Drained
<1>9. Fine(t)
  <2>1. t.seen.cursor <= Len(docs)
    BY <1>1, <1>3 DEF Fine
  <2>2. t.snap.status = "completed" => Over
    BY <1>1 DEF Over
  <2>3. t.outcome = "completed" => Over
    BY <1>1, <1>3 DEF Fine
  <2>4. t.pc \in {"request", "persist"}
    BY <1>1
  <2> QED BY <1>5, <1>7, <1>8, <2>1, <2>2, <2>3, <2>4 DEF Fine
<1>10. UNCHANGED <<engineVars, status, cursor, rows, warned, short>> /\ sync' = [sync EXCEPT ![i] = t]
  BY <1>1 DEF Request, counterVars, history
<1> QED BY <1>2, <1>9, <1>10, PagesOfReader

LEMMA TickPages ==
  ASSUME PageInv, NEW i \in Instance, Tick(i)
  PROVE  Listed' /\ Rows' /\ Complete' /\ \A k \in Instance : Fine(sync[k])'
<1>1. PICK t :
      /\ sync' = [sync EXCEPT ![i] = t]
      /\ t.pc = "request" /\ t.outcome \in {"none", "failed"} /\ t.pages = <<>>
      /\ t.seen.cursor = cursor /\ t.skip \in {0, cursor}
  <2> DEFINE at == [cursor |-> cursor, discovered |-> discovered]
             pull == [Idle EXCEPT !.pc = "request", !.skip = cursor, !.seen = at]
             drain == [Idle EXCEPT !.pc = "request", !.outcome = "failed", !.seen = at]
  <2>1. sync' = [sync EXCEPT ![i] = pull] \/ sync' = [sync EXCEPT ![i] = drain]
    BY DEF Tick
  <2>2. at.cursor = cursor
    OBVIOUS
  <2> HIDE DEF at
  <2>3. /\ pull.pc = "request" /\ pull.outcome = "none" /\ pull.pages = <<>>
        /\ pull.seen = at /\ pull.skip = cursor
        /\ drain.pc = "request" /\ drain.outcome = "failed" /\ drain.pages = <<>>
        /\ drain.seen = at /\ drain.skip = 0
    BY DEF Idle
  <2> HIDE DEF pull, drain
  <2> QED BY <2>1, <2>2, <2>3
<1>2. /\ UNCHANGED <<fate, docs, total, status, cursor, rows, warned, short>>
      /\ engine' = engine \/ engine = "running"
  BY DEF Tick, counterVars
<1>3. Steady /\ Rows'
  BY <1>2 DEF Steady, PageInv, Rows
<1>4. Fine(t)'
  BY <1>1, <1>2, OwnSync DEF Fine
<1> QED BY <1>1, <1>2, <1>3, <1>4, OwnSync, PagesOfOne

LEMMA RequestGonePages ==
  ASSUME PageInv, Typed', NEW i \in Instance, RequestGone(i)
  PROVE  Listed' /\ Rows' /\ Complete' /\ \A k \in Instance : Fine(sync[k])'
<1> DEFINE s == sync[i]
<1>0. PICK told : told = [status |-> "failed", discovered |-> 0, processed |-> 0]
  OBVIOUS
<1>2. PICK t : t = [s EXCEPT !.pc = "persist", !.more = FALSE, !.requests = 0, !.snap = told]
  OBVIOUS
<1>1. /\ sync' = [sync EXCEPT ![i] = t] /\ UNCHANGED <<engineVars, status, cursor, rows, warned>>
      /\ engine = "gone" /\ s.pc = "request" /\ short' = (short \/ CutShort(s))
  BY <1>0, <1>2 DEF RequestGone, counterVars
<1>3. /\ t.pc = "persist" /\ t.outcome = s.outcome
      /\ t.pages = s.pages /\ t.skip = s.skip /\ t.seen = s.seen
  BY <1>2, OwnSync DEF Fields
<1>4. Steady /\ Rows'
  BY <1>1 DEF Steady, engineVars, PageInv, Rows
<1>5. s.skip \in Nat /\ s.skip <= Len(docs)
  BY OwnSync DEF Fields, Fine
<1>6. ASSUME s.outcome = "completed", ~short' PROVE s.skip = Len(docs) /\ ~short
  <2>1. ~CutShort(s) /\ ~short
    BY <1>1, <1>6, Zenon
  <2> QED BY <1>5, <1>6, <2>1, OwnSync DEF CutShort
<1>7. ASSUME Drained(s), s.skip = Len(docs) PROVE Drained(t)'
  <2>1. Covers(s, s.skip)
    BY <1>1, <1>7 DEF Drained
  <2>2. Covers(t, t.skip)'
    BY <1>1, <1>3, <2>1 DEF Covers, engineVars
  <2> QED BY <1>1, <1>3, <1>7, <2>2 DEF Drained, engineVars
<1>8. Fine(t)'
  BY <1>1, <1>3, <1>6, <1>7, OwnSync DEF Fine, Over, engineVars
<1>9. total' = total /\ cursor' <= Len(docs) /\ status' = status
  BY <1>1, OwnSync DEF engineVars
<1> QED BY <1>1, <1>4, <1>8, <1>9, PagesOfOne

LEMMA PersistPages ==
  ASSUME PageInv, NEW i \in Instance, Persist(i)
  PROVE  Listed' /\ Rows' /\ Complete' /\ \A k \in Instance : Fine(sync[k])'
<1> DEFINE s == sync[i]
           p == Head(s.pages)
<1>0. PICK t : t = [s EXCEPT !.pages = Tail(@)]
  OBVIOUS
<1>1. /\ sync' = [sync EXCEPT ![i] = t] /\ UNCHANGED <<engineVars, status, cursor, warned, short>>
      /\ s.pc = "persist" /\ s.pages # <<>>
      /\ rows' = [rows EXCEPT ![p] = IF @ # "none" THEN @ ELSE IF fate[p] = "good" THEN "good" ELSE "bad"]
  BY <1>0 DEF Persist, counterVars, history, PageInv, Typed
<1>2. s \in Fields /\ Fine(s) /\ s.pages \in Seq(Page) /\ s.skip \in Nat /\ s.skip <= Len(docs)
      /\ docs \in Seq(Page) /\ Len(docs) \in Nat
  <2>1. s \in Fields /\ Fine(s) /\ docs \in Seq(Page) /\ Len(docs) \in Nat
    BY OwnSync
  <2>2. s.pages \in Seq(Page) /\ s.skip \in Nat
    BY <2>1 DEF Fields
  <2>3. s.skip <= Len(docs)
    BY <2>1 DEF Fine
  <2> QED BY <2>1, <2>2, <2>3
<1>3. /\ t.pc = s.pc /\ t.snap = s.snap /\ t.outcome = s.outcome
      /\ t.pages = Tail(s.pages) /\ t.skip = s.skip /\ t.seen = s.seen /\ t.more = s.more
  BY <1>0, <1>2 DEF Fields
<1>4. /\ p \in Page /\ p = s.pages[1] /\ Tail(s.pages) \in Seq(Page) /\ Len(s.pages) \in Nat \ {0}
      /\ Len(Tail(s.pages)) = Len(s.pages) - 1
      /\ \A n \in 1..Len(s.pages) - 1 : Tail(s.pages)[n] = s.pages[n + 1]
  BY <1>1, <1>2
<1>5. fate[p] \in Delivered
  BY <1>2, <1>4 DEF Fine
<1> HIDE DEF s, p
<1>6. /\ \A q \in Page : q # p => rows'[q] = rows[q]
      /\ rows'[p] # "none" /\ (rows[p] # "none" => rows'[p] = rows[p])
      /\ rows[p] = "none" => rows'[p] = IF fate[p] = "good" THEN "good" ELSE "bad"
  BY <1>1, <1>4 DEF PageInv, Typed
<1>7. Rows' /\ Steady
  BY <1>1, <1>5, <1>6 DEF PageInv, Rows, Steady, engineVars, Delivered
<1>8. ASSUME NEW n \in 1..Len(t.pages) PROVE fate[t.pages[n]] \in Delivered
  <2>1. n + 1 \in 1..Len(s.pages) /\ t.pages[n] = s.pages[n + 1]
    BY <1>3, <1>4
  <2> QED BY <1>2, <2>1 DEF Fine
<1>9. ASSUME Drained(s) PROVE Drained(t)'
  <2>1. ASSUME NEW k \in 1..s.skip
        PROVE  rows'[docs[k]] # "none" \/ \E m \in 1..Len(t.pages) : t.pages[m] = docs[k]
    <3>1. docs[k] \in Page
      BY <1>2
    <3>2. CASE rows[docs[k]] # "none"
      BY <1>6, <3>1, <3>2
    <3>3. ASSUME NEW m \in 1..Len(s.pages), s.pages[m] = docs[k]
          PROVE  rows'[docs[k]] # "none" \/ \E j \in 1..Len(t.pages) : t.pages[j] = docs[k]
      <4>1. CASE m = 1
        BY <1>4, <1>6, <3>3, <4>1
      <4>2. CASE m # 1
        <5>1. m - 1 \in 1..Len(t.pages) /\ m - 1 \in 1..Len(s.pages) - 1 /\ (m - 1) + 1 = m
          BY <1>3, <1>4, <4>2
        <5>2. t.pages[m - 1] = s.pages[m]
          BY <1>3, <1>4, <5>1
        <5> QED BY <3>3, <5>1, <5>2
      <4> QED BY <4>1, <4>2
    <3> QED BY <1>1, <1>9, <3>2, <3>3 DEF Drained, Covers
  <2>2. Covers(t, t.skip)'
    BY <1>1, <1>3, <2>1 DEF Covers, engineVars
  <2> QED BY <1>1, <1>3, <1>9, <2>2 DEF Drained, engineVars
<1>10. Fine(t)'
  BY <1>1, <1>2, <1>3, <1>8, <1>9 DEF Fine, engineVars, Over
<1>11. total' = total /\ cursor' <= Len(docs) /\ status' = status
  BY <1>1 DEF engineVars, PageInv, Listed
<1> QED BY <1>1, <1>7, <1>10, <1>11, PagesOfOne

LEMMA PullNextPages ==
  ASSUME PageInv, Typed', NEW i \in Instance, PullNext(i)
  PROVE  Listed' /\ Rows' /\ Complete' /\ \A k \in Instance : Fine(sync[k])'
<1> DEFINE s == sync[i]
<1>1. /\ UNCHANGED <<engineVars, status, cursor, rows, warned>> /\ s.pc = "persist" /\ s.pages = <<>>
      /\ short => short'
  <2>1. short' = short \/ short' = (short \/ CutShort(s))
    BY DEF PullNext
  <2>2. short => short'
    BY <2>1, Zenon
  <2> QED BY <2>2 DEF PullNext, counterVars
<1>2. s \in Locals /\ s \in Fields /\ Fine(s) /\ s.skip \in Nat /\ s.skip <= Len(docs) /\ Len(docs) \in Nat
  BY OwnSync DEF Fields, Fine
<1>3. ASSUME s.more, sync' = [sync EXCEPT ![i] = Again(s)]
      PROVE  Fine(Again(s))
  <2>1. PICK t : t = Again(s)
    OBVIOUS
  <2>2. /\ t.pc = "request" /\ t.outcome = s.outcome
        /\ t.pages = s.pages /\ t.skip = s.skip /\ t.seen = s.seen
    BY <1>2, <2>1 DEF Again, Fields
  <2>3. ASSUME Drained(s) PROVE Drained(t)
    BY <1>1, <2>2, <2>3 DEF Drained, Covers
  <2>4. Fine(t)
    BY <1>1, <1>2, <2>2, <2>3 DEF Fine
  <2> QED BY <2>1, <2>4
<1>4. ASSUME s.outcome = "none", sync' = [sync EXCEPT ![i] = Settling(s)]
      PROVE  Fine(Settling(s))
  <2>1. PICK t : t = Settling(s)
    OBVIOUS
  <2>2. /\ t.pc = "count" /\ t.outcome = s.outcome /\ t.snap = s.snap
        /\ t.pages = s.pages /\ t.skip = s.skip /\ t.seen = s.seen
    BY <1>2, <2>1 DEF Settling, Fields
  <2>3. Fine(t)
    BY <1>1, <1>2, <1>4, <2>2 DEF Fine
  <2> QED BY <2>1, <2>3
<1>5. CASE s.outcome # "none" /\ sync' = [sync EXCEPT ![i] = Ending(s)] /\ short' = (short \/ CutShort(s))
  <2>1. PICK t : t = Ending(s)
    OBVIOUS
  <2>2. /\ t.pc = "failures" /\ t.outcome = s.outcome
        /\ t.pages = s.pages /\ t.skip = 0 /\ t.seen = s.seen
    BY <1>2, <2>1 DEF Ending, Fields
  <2>3. ASSUME Drained(s), s.outcome = "completed", ~short' PROVE Drained(t)'
    <3>0. ~CutShort(s)
      BY <1>5, <2>3, Zenon
    <3>1. s.skip = Len(docs)
      BY <1>2, <2>3, <3>0 DEF CutShort
    <3>2. AllStored
      BY <1>1, <1>2, <2>3, <3>1 DEF Drained, Covers, AllStored
    <3>3. AllStored'
      BY <1>1, <3>2 DEF AllStored, engineVars
    <3> QED BY <2>2, <3>3 DEF Drained
  <2>4. Fine(t)'
    BY <1>1, <1>2, <1>5, <2>2, <2>3 DEF Fine, Over, engineVars
  <2>5. Steady /\ Rows' /\ total' = total /\ cursor' <= Len(docs) /\ status' = status
    BY <1>1, OwnSync DEF Steady, engineVars, PageInv, Rows
  <2> QED BY <1>5, <2>1, <2>4, <2>5, PagesOfOne
<1>6. ASSUME NEW t, sync' = [sync EXCEPT ![i] = t], Fine(t)
      PROVE  Listed' /\ Rows' /\ Complete' /\ \A k \in Instance : Fine(sync[k])'
  <2>1. sync'[i] = t /\ sync'[i] \in Locals
    BY <1>6 DEF PageInv, Typed
  <2>2. t \in Locals
    BY <2>1
  <2> QED BY <1>1, <1>6, <2>2, PagesOfReader
<1> QED BY <1>3, <1>4, <1>5, <1>6, PullsOn DEF PageInv

-----------------------------------------------------------------------------
(* The pages: from the failures to the end.                                *)

LEMMA FailuresPages ==
  ASSUME PageInv, Typed', NEW i \in Instance, Failures(i)
  PROVE  Listed' /\ Rows' /\ Complete' /\ \A k \in Instance : Fine(sync[k])'
<1>1. PICK t : t = [sync[i] EXCEPT !.pc = "count"]
  OBVIOUS
<1>2. /\ sync' = [sync EXCEPT ![i] = t] /\ UNCHANGED <<engineVars, status, cursor, warned, short>>
      /\ sync[i].pc = "failures"
  BY <1>1 DEF Failures, counterVars, PageInv, Typed
<1>3. \A p \in Page : rows'[p] = rows[p] \/ (rows[p] = "none" /\ rows'[p] = "bad" /\ fate[p] = "error")
  BY DEF Failures, FailureList, PageInv, Typed
<1>4. /\ t.pc = "count" /\ t.outcome = sync[i].outcome
      /\ t.snap = sync[i].snap /\ t.pages = sync[i].pages /\ t.skip = sync[i].skip /\ t.seen = sync[i].seen
  BY <1>1, OwnSync DEF Fields
<1>5. Steady /\ Rows'
  BY <1>2, <1>3 DEF PageInv, Rows, Steady, engineVars
<1>6. t \in Locals
  <2>1. sync'[i] = t /\ sync'[i] \in Locals
    BY <1>2 DEF PageInv, Typed
  <2> QED BY <2>1
<1>7. Fine(t)
  BY <1>2, <1>4, OwnSync DEF Fine, Drained
<1>8. Fine(t)'
  BY <1>5, <1>6, <1>7, FineStays DEF PageInv
<1>9. total' = total /\ cursor' <= Len(docs) /\ status' = status
  BY <1>2 DEF engineVars, PageInv, Listed
<1> QED BY <1>2, <1>5, <1>8, <1>9, PagesOfOne

LEMMA CountPages ==
  ASSUME PageInv, Typed', NEW i \in Instance, Count(i) \/ Release(i)
  PROVE  Listed' /\ Rows' /\ Complete' /\ \A k \in Instance : Fine(sync[k])'
<1>1. UNCHANGED <<engineVars, status, cursor, rows, warned, short>>
  BY DEF Count, Release, counterVars, history
<1>2. CASE Count(i)
  <2>1. PICK t : t = [sync[i] EXCEPT !.pc = "progress", !.counts = RowCounts]
    OBVIOUS
  <2>2. sync' = [sync EXCEPT ![i] = t] /\ sync[i].pc = "count"
    BY <1>2, <2>1 DEF Count, RowCounts, PageInv, Typed
  <2>3. /\ t.pc = "progress" /\ t.outcome = sync[i].outcome
        /\ t.snap = sync[i].snap /\ t.pages = sync[i].pages /\ t.skip = sync[i].skip /\ t.seen = sync[i].seen
    BY <2>1, OwnSync DEF Fields
  <2>4. t \in Locals
    <3>1. sync'[i] = t /\ sync'[i] \in Locals
      BY <2>2 DEF PageInv, Typed
    <3> QED BY <3>1
  <2>5. Fine(t)
    BY <2>2, <2>3, OwnSync DEF Fine, Drained
  <2> QED BY <1>1, <2>2, <2>4, <2>5, PagesOfReader
<1>3. CASE Release(i)
  <2>1. sync' = [sync EXCEPT ![i] = Idle]
    BY <1>3 DEF Release
  <2>2. Fine(Idle)
    BY OwnSync DEF Fine, Idle
  <2> QED BY <1>1, <2>1, <2>2, IdleLocal, PagesOfReader
<1> QED BY <1>2, <1>3

LEMMA ProgressPages ==
  ASSUME PageInv, Typed', NEW i \in Instance, Progress(i)
  PROVE  Listed' /\ Rows' /\ Complete' /\ \A k \in Instance : Fine(sync[k])'
<1> DEFINE s == sync[i]
<1>1. s \in Fields /\ Fine(s) /\ s.skip \in Nat /\ s.skip <= Len(docs) /\ s.snap.status \in EngineStatus
  BY OwnSync DEF Fields, Fine
<1>2. /\ UNCHANGED <<fate, docs, total, engine, status, rows, warned, short>>
      /\ s.pc = "progress" /\ s.outcome = "none"
  BY DEF Progress, engineVars, history
<1>3. Steady /\ Rows'
  BY <1>2 DEF PageInv, Rows, Steady
<1>4. cursor' \in {cursor, s.skip}
  BY DEF Progress, Record, counterVars
<1>5. cursor' <= Len(docs)
  BY <1>1, <1>4, OwnSync
<1>6. CASE s.snap.status = "running"
  <2>1. PICK t : t = [Idle EXCEPT !.pc = "release"]
    OBVIOUS
  <2>2. sync' = [sync EXCEPT ![i] = t]
    BY <1>6, <2>1 DEF Progress
  <2>3. t.pc = "release" /\ t.outcome = "none" /\ t.pages = <<>> /\ t.skip = 0 /\ t.seen.cursor = 0
    BY <2>1 DEF Idle
  <2>4. Fine(t)'
    BY <1>2, <2>3, OwnSync DEF Fine
  <2> QED BY <1>2, <1>3, <1>5, <2>2, <2>4, PagesOfOne
<1>7. CASE s.snap.status # "running"
  <2>1. PICK t : t = DrainFrom(s, s.snap.status, 0)
    OBVIOUS
  <2>2. sync' = [sync EXCEPT ![i] = t]
    BY <1>7, <2>1 DEF Progress
  <2>3. /\ t.pc = "request" /\ t.outcome = s.snap.status /\ t.skip = 0
        /\ t.pages = s.pages /\ t.seen = s.seen
    <3> DEFINE quiet == Idle.snap
               none == Idle.counts
    <3>1. t = [s EXCEPT !.pc = "request", !.outcome = s.snap.status, !.skip = 0, !.round = 0,
                        !.snap = quiet, !.counts = none, !.more = FALSE]
      BY <2>1 DEF DrainFrom
    <3> HIDE DEF quiet, none
    <3> QED BY <1>1, <3>1 DEF Fields
  <2>4. t \in Locals
    <3>1. sync'[i] = t /\ sync'[i] \in Locals
      BY <2>2 DEF PageInv, Typed
    <3> QED BY <3>1
  <2>5. s.snap.status = "completed" => Over
    BY <1>1, <1>2 DEF Fine
  <2>6. Drained(t)
    BY <2>3 DEF Drained, Covers
  <2>7. Fine(t)
    BY <1>1, <2>3, <2>5, <2>6, OwnSync DEF Fine, EngineStatus
  <2>8. Fine(t)'
    BY <1>3, <2>4, <2>7, FineStays DEF PageInv
  <2> QED BY <1>2, <1>3, <1>5, <2>2, <2>8, PagesOfOne
<1> QED BY <1>6, <1>7

LEMMA FinalProgressPages ==
  ASSUME PageInv, NEW i \in Instance, FinalProgress(i)
  PROVE  Listed' /\ Rows' /\ Complete' /\ \A k \in Instance : Fine(sync[k])'
<1> DEFINE s == sync[i]
<1>1. s \in Fields /\ Fine(s) /\ s.seen.cursor <= Len(docs)
  BY OwnSync DEF Fine
<1>2. /\ UNCHANGED <<fate, docs, total, engine, status, rows, warned, short>>
      /\ s.pc = "progress" /\ s.outcome # "none"
  BY DEF FinalProgress, engineVars, history
<1>3. Steady /\ Rows'
  BY <1>2 DEF PageInv, Rows, Steady
<1>4. cursor' \in {cursor, s.seen.cursor}
  BY DEF FinalProgress, Record, counterVars
<1>5. cursor' <= Len(docs)
  BY <1>1, <1>4, OwnSync
<1>6. PICK t : t = [Idle EXCEPT !.pc = "finish", !.outcome = s.outcome, !.counts = s.counts]
  OBVIOUS
<1>7. sync' = [sync EXCEPT ![i] = t]
  BY <1>6 DEF FinalProgress
<1>8. t.pc = "finish" /\ t.outcome = s.outcome /\ t.pages = <<>> /\ t.skip = 0 /\ t.seen.cursor = 0
  BY <1>6 DEF Idle
<1>9. s.outcome = "completed" => Done
  BY <1>1, <1>2 DEF Fine, Drained, Done
<1>10. s.outcome = "completed" => Done'
  BY <1>3, <1>9, StoredStays DEF Done, PageInv, Steady
<1>11. Fine(t)'
  BY <1>2, <1>8, <1>10, OwnSync DEF Fine, Drained, Done
<1> QED BY <1>2, <1>3, <1>5, <1>7, <1>11, PagesOfOne

LEMMA FinishPages ==
  ASSUME PageInv, NEW i \in Instance, Finish(i)
  PROVE  Listed' /\ Rows' /\ Complete' /\ \A k \in Instance : Fine(sync[k])'
<1> DEFINE s == sync[i]
<1>1. s \in Fields /\ Fine(s)
  BY OwnSync
<1>2. UNCHANGED <<fate, docs, total, engine, cursor, rows, warned, short>> /\ s.pc = "finish"
      /\ sync' = [sync EXCEPT ![i] = Idle]
  BY DEF Finish, engineVars, counterVars, history
<1>3. Steady /\ Rows'
  BY <1>2 DEF PageInv, Rows, Steady
<1>4. s.outcome = "completed" => Done
  BY <1>1, <1>2 DEF Fine, Drained, Done
<1>5. status' = "completed" => status = "completed" \/ Done
  BY <1>4 DEF Finish
<1>6. Fine(Idle)'
  BY <1>2, OwnSync DEF Fine, Idle
<1> QED BY <1>2, <1>3, <1>5, <1>6, OwnSync, PagesOfOne

LEMMA FaultPages ==
  ASSUME PageInv, NEW i \in Instance, EngineDown(i) \/ Throws(i)
  PROVE  Listed' /\ Rows' /\ Complete' /\ \A k \in Instance : Fine(sync[k])'
<1>1. UNCHANGED <<fate, docs, total, engine, status, cursor, rows, short>>
  BY DEF EngineDown, Throws, engineVars, counterVars
<1>2. PICK t :
        /\ sync' = [sync EXCEPT ![i] = t] /\ t.skip = 0 /\ t.pages = <<>>
        /\ t.seen.cursor <= Len(docs)
        /\ \/ t.pc \in {"release", "finish"} /\ t.outcome \in {"none", "failed"} /\ UNCHANGED warned
           \/ t.pc = "count" /\ t.outcome = sync[i].outcome /\ t.outcome # "none" /\ warned'
  <2>1. CASE sync' = [sync EXCEPT ![i] = [Idle EXCEPT !.pc = "release"]] /\ UNCHANGED warned
    <3>1. PICK t : t = [Idle EXCEPT !.pc = "release"]
      OBVIOUS
    <3>2. t.pc = "release" /\ t.outcome = "none" /\ t.pages = <<>> /\ t.skip = 0 /\ t.seen.cursor = 0
      BY <3>1 DEF Idle
    <3>3. sync' = [sync EXCEPT ![i] = t] /\ t.seen.cursor <= Len(docs)
      BY <2>1, <3>1, <3>2, OwnSync
    <3> QED BY <2>1, <3>2, <3>3
  <2>2. CASE sync' = [sync EXCEPT ![i] = [Idle EXCEPT !.pc = "finish", !.outcome = "failed"]]
             /\ UNCHANGED warned
    <3>1. PICK t : t = [Idle EXCEPT !.pc = "finish", !.outcome = "failed"]
      OBVIOUS
    <3>2. t.pc = "finish" /\ t.outcome = "failed" /\ t.pages = <<>> /\ t.skip = 0 /\ t.seen.cursor = 0
      BY <3>1 DEF Idle
    <3>3. sync' = [sync EXCEPT ![i] = t] /\ t.seen.cursor <= Len(docs)
      BY <2>2, <3>1, <3>2, OwnSync
    <3> QED BY <2>2, <3>2, <3>3
  <2>3. CASE sync' = [sync EXCEPT ![i] = Counting(sync[i])] /\ warned' /\ sync[i].outcome # "none"
    <3>1. PICK t : t = Counting(sync[i])
      OBVIOUS
    <3>2. /\ t.pc = "count" /\ t.outcome = sync[i].outcome /\ t.pages = <<>> /\ t.skip = 0
          /\ t.seen = sync[i].seen
      BY <3>1, OwnSync DEF Counting, Fields
    <3>3. sync[i].seen.cursor <= Len(docs)
      BY OwnSync DEF Fine
    <3> QED BY <2>3, <3>1, <3>2, <3>3
  <2> QED BY <2>1, <2>2, <2>3, GivesUp DEF PageInv
<1>3. Steady /\ Rows'
  BY <1>1, <1>2 DEF PageInv, Rows, Steady
<1>4. sync[i].outcome = "completed" => Over
  BY OwnSync DEF Fine
<1>5. Fine(t)'
  BY <1>1, <1>2, <1>4, OwnSync DEF Fine, Over
<1> QED BY <1>1, <1>2, <1>3, <1>5, OwnSync, PagesOfOne

LEMMA NextPages == ASSUME PageInv, [Next]_vars PROVE PageInv'
<1>1. Typed'
  BY NextTyped DEF PageInv
<1>2. Listed' /\ Rows' /\ Complete' /\ \A i \in Instance : Fine(sync[i])'
  BY <1>1, EnginePages, CrawlPagePages, TickPages, RequestPages, RequestGonePages, PersistPages,
     PullNextPages, FailuresPages, CountPages, ProgressPages, FinalProgressPages, FinishPages, FaultPages
     DEF Next
<1> QED BY <1>1, <1>2 DEF PageInv

\* A completed crawl has a row, of the right kind, for every page the engine
\* delivered, however documents were listed, syncs of several processes ran into
\* each other and requests failed, unless its drain was given up and logged, or
\* stopped in mid-list at a 404 or at MAX_SYNC_ROUNDS: what an ordinary sync misses
\* behind its cursor, drainAndFinish reads from the start.
THEOREM CompleteCrawls == Spec => []CompletedCrawlIsComplete
<1>1. Init => PageInv
  BY InitTyped, InitPages DEF PageInv
<1>2. PageInv /\ [Next]_vars => PageInv'
  BY NextPages
<1>3. PageInv => CompletedCrawlIsComplete
  <2> SUFFICES ASSUME PageInv, status = "completed", ~warned, ~short,
                      NEW p \in Page, fate[p] \in Delivered
               PROVE  rows[p] = fate[p]
    BY DEF CompletedCrawlIsComplete, Delivered
  <2>1. AllStored
    BY DEF PageInv, Complete, Done
  <2>2. PICK n \in 1..Len(docs) : docs[n] = p
    BY DEF PageInv, Listed
  <2>3. rows[p] \in {"good", "bad"}
    BY <2>1, <2>2 DEF AllStored, PageInv, Typed
  <2> QED BY <2>3 DEF PageInv, Rows, Delivered
<1> QED BY <1>1, <1>2, <1>3, PTL DEF Spec

-----------------------------------------------------------------------------
(* The figures a client polls.                                             *)

\* A reading of the engine has no more pages done than found, and a count of the
\* rows, which only become more, stays below them.
Agreeing(s) ==
  /\ s.snap.processed <= s.snap.discovered
  /\ s.counts.succeeded <= Cardinality(RowsWith("good"))
  /\ s.counts.failed <= Cardinality(RowsWith("bad"))

FigureInv == PageInv /\ FiguresAgree /\ \A i \in Instance : Agreeing(sync[i])

LEMMA RowsGrow ==
  ASSUME Typed, Typed', RowsKept
  PROVE  /\ Cardinality(RowsWith("good"))' >= Cardinality(RowsWith("good"))
         /\ Cardinality(RowsWith("bad"))' >= Cardinality(RowsWith("bad"))
<1>1. ASSUME NEW v \in {"good", "bad"}
      PROVE  Cardinality(RowsWith(v)') >= Cardinality(RowsWith(v))
  <2>1. RowsWith(v) \subseteq RowsWith(v)'
    BY DEF RowsKept, RowsWith
  <2>2. IsFiniteSet(RowsWith(v)')
    BY ConstantsAssumption, FS_Subset DEF RowsWith
  <2> QED BY <2>1, <2>2, FS_Subset, FS_CardinalityType
<1> QED BY <1>1

LEMMA RowNumbersNext ==
  Cardinality(RowsWith("good"))' \in Nat /\ Cardinality(RowsWith("bad"))' \in Nat
BY ConstantsAssumption, FS_Subset, FS_CardinalityType DEF RowsWith

\* What agrees with the rows goes on to do so.
LEMMA AgreeingStays ==
  ASSUME Typed, Typed', RowsKept, NEW s \in Fields, Agreeing(s)
  PROVE  Agreeing(s)'
<1>1. s.counts.succeeded \in Nat /\ s.counts.failed \in Nat
  BY DEF Fields
<1> QED BY <1>1, RowsGrow, RowNumbers, RowNumbersNext DEF Agreeing

\* A step of one process: it is enough that its new locals agree.
LEMMA AgreeingOfOne ==
  ASSUME FigureInv, Typed', RowsKept, NEW i \in Instance, NEW s \in Fields,
         sync' = [sync EXCEPT ![i] = s], Agreeing(s)
  PROVE  \A k \in Instance : Agreeing(sync[k])'
<1> SUFFICES ASSUME NEW k \in Instance PROVE Agreeing(sync[k])'
  OBVIOUS
<1>1. PICK t \in Fields : sync'[k] = t /\ Agreeing(t)
  BY Elsewhere DEF FigureInv, PageInv, Typed
<1>2. Agreeing(t)'
  BY <1>1, AgreeingStays DEF FigureInv, PageInv
<1> QED BY <1>1, <1>2 DEF Agreeing

\* Where no progress is recorded, the figures agree with rows that become more.
LEMMA FiguresStay ==
  ASSUME FigureInv, Typed', RowsKept, UNCHANGED counterVars
  PROVE  FiguresAgree'
BY RowsGrow, RowNumbers, RowNumbersNext DEF FigureInv, PageInv, Typed, FiguresAgree, counterVars

LEMMA OwnFigures ==
  ASSUME FigureInv, NEW i \in Instance
  PROVE  /\ sync[i] \in Fields /\ Agreeing(sync[i])
         /\ total \in Nat /\ Len(docs) \in Nat /\ Len(docs) <= total
BY OwnSync, PageNumbers DEF FigureInv, PageInv, Typed, Listed, Crawled

\* The locals after any step but the two that record progress.
LEMMA StepAgrees ==
  ASSUME FigureInv, Typed', NEW i \in Instance,
         \/ Tick(i) \/ Request(i) \/ RequestGone(i) \/ Persist(i) \/ PullNext(i) \/ Failures(i)
         \/ Count(i) \/ Finish(i) \/ Release(i) \/ EngineDown(i) \/ Throws(i)
  PROVE  \E s \in Fields : sync' = [sync EXCEPT ![i] = s] /\ Agreeing(s)
<1>1. ASSUME NEW s, sync' = [sync EXCEPT ![i] = s] PROVE s \in Fields
  <2>1. sync'[i] = s /\ sync'[i] \in Fields
    BY <1>1, Elsewhere DEF FigureInv, PageInv, Typed
  <2> QED BY <2>1
<1>2. /\ 0 <= Cardinality(RowsWith("good")) /\ 0 <= Cardinality(RowsWith("bad"))
      /\ sync[i] \in Fields /\ sync[i].snap.discovered \in Nat
  BY RowNumbers, OwnFigures DEF Fields
<1>3. Agreeing(Idle)
  BY <1>2 DEF Agreeing, Idle
<1>4. CASE Tick(i)
  <2> DEFINE at == [cursor |-> cursor, discovered |-> discovered]
  <2>1. PICK s : /\ sync' = [sync EXCEPT ![i] = s]
                 /\ \/ s = [Idle EXCEPT !.pc = "request", !.skip = cursor, !.seen = at]
                    \/ s = [Idle EXCEPT !.pc = "request", !.outcome = "failed", !.seen = at]
    BY <1>4 DEF Tick
  <2> HIDE DEF at
  <2>2. s.snap = Idle.snap /\ s.counts = Idle.counts
    BY <2>1 DEF Idle
  <2> QED BY <1>1, <1>3, <2>1, <2>2 DEF Agreeing
<1>5. CASE Request(i)
  <2>1. PICK s : /\ sync' = [sync EXCEPT ![i] = s] /\ s.counts = sync[i].counts
                 /\ s.snap.discovered = total /\ s.snap.processed = Len(docs)
    BY <1>5, Requested DEF FigureInv, PageInv
  <2> QED BY <1>1, <2>1, OwnFigures DEF Agreeing
<1>6. CASE RequestGone(i)
  <2>0. PICK told : told = [status |-> "failed", discovered |-> 0, processed |-> 0]
    OBVIOUS
  <2>1. PICK s : /\ sync' = [sync EXCEPT ![i] = s]
                 /\ s = [sync[i] EXCEPT !.pc = "persist", !.more = FALSE, !.requests = 0, !.snap = told]
    BY <1>6, <2>0 DEF RequestGone
  <2>2. s.counts = sync[i].counts /\ s.snap = told
    BY <1>2, <2>1 DEF Fields
  <2>3. told.processed = 0 /\ told.discovered = 0
    BY <2>0
  <2>4. Agreeing(sync[i])
    BY OwnFigures
  <2>5. Agreeing(s)
    BY <2>2, <2>3, <2>4 DEF Agreeing
  <2> QED BY <1>1, <2>1, <2>5
<1>7. CASE Persist(i) \/ Failures(i)
  <2>1. PICK s : /\ sync' = [sync EXCEPT ![i] = s]
                 /\ s = [sync[i] EXCEPT !.pages = Tail(@)] \/ s = [sync[i] EXCEPT !.pc = "count"]
    BY <1>7 DEF Persist, Failures, FigureInv, PageInv, Typed
  <2>2. s.counts = sync[i].counts /\ s.snap = sync[i].snap
    BY <1>2, <2>1 DEF Fields
  <2> QED BY <1>1, <2>1, <2>2, OwnFigures DEF Agreeing
<1>8. CASE PullNext(i)
  <2>1. PICK s : /\ sync' = [sync EXCEPT ![i] = s]
                 /\ s = Again(sync[i]) \/ s = Settling(sync[i]) \/ s = Ending(sync[i])
    BY <1>8, PullsOn DEF FigureInv, PageInv
  <2>2. CASE s = Ending(sync[i])
    <3>1. PICK told : told = [Idle.snap EXCEPT !.discovered = sync[i].snap.discovered]
      OBVIOUS
    <3>2. told.processed = 0 /\ told.discovered = sync[i].snap.discovered
      BY <3>1 DEF Idle
    <3>3. s.counts = sync[i].counts /\ s.snap = told
      BY <1>2, <2>2, <3>1 DEF Ending, Fields
    <3>4. Agreeing(sync[i])
      BY OwnFigures
    <3>5. Agreeing(s)
      BY <1>2, <3>2, <3>3, <3>4 DEF Agreeing
    <3> QED BY <1>1, <2>1, <3>5
  <2>3. CASE s = Again(sync[i]) \/ s = Settling(sync[i])
    <3>1. s.counts = sync[i].counts /\ s.snap = sync[i].snap
      BY <1>2, <2>3 DEF Again, Settling, Fields
    <3> QED BY <1>1, <2>1, <3>1, OwnFigures DEF Agreeing
  <2> QED BY <2>1, <2>2, <2>3
<1>9. CASE Count(i)
  <2>1. PICK s : sync' = [sync EXCEPT ![i] = s] /\ s = [sync[i] EXCEPT !.pc = "progress", !.counts = RowCounts]
    BY <1>9 DEF Count, RowCounts, FigureInv, PageInv, Typed
  <2>2. s.snap = sync[i].snap /\ s.counts = RowCounts
    BY <1>2, <2>1 DEF Fields
  <2>3. /\ RowCounts.succeeded = Cardinality(RowsWith("good"))
        /\ RowCounts.failed = Cardinality(RowsWith("bad"))
    BY DEF RowCounts
  <2>4. Agreeing(sync[i])
    BY OwnFigures
  <2>5. Agreeing(s)
    BY <2>2, <2>3, <2>4, RowNumbers DEF Agreeing
  <2> QED BY <1>1, <2>1, <2>5
<1>10. CASE Finish(i) \/ Release(i)
  BY <1>1, <1>3, <1>10 DEF Finish, Release
<1>11. CASE EngineDown(i) \/ Throws(i)
  <2>1. PICK s : /\ sync' = [sync EXCEPT ![i] = s]
                 /\ \/ s = [Idle EXCEPT !.pc = "release"]
                    \/ s = [Idle EXCEPT !.pc = "finish", !.outcome = "failed"]
                    \/ s = Counting(sync[i])
    BY <1>11, GivesUp DEF FigureInv, PageInv
  <2>2. CASE s = Counting(sync[i])
    <3>1. PICK told : told = IF sync[i].pc = "failures" THEN sync[i].snap ELSE Idle.snap
      OBVIOUS
    <3>2. s.counts = sync[i].counts /\ s.snap = told
      BY <1>2, <2>2, <3>1 DEF Counting, Fields
    <3>3. Agreeing(sync[i]) /\ told.processed <= told.discovered
      BY <1>3, <3>1, OwnFigures DEF Agreeing
    <3> QED BY <1>1, <2>1, <3>2, <3>3 DEF Agreeing
  <2>3. CASE s # Counting(sync[i])
    <3>1. s.snap = Idle.snap /\ s.counts = Idle.counts
      BY <2>1, <2>3 DEF Idle
    <3> QED BY <1>1, <1>3, <2>1, <3>1 DEF Agreeing
  <2> QED BY <2>2, <2>3
<1> QED BY <1>4, <1>5, <1>6, <1>7, <1>8, <1>9, <1>10, <1>11

\* What updateProgress leaves, when what it is given agrees.
LEMMA RecordAgrees ==
  ASSUME FigureInv, NEW i \in Instance, NEW d \in Nat, NEW n \in Nat, NEW at \in Nat,
         UNCHANGED rows,
         sync[i].counts.succeeded + sync[i].counts.failed <= n, n <= d,
         Record(d, n, sync[i].counts, at)
  PROVE  FiguresAgree'
<1>1. UNCHANGED <<RowsWith("good"), RowsWith("bad")>>
  BY DEF RowsWith
<1>2. CASE status # "running"
  BY <1>1, <1>2 DEF Record, counterVars, FigureInv, FiguresAgree
<1>3. CASE status = "running"
  <2>1. /\ discovered' = Max({discovered, d}) /\ processed' = Max({processed, n})
        /\ succeeded' = sync[i].counts.succeeded /\ failed' = sync[i].counts.failed
    BY <1>3 DEF Record
  <2>2. discovered \in Nat /\ processed \in Nat /\ processed <= discovered
    BY DEF FigureInv, PageInv, Typed, FiguresAgree
  <2>3. /\ sync[i].counts.succeeded \in Nat /\ sync[i].counts.failed \in Nat
        /\ sync[i].counts.succeeded <= Cardinality(RowsWith("good"))
        /\ sync[i].counts.failed <= Cardinality(RowsWith("bad"))
    BY OwnFigures DEF Agreeing, Fields
  <2>4. /\ discovered' \in Nat /\ discovered' >= discovered /\ discovered' >= d
        /\ processed' \in {processed, n} /\ processed' >= n
    <3>1. processed' >= n
      BY <2>1, <2>2, MaxOfTwo
    <3>2. processed' \in {processed, n}
      <4>1. \E x \in {processed, n} : \A y \in {processed, n} : x >= y
        BY <2>2
      <4> QED BY <2>1, <4>1 DEF Max
    <3> QED BY <2>1, <2>2, <3>1, <3>2, MaxOfTwo
  <2> QED BY <1>1, <2>1, <2>2, <2>3, <2>4 DEF FiguresAgree
<1> QED BY <1>2, <1>3

LEMMA ProgressAgrees ==
  ASSUME FigureInv, Typed', NEW i \in Instance, Progress(i) \/ FinalProgress(i)
  PROVE  /\ FiguresAgree'
         /\ \E s \in Fields : sync' = [sync EXCEPT ![i] = s] /\ Agreeing(s)
<1> DEFINE s == sync[i]
<1>0. PICK n \in Nat : n = s.counts.succeeded + s.counts.failed
  BY LocalsOf DEF FigureInv, PageInv
<1>1. /\ s \in Fields /\ Agreeing(s) /\ s.skip \in Nat /\ s.seen.cursor \in Nat
      /\ s.snap.discovered \in Nat /\ s.snap.processed \in Nat /\ s.seen.discovered \in Nat
  BY OwnFigures, LocalsOf DEF FigureInv, PageInv
<1>2. 0 <= Cardinality(RowsWith("good")) /\ 0 <= Cardinality(RowsWith("bad"))
  BY RowNumbers
<1>3. Agreeing(Idle)
  BY <1>2 DEF Agreeing, Idle
<1>4. ASSUME NEW t, sync' = [sync EXCEPT ![i] = t] PROVE t \in Fields
  <2>1. sync'[i] = t /\ sync'[i] \in Fields
    BY <1>4, Elsewhere DEF FigureInv, PageInv, Typed
  <2> QED BY <2>1
<1>5. CASE Progress(i)
  <2>1. PICK d, m : d = Max({s.snap.discovered, n}) /\ m = Max({s.snap.processed, n})
    OBVIOUS
  <2>2. Record(d, m, s.counts, s.skip) /\ UNCHANGED rows
    BY <1>0, <1>5, <2>1 DEF Progress
  <2>3. d \in Nat /\ m \in Nat /\ n <= m /\ d >= n /\ d >= s.snap.discovered
    BY <1>1, <2>1, MaxOfTwo
  <2>4. m \in {s.snap.processed, n}
    <3>1. \E x \in {s.snap.processed, n} : \A y \in {s.snap.processed, n} : x >= y
      BY <1>1
    <3> QED BY <2>1, <3>1 DEF Max
  <2>5. m <= d
    BY <1>1, <2>3, <2>4 DEF Agreeing
  <2>6. FiguresAgree'
    BY <1>0, <1>1, <2>2, <2>3, <2>5, RecordAgrees
  <2>7. PICK t : /\ sync' = [sync EXCEPT ![i] = t]
                 /\ t = [Idle EXCEPT !.pc = "release"] \/ t = DrainFrom(s, s.snap.status, 0)
    BY <1>5 DEF Progress
  <2>8. t.snap = Idle.snap /\ t.counts = Idle.counts
    <3>1. PICK quiet, none : quiet = Idle.snap /\ none = Idle.counts
      OBVIOUS
    <3>2. CASE t = DrainFrom(s, s.snap.status, 0)
      BY <1>1, <3>1, <3>2 DEF DrainFrom, Fields
    <3>3. CASE t = [Idle EXCEPT !.pc = "release"]
      BY <3>3 DEF Idle
    <3> QED BY <2>7, <3>2, <3>3
  <2>9. Agreeing(t)
    BY <1>3, <2>8 DEF Agreeing
  <2> QED BY <1>4, <2>6, <2>7, <2>9
<1>6. CASE FinalProgress(i)
  <2>1. PICK d : d = Max({s.seen.discovered, s.snap.discovered, n})
    OBVIOUS
  <2>2. Record(d, n, s.counts, s.seen.cursor) /\ UNCHANGED rows
    BY <1>0, <1>6, <2>1 DEF FinalProgress
  <2>3. d \in Nat /\ n <= d
    BY <1>1, <2>1, MaxOfThree
  <2>4. FiguresAgree'
    BY <1>0, <1>1, <2>2, <2>3, RecordAgrees
  <2>5. PICK t : /\ sync' = [sync EXCEPT ![i] = t]
                 /\ t = [Idle EXCEPT !.pc = "finish", !.outcome = s.outcome, !.counts = s.counts]
    BY <1>6 DEF FinalProgress
  <2>6. t.snap = Idle.snap /\ t.counts = s.counts
    BY <2>5 DEF Idle
  <2>7. Agreeing(t)
    BY <1>1, <1>3, <2>6 DEF Agreeing
  <2> QED BY <1>4, <2>4, <2>5, <2>7
<1> QED BY <1>5, <1>6

LEMMA NextFigures == ASSUME FigureInv, [Next]_vars PROVE FigureInv'
<1>1. PageInv' /\ Typed /\ Typed' /\ RowsKept
  BY NextPages, NextKeepsRows, NextTyped DEF FigureInv, PageInv
<1>2. CASE \/ Discover \/ EngineEnds \/ LeaseExpires \/ Cancel \/ \E p \in Page : CrawlPage(p)
           \/ UNCHANGED vars
  <2>1. UNCHANGED <<counterVars, rows, sync>>
    BY <1>2 DEF Discover, EngineEnds, LeaseExpires, Cancel, CrawlPage, vars, counterVars
  <2>2. \A i \in Instance : Agreeing(sync[i])'
    BY <2>1 DEF FigureInv, Agreeing, RowsWith
  <2> QED BY <1>1, <2>1, <2>2, FiguresStay DEF FigureInv
<1>3. ASSUME NEW i \in Instance,
             \/ Tick(i) \/ Request(i) \/ RequestGone(i) \/ Persist(i) \/ PullNext(i) \/ Failures(i)
             \/ Count(i) \/ Finish(i) \/ Release(i) \/ EngineDown(i) \/ Throws(i)
      PROVE  FigureInv'
  <2>1. UNCHANGED counterVars
    BY <1>3 DEF Tick, Request, RequestGone, Persist, PullNext, Failures, Count, Finish, Release,
                EngineDown, Throws
  <2>2. \A k \in Instance : Agreeing(sync[k])'
    BY <1>1, <1>3, StepAgrees, AgreeingOfOne
  <2> QED BY <1>1, <2>1, <2>2, FiguresStay DEF FigureInv
<1>4. ASSUME NEW i \in Instance, Progress(i) \/ FinalProgress(i) PROVE FigureInv'
  <2>1. \A k \in Instance : Agreeing(sync[k])'
    BY <1>1, <1>4, ProgressAgrees, AgreeingOfOne
  <2> QED BY <1>1, <1>4, <2>1, ProgressAgrees DEF FigureInv
<1> QED BY <1>2, <1>3, <1>4 DEF Next

\* The figures a client polls agree with each other and with the results it can
\* list, whichever of several overlapping syncs reported last: every report takes
\* the greatest of what the engine says, what is stored and what was reported, and
\* what a late one counted is still there.
THEOREM FiguresRight == Spec => []FiguresAgree
<1>1. Init => FigureInv
  <2> SUFFICES ASSUME Init PROVE FigureInv
    OBVIOUS
  <2>1. PageInv
    BY InitTyped, InitPages DEF PageInv
  <2>2. FiguresAgree /\ \A i \in Instance : Agreeing(sync[i])
    BY RowNumbers DEF Init, Idle, FiguresAgree, Agreeing
  <2> QED BY <2>1, <2>2 DEF FigureInv
<1>2. FigureInv /\ [Next]_vars => FigureInv'
  BY NextFigures
<1>3. FigureInv => FiguresAgree
  BY DEF FigureInv
<1> QED BY <1>1, <1>2, <1>3, PTL DEF Spec

===============================================================================
