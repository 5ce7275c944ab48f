-------------------------- MODULE EngineCalls_proofs --------------------------
(***************************************************************************)
(* The time a call of the engine adapter may take and the way it shares    *)
(* the page budget, for any timeouts that meet TimesAssumption and any     *)
(* catalog.                                                                *)
(***************************************************************************)
EXTENDS TrafficCalls, FiniteSetTheorems, TLAPS

\* withProductShare fills the budget and keeps the products' share, whatever
\* there is of either.
LEMMA ShareFills ==
  ASSUME NEW products \in Nat, NEW others \in Nat, budget \in Nat \ {0}
  PROVE  LET s == Share(products, others)
         IN /\ s \in [products : Nat, others : Nat, takenProducts : Nat, takenOthers : Nat]
            /\ s.products = products /\ s.others = others
            /\ 1 + s.takenProducts + s.takenOthers = Smaller(budget, 1 + products + others)
            /\ s.takenProducts >= Smaller(products, CeilDiv(budget - 1, 4))
<1> DEFINE rest == budget - 1
           reserved == Smaller(products, CeilDiv(rest, 4))
           nOthers == Smaller(others, rest - reserved)
           nProducts == Smaller(products, rest - nOthers)
<1>1. rest \in Nat
  OBVIOUS
<1>2. CeilDiv(rest, 4) \in Nat /\ CeilDiv(rest, 4) <= rest
  BY <1>1 DEF CeilDiv
<1> HIDE DEF rest
<1>3. reserved \in Nat /\ reserved <= rest /\ reserved <= products
  BY <1>1, <1>2 DEF Smaller
<1>4. nOthers \in Nat /\ nOthers <= others /\ nOthers <= rest - reserved
  BY <1>1, <1>3 DEF Smaller
<1>5. nProducts \in Nat /\ nProducts >= reserved
  BY <1>1, <1>3, <1>4 DEF Smaller
<1>6. nProducts + nOthers = Smaller(rest, products + others)
  BY <1>1, <1>3, <1>4, <1>5 DEF Smaller
<1>7. 1 + nProducts + nOthers = Smaller(budget, 1 + products + others)
  BY <1>1, <1>4, <1>5, <1>6 DEF Smaller, rest
<1>8. Share(products, others) = [products |-> products, others |-> others,
                                 takenProducts |-> nProducts, takenOthers |-> nOthers]
  BY DEF Share, rest
<1> HIDE DEF nProducts, nOthers, reserved
<1> QED BY <1>4, <1>5, <1>7, <1>8 DEF reserved, rest

-----------------------------------------------------------------------------
\* A round of catalog pages: as long as they are full, the store has at least
\* what was found, and a page that is not full ends the catalog.
LEMMA RoundFinds ==
  ASSUME NEW c, c.page \in Nat \ {0}, c.products \in Nat, c.found = (c.page - 1) * Size,
         c.products >= c.found, NEW k \in Nat,
         \A i \in 0..(k - 1) : Items(c, i) = Size
  PROVE  /\ Items(c, k) \in Nat
         /\ (c.page + k - 1) * Size = c.found + k * Size
         /\ c.products >= c.found + k * Size
         /\ Items(c, k) < Size => c.found + k * Size + Items(c, k) = c.products
<1> USE SizesAssumption
<1>1. \A n \in Nat : n * Size \in Nat
  OBVIOUS
<1>2. (c.page + k - 1) * Size = c.found + k * Size
  <2> DEFINE p == c.page - 1
  <2>1. p \in Nat /\ c.page + k - 1 = p + k
    OBVIOUS
  <2> HIDE DEF p
  <2>2. (p + k) * Size = p * Size + k * Size
    BY <2>1
  <2> QED BY <2>1, <2>2 DEF p
<1>3. c.found \in Nat /\ k * Size \in Nat
  BY <1>1
<1>4. c.products >= c.found + k * Size
  <2>1. CASE k = 0
    BY <2>1, <1>3
  <2>2. CASE k # 0
    <3>1. k - 1 \in Nat /\ k - 1 \in 0..(k - 1)
      BY <2>2
    <3>2. Items(c, k - 1) = Size
      BY <3>1
    <3> DEFINE b == (c.page + (k - 1) - 1) * Size
    <3>3. b \in Nat /\ b + Size = (c.page + k - 1) * Size
      <4> DEFINE m == c.page + (k - 1) - 1
      <4>1. m \in Nat /\ c.page + k - 1 = m + 1
        BY <3>1
      <4> HIDE DEF m
      <4>2. (m + 1) * Size = m * Size + Size /\ m * Size \in Nat
        BY <4>1, <1>1
      <4> QED BY <4>1, <4>2 DEF m
    <3>4. Items(c, k - 1) = IF c.products <= b THEN 0 ELSE Smaller(Size, c.products - b)
      BY DEF Items
    <3> HIDE DEF b
    <3>5. c.products >= b + Size
      BY <3>2, <3>3, <3>4 DEF Smaller
    <3> QED BY <3>3, <3>5, <1>2
  <2> QED BY <2>1, <2>2
<1> DEFINE a == (c.page + k - 1) * Size
<1>5. Items(c, k) = IF c.products <= a THEN 0 ELSE Smaller(Size, c.products - a)
  BY DEF Items
<1>6. a = c.found + k * Size /\ a \in Nat
  BY <1>2, <1>3
<1> HIDE DEF a
<1>7. Items(c, k) \in Nat /\ (Items(c, k) < Size => a + Items(c, k) = c.products)
  <2>1. CASE c.products <= a
    BY <2>1, <1>3, <1>4, <1>5, <1>6
  <2>2. CASE ~(c.products <= a)
    <3>1. Items(c, k) = Smaller(Size, c.products - a)
      BY <2>2, <1>5
    <3>2. c.products - a \in Nat
      BY <2>2, <1>6
    <3> QED BY <3>1, <3>2, <1>6 DEF Smaller, SizesAssumption
  <2> QED BY <2>1, <2>2
<1> QED BY <1>2, <1>4, <1>6, <1>7

CatalogType == [active : BOOLEAN, due : Nat, deadline : Nat, products : Nat,
                page : Nat, want : Nat, found : Nat, whole : BOOLEAN]

\* A catalog that is being read was read without a gap so far; one that is
\* done has all that was wanted, unless something went wrong.
CatalogSound(c) ==
  /\ c.active => c.whole /\ c.page # 0 /\ c.found = (c.page - 1) * Size /\ c.products >= c.found
  /\ c.deadline > 0 /\ ~c.active /\ c.whole =>
       Smaller(c.found, MaxProducts) = Smaller(c.products, MaxProducts)

\* Its requests end within the grace after its deadline.
CatalogTimed(c) == c.active => now <= c.due /\ c.due <= c.deadline + Grace

LEMMA NoCatalogFacts ==
  /\ NoCatalog \in CatalogType /\ NoCatalog.active = FALSE /\ NoCatalog.deadline = 0
  /\ NoCatalog.page = 1 /\ NoCatalog.found = 0 /\ NoCatalog.whole = TRUE
BY DEF NoCatalog, CatalogType

LEMMA NextRoundSound ==
  ASSUME NEW c \in CatalogType, c.active, CatalogSound(c), now \in Nat, budget \in Nat \ {0}
  PROVE  /\ NextRound(c) \in CatalogType
         /\ CatalogSound(NextRound(c)) /\ CatalogTimed(NextRound(c))
         /\ NextRound(c).deadline = c.deadline
<1> USE TimesAssumption, SizesAssumption DEF CatalogType
<1> DEFINE d == NextRound(c)
<1>1. MaxProducts \in Nat
  BY DEF MaxProducts
<1>2. CASE c.found >= MaxProducts
  <2>1. d = [c EXCEPT !.active = FALSE]
    BY <1>2 DEF NextRound, FetchEnds
  <2> HIDE DEF d
  <2>2. Smaller(c.found, MaxProducts) = MaxProducts /\ Smaller(c.products, MaxProducts) = MaxProducts
    <3>1. c.products >= c.found /\ c.products \in Nat /\ c.found \in Nat
      BY DEF CatalogSound
    <3> QED BY <3>1, <1>1, <1>2 DEF Smaller
  <2>3. d \in CatalogType /\ CatalogSound(d) /\ CatalogTimed(d) /\ d.deadline = c.deadline
    BY <2>1, <2>2 DEF CatalogSound, CatalogTimed
  <2> QED BY <2>3 DEF d
<1>3. CASE ~(c.found >= MaxProducts) /\ (c.deadline < now + MinFetch \/ c.deadline <= now)
  <2>1. d = [c EXCEPT !.active = FALSE, !.whole = FALSE]
    BY <1>3 DEF NextRound, FetchEnds
  <2> HIDE DEF d
  <2>2. d \in CatalogType /\ CatalogSound(d) /\ CatalogTimed(d) /\ d.deadline = c.deadline
    BY <2>1 DEF CatalogSound, CatalogTimed
  <2> QED BY <2>2 DEF d
<1>4. CASE ~(c.found >= MaxProducts) /\ ~(c.deadline < now + MinFetch \/ c.deadline <= now)
  <2> DEFINE want == Smaller(Parallel, CeilDiv(MaxProducts - c.found, Size))
             due2 == now + Smaller(Fetch, c.deadline - now) + Grace
  <2>1. d = [c EXCEPT !.want = want, !.due = due2]
    BY <1>4 DEF NextRound, FetchEnds
  <2>2. want \in Nat
    <3>1. MaxProducts - c.found \in Nat
      BY <1>1, <1>4
    <3>2. CeilDiv(MaxProducts - c.found, Size) \in Nat
      BY <3>1 DEF CeilDiv
    <3> QED BY <3>2 DEF Smaller
  <2>3. due2 \in Nat /\ now <= due2 /\ due2 <= c.deadline + Grace
    <3>1. c.deadline - now \in Nat /\ c.deadline \in Nat
      BY <1>4
    <3>2. Smaller(Fetch, c.deadline - now) \in Nat /\ Smaller(Fetch, c.deadline - now) <= c.deadline - now
      BY <3>1 DEF Smaller
    <3> QED BY <3>1, <3>2
  <2> HIDE DEF d, want, due2
  <2>4. d \in CatalogType /\ CatalogSound(d) /\ CatalogTimed(d) /\ d.deadline = c.deadline
    BY <2>1, <2>2, <2>3 DEF CatalogSound, CatalogTimed
  <2> QED BY <2>4 DEF d
<1> QED BY <1>2, <1>3, <1>4

-----------------------------------------------------------------------------
\* Which requests a kind of call makes; what runs only while gathering.
Stages ==
  /\ pc = "idle" => kind = None
  /\ pc \in {"first", "noJs", "wait"} => kind = "scrape"
  /\ pc \in {"probe", "reprobe", "gather", "post"} => kind \in {"crawl", "map"}
  /\ pc # "gather" => ~catalog.active /\ ~sitemap.active
  /\ pc \in {"idle", "first", "noJs", "wait", "probe", "reprobe"} => catalog = NoCatalog

\* By when each stage is over.
Timing ==
  /\ pc = "idle" => now = 0
  /\ Waiting /\ pc # "gather" => now <= due
  /\ pc = "first" => due <= ScrapeTimeout + Request
  /\ pc \in {"noJs", "wait"} => due <= 2 * (ScrapeTimeout + Request)
  /\ pc = "probe" => due <= Probe
  /\ pc = "reprobe" => due <= 2 * Probe
  /\ pc = "gather" => now <= 2 * Probe + Gathering
  /\ CatalogTimed(catalog)
  /\ catalog.active => catalog.deadline <= 2 * Probe + Catalog
  /\ sitemap.active => now <= sitemap.due /\ sitemap.due <= 2 * Probe + Sitemap
  /\ pc = "post" => due <= 2 * Probe + Gathering + Request

\* What a scrape knows while it retries.
Retrying ==
  /\ pc = "noJs" => first = "bounced"
  /\ pc = "wait" => first \in {"thin", "empty"}
  /\ ScrapeKeepsSuccess

IInv == TypeOK /\ Stages /\ Timing /\ Retrying /\ CatalogSound(catalog) /\ BudgetIsFilled

LEMMA InitIInv == Init => IInv
<1> SUFFICES ASSUME Init PROVE IInv
  OBVIOUS
<1> USE TimesAssumption, SizesAssumption DEF Init
<1>1. TypeOK
  BY DEF TypeOK, NoCatalog, NoSitemap, NoPlan, None, Outcome
<1>2. Stages /\ Retrying /\ CatalogSound(catalog)
  BY DEF Stages, Retrying, ScrapeKeepsSuccess, CatalogSound, NoCatalog, NoSitemap
<1>3. Timing
  BY DEF Timing, Waiting, CatalogTimed, NoCatalog, NoSitemap
<1>4. BudgetIsFilled
  <2>1. budget \in Nat \ {0} /\ CeilDiv(budget - 1, 4) \in Nat
    BY DEF CeilDiv
  <2> QED BY <2>1 DEF BudgetIsFilled, NoPlan, Smaller
<1> QED BY <1>1, <1>2, <1>3, <1>4 DEF IInv

\* The time for gathering covers the catalog and the sitemap.
LEMMA GatheringCovers ==
  Gathering \in Nat /\ Gathering >= Catalog + Grace /\ Gathering >= Sitemap
BY TimesAssumption DEF Gathering, Larger

LEMMA NextIInv == IInv /\ [Next]_vars => IInv'
<1> SUFFICES ASSUME IInv, [Next]_vars PROVE IInv'
  OBVIOUS
<1> USE TimesAssumption, SizesAssumption, GatheringCovers
<1>t. /\ {ScrapeTimeout, Request, Probe, Catalog, Fetch, Grace, MinFetch, Sitemap, OrphanLimit} \subseteq Nat
      /\ now \in Nat /\ due \in Nat /\ budget \in Nat \ {0} /\ catalog \in CatalogType
  BY DEF IInv, TypeOK, TimesAssumption, SizesAssumption, CatalogType
<1> USE DEF IInv
<1>1. CASE Tick
  <2> USE <1>1 DEF Tick
  <2>1. TypeOK' BY DEF TypeOK
  <2>2. Stages' /\ Retrying' /\ CatalogSound(catalog)' /\ BudgetIsFilled'
    BY DEF Stages, Retrying, ScrapeKeepsSuccess, CatalogSound, BudgetIsFilled, MaxProducts
  <2>3. Timing'
    BY <1>t DEF Timing, Waiting, CatalogTimed, TypeOK
  <2> QED BY <2>1, <2>2, <2>3
<1>2. CASE ScrapeStart
  <2> USE <1>2 DEF ScrapeStart, Send
  <2>1. TypeOK' BY <1>t DEF TypeOK, None
  <2>2. Stages' /\ Retrying' /\ CatalogSound(catalog)' /\ BudgetIsFilled'
    BY DEF Stages, Retrying, ScrapeKeepsSuccess, CatalogSound, BudgetIsFilled, MaxProducts
  <2>3. Timing'
    BY <1>t DEF Timing, Waiting, CatalogTimed, TypeOK, Stages, NoCatalog
  <2> QED BY <2>1, <2>2, <2>3
<1>3. CASE Abort
  BY <1>3 DEF Abort, TypeOK, Stages, Retrying, ScrapeKeepsSuccess, CatalogSound, BudgetIsFilled, MaxProducts, Timing, Waiting, CatalogTimed
<1>4. CASE ScrapeFirst
  <2> PICK o \in Outcome :
        /\ first' = o /\ last' = o
        /\ \/ WantsNoJs(o) /\ Send("noJs", ScrapeTimeout + Request) /\ UNCHANGED result
           \/ WantsWait(o) /\ Send("wait", ScrapeTimeout + Request) /\ UNCHANGED result
           \/ ~WantsNoJs(o) /\ ~WantsWait(o) /\ Return(o)
    BY <1>4 DEF ScrapeFirst
  <2> USE <1>4 DEF ScrapeFirst, Send, Return, WantsNoJs, WantsWait
  <2>1. TypeOK' BY <1>t DEF TypeOK, None, Outcome
  <2>2. Stages' BY DEF Stages
  <2>3. Retrying' BY DEF Retrying, ScrapeKeepsSuccess, Success
  <2>4. CatalogSound(catalog)' /\ BudgetIsFilled' BY DEF CatalogSound, BudgetIsFilled, MaxProducts
  <2>5. Timing'
    BY <1>t DEF Timing, Waiting, CatalogTimed, Stages
  <2> QED BY <2>1, <2>2, <2>3, <2>4, <2>5
<1>5. CASE ScrapeSecond
  <2> PICK o \in Outcome :
        /\ last' = o
        /\ \/ o \in Success \cup {"thrown"} /\ Return(o)
           \/ o \notin Success \cup {"thrown"} /\ Return(IF pc = "wait" /\ first \notin Success THEN o ELSE first)
    BY <1>5 DEF ScrapeSecond
  <2> USE <1>5 DEF ScrapeSecond, Return
  <2>1. TypeOK'
    <3>1. result' \in Outcome
      BY DEF Success, Outcome, Retrying
    <3> QED BY <3>1, <1>t DEF TypeOK, None, Outcome
  <2>2. Stages' BY DEF Stages
  <2>3. Retrying' BY DEF Retrying, ScrapeKeepsSuccess, Success
  <2>4. CatalogSound(catalog)' /\ BudgetIsFilled' BY DEF CatalogSound, BudgetIsFilled, MaxProducts
  <2>5. Timing'
    BY <1>t DEF Timing, Waiting, CatalogTimed, Stages
  <2> QED BY <2>1, <2>2, <2>3, <2>4, <2>5
<1>6. CASE ProbeStart
  <2> USE <1>6 DEF ProbeStart, Send
  <2>1. TypeOK' BY <1>t DEF TypeOK, None
  <2>2. Stages' /\ Retrying' /\ CatalogSound(catalog)' /\ BudgetIsFilled'
    BY DEF Stages, Retrying, ScrapeKeepsSuccess, CatalogSound, BudgetIsFilled, MaxProducts
  <2>3. Timing'
    BY <1>t DEF Timing, Waiting, CatalogTimed, TypeOK, Stages
  <2> QED BY <2>1, <2>2, <2>3
<1>7. CASE SitemapAnswers
  <2> USE <1>7 DEF SitemapAnswers
  <2>1. TypeOK' BY DEF TypeOK
  <2>2. Stages' /\ Retrying' /\ CatalogSound(catalog)' /\ BudgetIsFilled'
    BY DEF Stages, Retrying, ScrapeKeepsSuccess, CatalogSound, BudgetIsFilled, MaxProducts, TypeOK
  <2>3. Timing'
    BY <1>t DEF Timing, Waiting, CatalogTimed, TypeOK
  <2> QED BY <2>1, <2>2, <2>3
<1>8. CASE CatalogRound
  <2> PICK lost \in SUBSET (0..(catalog.want - 1)), k \in 0..catalog.want :
        /\ \A i \in 0..(k - 1) : i \notin lost /\ Items(catalog, i) = Size
        /\ k < catalog.want => k \in lost \/ Items(catalog, k) < Size
        /\ LET short == IF k < catalog.want /\ k \notin lost THEN Items(catalog, k) ELSE 0
               c == [catalog EXCEPT !.page = @ + catalog.want, !.found = @ + k * Size + short,
                                    !.whole = @ /\ (k < catalog.want => k \notin lost)]
           IN catalog' = IF k < catalog.want THEN [c EXCEPT !.active = FALSE] ELSE NextRound(c)
    BY <1>8 DEF CatalogRound
  <2> DEFINE short == IF k < catalog.want /\ k \notin lost THEN Items(catalog, k) ELSE 0
             c == [catalog EXCEPT !.page = @ + catalog.want, !.found = @ + k * Size + short,
                                  !.whole = @ /\ (k < catalog.want => k \notin lost)]
  <2>1. /\ pc = "gather" /\ catalog.active
        /\ UNCHANGED <<now, kind, pc, due, first, last, noWait, aborted, budget, sitemap, plan, result>>
    BY <1>8 DEF CatalogRound
  <2>2. /\ catalog.whole = TRUE /\ catalog.page \in Nat \ {0} /\ catalog.found = (catalog.page - 1) * Size
        /\ catalog.products \in Nat /\ catalog.products >= catalog.found /\ catalog.want \in Nat
        /\ catalog.found \in Nat /\ k \in Nat
    BY <2>1, <1>t DEF CatalogSound, CatalogType
  <2>3. /\ Items(catalog, k) \in Nat
        /\ (catalog.page + k - 1) * Size = catalog.found + k * Size
        /\ catalog.products >= catalog.found + k * Size
        /\ Items(catalog, k) < Size => catalog.found + k * Size + Items(catalog, k) = catalog.products
    BY <2>2, RoundFinds
  <2>4. short \in Nat /\ k * Size \in Nat
    BY <2>2, <2>3
  <2>5. c \in CatalogType /\ c.deadline = catalog.deadline /\ c.active = TRUE
        /\ c.page = catalog.page + catalog.want /\ c.found = catalog.found + k * Size + short
        /\ c.products = catalog.products /\ c.whole = (k < catalog.want => k \notin lost)
    <3> DEFINE page2 == catalog.page + catalog.want
               found2 == catalog.found + k * Size + short
               whole2 == catalog.whole /\ (k < catalog.want => k \notin lost)
    <3>1. page2 \in Nat /\ found2 \in Nat /\ whole2 \in BOOLEAN
      BY <2>2, <2>4
    <3>2. whole2 = (k < catalog.want => k \notin lost)
      BY <2>2
    <3>3. c = [catalog EXCEPT !.page = page2, !.found = found2, !.whole = whole2]
      OBVIOUS
    <3> HIDE DEF page2, found2, whole2, short, c
    <3>4. /\ c \in CatalogType /\ c.deadline = catalog.deadline /\ c.active = catalog.active
          /\ c.page = page2 /\ c.found = found2 /\ c.products = catalog.products /\ c.whole = whole2
      BY <3>1, <3>3, <1>t DEF CatalogType
    <3>5. catalog.active = TRUE
      BY <2>1, <1>t DEF CatalogType
    <3> QED BY <3>2, <3>4, <3>5 DEF page2, found2
  <2>6. catalog' = IF k < catalog.want THEN [c EXCEPT !.active = FALSE] ELSE NextRound(c)
    OBVIOUS
  <2>7. short = IF k < catalog.want /\ k \notin lost THEN Items(catalog, k) ELSE 0
    OBVIOUS
  <2> HIDE DEF short, c
  <2>8. /\ catalog' \in CatalogType /\ CatalogSound(catalog') /\ CatalogTimed(catalog')
        /\ catalog'.deadline = catalog.deadline
    <3>1. CASE k < catalog.want
      <4>1. catalog' = [c EXCEPT !.active = FALSE]
        BY <2>6, <3>1
      <4>2. catalog'.whole => catalog'.found = catalog'.products
        BY <4>1, <3>1, <2>3, <2>5, <2>7 DEF CatalogType
      <4> QED BY <4>1, <4>2, <2>5 DEF CatalogType, CatalogSound, CatalogTimed
    <3>2. CASE ~(k < catalog.want)
      <4>1. k = catalog.want /\ short = 0 /\ catalog' = NextRound(c)
        BY <3>2, <2>2, <2>6, <2>7
      <4>2. CatalogSound(c)
        <5>1. c.whole = TRUE
          BY <3>2, <2>5
        <5>2. c.page \in Nat \ {0} /\ c.page - 1 = catalog.page + k - 1
          BY <4>1, <2>2, <2>5
        <5>3. c.found = (c.page - 1) * Size /\ c.products >= c.found
          <6>1. c.found = catalog.found + k * Size
            BY <4>1, <2>2, <2>4, <2>5
          <6> QED BY <6>1, <5>2, <2>3, <2>5
        <5> QED BY <5>1, <5>2, <5>3, <2>5 DEF CatalogSound
      <4> QED BY <4>1, <4>2, <2>5, <1>t, NextRoundSound
    <3> QED BY <3>1, <3>2
  <2>9. TypeOK' BY <2>1, <2>8 DEF TypeOK, CatalogType
  <2>10. CatalogSound(catalog)' /\ CatalogTimed(catalog)'
    BY <2>1, <2>8 DEF CatalogSound, CatalogTimed, MaxProducts
  <2>11. Stages' /\ Retrying' /\ BudgetIsFilled'
    BY <2>1 DEF Stages, Retrying, ScrapeKeepsSuccess, BudgetIsFilled
  <2>12. Timing'
    BY <2>1, <2>8, <2>10, <1>t DEF Timing, Waiting
  <2> QED BY <2>9, <2>10, <2>11, <2>12
<1>9. CASE ProbeAnswers
  <2> PICK o \in Outcome :
        /\ MayReturn(o)
        /\ last' = o /\ first' = IF pc = "probe" THEN o ELSE first
        /\ \/ pc = "probe" /\ o = "bounced" /\ Send("reprobe", Probe) /\ UNCHANGED <<catalog, sitemap, result>>
           \/ ~(pc = "probe" /\ o = "bounced") /\ AfterProbe(o)
    BY <1>9 DEF ProbeAnswers
  <2>1. /\ pc \in {"probe", "reprobe"} /\ now <= 2 * Probe /\ kind \in {"crawl", "map"} /\ result = None
        /\ UNCHANGED <<now, kind, noWait, aborted, budget, plan>>
        /\ first' \in Outcome \cup {None} /\ last' \in Outcome
        /\ catalog = NoCatalog /\ ~sitemap.active /\ sitemap \in [active : BOOLEAN, due : Nat]
    BY <1>9, <1>t DEF ProbeAnswers, Timing, Waiting, Stages, TypeOK
  <2>2. CASE Send("reprobe", Probe) /\ UNCHANGED <<catalog, sitemap, result>> /\ pc = "probe"
    <3>1. TypeOK' BY <2>1, <2>2, <1>t DEF TypeOK, Send
    <3>2. Stages' /\ Retrying' /\ CatalogSound(catalog)' /\ BudgetIsFilled'
      BY <2>1, <2>2 DEF Stages, Retrying, ScrapeKeepsSuccess, CatalogSound, BudgetIsFilled, MaxProducts, Send
    <3>3. Timing'
      BY <2>1, <2>2, <1>t DEF Timing, Waiting, CatalogTimed, Send, NoCatalog
    <3> QED BY <3>1, <3>2, <3>3
  <2>3. CASE Send("post", Request) /\ UNCHANGED <<catalog, sitemap, result>>
    <3>1. TypeOK' BY <2>1, <2>3, <1>t DEF TypeOK, Send
    <3>2. Stages' /\ Retrying' /\ CatalogSound(catalog)' /\ BudgetIsFilled'
      BY <2>1, <2>3 DEF Stages, Retrying, ScrapeKeepsSuccess, CatalogSound, BudgetIsFilled, MaxProducts, Send, NoCatalog
    <3>3. Timing'
      BY <2>1, <2>3, <1>t DEF Timing, Waiting, CatalogTimed, Send, NoCatalog
    <3> QED BY <3>1, <3>2, <3>3
  <2>4. ASSUME NEW platform \in BOOLEAN, Gather(platform) PROVE IInv'
    <3>1. pc' = "gather" /\ UNCHANGED <<due, result>> /\ sitemap' = [active |-> TRUE, due |-> now + Sitemap]
      BY <2>4 DEF Gather
    <3>2. /\ catalog' \in CatalogType /\ CatalogSound(catalog') /\ CatalogTimed(catalog')
          /\ catalog'.active => catalog'.deadline <= 2 * Probe + Catalog
      <4>1. CASE platform /\ budget >= 2
        <5> PICK n \in ShopSizes :
              catalog' = NextRound([NoCatalog EXCEPT !.active = TRUE, !.deadline = now + Catalog, !.products = n])
          BY <2>4, <4>1 DEF Gather
        <5> DEFINE c == [NoCatalog EXCEPT !.active = TRUE, !.deadline = now + Catalog, !.products = n]
        <5>1. c \in CatalogType /\ c.active = TRUE /\ CatalogSound(c) /\ c.deadline = now + Catalog
          <6>1. n \in Nat /\ now + Catalog \in Nat /\ 0 = (1 - 1) * Size
            BY <1>t, SizesAssumption DEF SizesAssumption
          <6>2. c \in CatalogType
            BY <6>1, NoCatalogFacts DEF CatalogType
          <6>3. /\ c.active = TRUE /\ c.deadline = now + Catalog /\ c.products = n
                /\ c.page = 1 /\ c.found = 0 /\ c.whole = TRUE
            BY NoCatalogFacts DEF CatalogType
          <6> HIDE DEF c
          <6> QED BY <6>1, <6>2, <6>3 DEF CatalogSound
        <5>2. catalog' = NextRound(c)
          OBVIOUS
        <5> HIDE DEF c
        <5>3. /\ catalog' \in CatalogType /\ CatalogSound(catalog') /\ CatalogTimed(catalog')
              /\ catalog'.deadline = now + Catalog
          BY <5>1, <5>2, <1>t, NextRoundSound
        <5> QED BY <5>3, <2>1, <1>t
      <4>2. CASE ~(platform /\ budget >= 2)
        <5>1. catalog' = NoCatalog
          BY <4>2, <2>4, <2>1 DEF Gather
        <5> QED BY <5>1, NoCatalogFacts DEF CatalogSound, CatalogTimed
      <4> QED BY <4>1, <4>2
    <3>3. TypeOK' BY <2>1, <3>1, <3>2, <1>t DEF TypeOK, CatalogType
    <3>4. CatalogSound(catalog)' /\ CatalogTimed(catalog)'
      BY <2>1, <3>2 DEF CatalogSound, CatalogTimed, MaxProducts
    <3>5. Stages' /\ Retrying' /\ BudgetIsFilled'
      BY <2>1, <3>1 DEF Stages, Retrying, ScrapeKeepsSuccess, BudgetIsFilled
    <3>6. Timing'
      BY <2>1, <3>1, <3>2, <3>4, <1>t DEF Timing, Waiting
    <3> QED BY <3>3, <3>4, <3>5, <3>6
  <2> HIDE DEF IInv
  <2> QED BY <2>2, <2>3, <2>4 DEF AfterProbe
<1>10. CASE Gathered
  <2> PICK products \in 0..Smaller(catalog.found, MaxProducts), others \in OtherPages :
        \/ /\ kind = "crawl"
           /\ plan' = IF products = 0 THEN NoPlan ELSE Share(products, others)
           /\ Send("post", Request) /\ UNCHANGED result
        \/ /\ kind = "map"
           /\ plan' = Share(products, others)
           /\ Return(IF plan'.takenProducts + plan'.takenOthers = 0 /\ last \notin Success THEN "error" ELSE "mapped")
    BY <1>10 DEF Gathered
  <2>1. /\ pc = "gather" /\ ~catalog.active /\ ~sitemap.active /\ result = None
        /\ UNCHANGED <<now, kind, first, last, noWait, aborted, budget, catalog, sitemap>>
    BY <1>10 DEF Gathered, TypeOK
  <2>2. products \in Nat /\ others \in Nat
    <3>1. catalog.found \in Nat /\ MaxProducts \in Nat
      BY <1>t DEF CatalogType, MaxProducts
    <3>2. Smaller(catalog.found, MaxProducts) \in Nat
      BY <3>1 DEF Smaller
    <3>3. products \in Nat
      BY <3>2
    <3>4. others \in Nat
      BY SizesAssumption
    <3> QED BY <3>3, <3>4
  <2>3. /\ plan' \in [products : Nat, others : Nat, takenProducts : Nat, takenOthers : Nat]
        /\ BudgetIsFilled'
    <3>1. CASE plan' = Share(products, others)
      <4> DEFINE s == Share(products, others)
      <4>1. /\ s \in [products : Nat, others : Nat, takenProducts : Nat, takenOthers : Nat]
            /\ s.products = products /\ s.others = others
            /\ 1 + s.takenProducts + s.takenOthers = Smaller(budget, 1 + products + others)
            /\ s.takenProducts >= Smaller(products, CeilDiv(budget - 1, 4))
        BY <2>2, <1>t, ShareFills
      <4>2. plan' = s /\ budget' = budget
        BY <3>1, <2>1
      <4> HIDE DEF s
      <4> QED BY <4>1, <4>2 DEF BudgetIsFilled
    <3>2. CASE plan' = NoPlan
      <4>1. CeilDiv(budget - 1, 4) \in Nat
        BY <1>t DEF CeilDiv
      <4> QED BY <3>2, <4>1, <2>1, <1>t DEF BudgetIsFilled, NoPlan, Smaller
    <3> QED BY <3>1, <3>2
  <2>4. CASE kind = "crawl" /\ Send("post", Request) /\ UNCHANGED result
    <3>1. TypeOK' BY <2>1, <2>3, <2>4, <1>t DEF TypeOK, Send
    <3>2. Stages' /\ Retrying' /\ CatalogSound(catalog)'
      BY <2>1, <2>4 DEF Stages, Retrying, ScrapeKeepsSuccess, CatalogSound, MaxProducts, Send
    <3>3. Timing'
      BY <2>1, <2>4, <1>t DEF Timing, Waiting, CatalogTimed, Send
    <3> QED BY <3>1, <3>2, <3>3, <2>3
  <2>5. CASE kind = "map" /\ \E r \in {"error", "mapped"} : Return(r)
    <3>1. TypeOK' BY <2>1, <2>3, <2>5, <1>t DEF TypeOK, Return, None
    <3>2. Stages' /\ Retrying' /\ CatalogSound(catalog)'
      BY <2>1, <2>5 DEF Stages, Retrying, ScrapeKeepsSuccess, CatalogSound, MaxProducts, Return
    <3>3. Timing'
      BY <2>1, <2>5, <1>t DEF Timing, Waiting, CatalogTimed, Return
    <3> QED BY <3>1, <3>2, <3>3, <2>3
  <2> HIDE DEF IInv
  <2> QED BY <2>4, <2>5
<1>11. CASE PostAnswers
  <2> PICK r \in {"started", "refused", "thrown"} : Return(r)
    BY <1>11 DEF PostAnswers
  <2> USE <1>11 DEF PostAnswers, Return
  <2>1. TypeOK' BY <1>t DEF TypeOK, None, Outcome
  <2>2. Stages' /\ Retrying' /\ CatalogSound(catalog)' /\ BudgetIsFilled'
    BY DEF Stages, Retrying, ScrapeKeepsSuccess, CatalogSound, BudgetIsFilled, MaxProducts
  <2>3. Timing'
    BY <1>t DEF Timing, Waiting, CatalogTimed, Stages
  <2> QED BY <2>1, <2>2, <2>3
<1>12. CASE UNCHANGED vars
  BY <1>12 DEF vars, TypeOK, Stages, Retrying, ScrapeKeepsSuccess, CatalogSound, BudgetIsFilled, MaxProducts, Timing, Waiting, CatalogTimed
<1> HIDE DEF IInv
<1> QED BY <1>1, <1>2, <1>3, <1>4, <1>5, <1>6, <1>7, <1>8, <1>9, <1>10, <1>11, <1>12 DEF Next

\* The inductive invariant holds throughout.
THEOREM Invariant == Spec => []IInv
BY InitIInv, NextIInv, PTL DEF Spec

\* The types are right, and a call has a result when it is done.
THEOREM TypeCorrect == Spec => []TypeOK
<1>1. IInv => TypeOK BY DEF IInv
<1> QED BY Invariant, <1>1, PTL

\* For any timeouts that meet TimesAssumption, a crawl's start is over before
\* the reconciler takes it for an orphan, and a scrape takes at most the time
\* of two requests.
THEOREM CallsSettle == Spec => []CallSettlesInTime
<1>1. IInv => CallSettlesInTime
  <2> SUFFICES ASSUME IInv PROVE CallSettlesInTime
    OBVIOUS
  <2>1. Gathering \in Nat
    BY GatheringCovers
  <2> QED BY <2>1, TimesAssumption DEF IInv, CallSettlesInTime, Waiting, TypeOK, Stages, Timing
<1> QED BY Invariant, <1>1, PTL

\* A scrape that got a page from one of its attempts returns a page, unless the
\* retry could not reach the engine.
THEOREM SuccessIsKept == Spec => []ScrapeKeepsSuccess
<1>1. IInv => ScrapeKeepsSuccess BY DEF IInv, Retrying
<1> QED BY Invariant, <1>1, PTL

\* A catalog read in time and without a lost page is read to its end, for any
\* page size, number of parallel pages and size of the store.
THEOREM CatalogsAreWhole == Spec => []CatalogIsWhole
<1>1. IInv => CatalogIsWhole BY DEF IInv, CatalogSound, CatalogIsWhole
<1> QED BY Invariant, <1>1, PTL

\* The page budget is filled and the products' share kept, for any budget and
\* any numbers of products and other pages.
THEOREM BudgetsAreFilled == Spec => []BudgetIsFilled
<1>1. IInv => BudgetIsFilled BY DEF IInv
<1> QED BY Invariant, <1>1, PTL

-----------------------------------------------------------------------------
(* Traffic calls.  What a lookup has read stays true while it goes on: runs *)
(* are only added, and one that has completed stays completed.              *)

RunState == {"active", "completed", "failed"}
LookupType == [at : Reading \cup {None, "missing", "answered"}, run : Nat,
               state : RunState \cup {None}, estimate : Nat]
AskType == [route : {None, "post", "get", "bulk"}, inputs : Seq(Domain \cup {Invalid}),
            refresh : BOOLEAN, wait : BOOLEAN, details : BOOLEAN]

TrafficTyped ==
  /\ now \in Nat /\ deadline \in Nat
  /\ runs \in [Domain -> Seq(RunState)] /\ joined \in [Domain -> Nat]
  /\ lookup \in [Domain -> LookupType] /\ ask \in AskType

\* Which requests a traffic call makes; its lookups begin when it has submitted.
TrafficStages ==
  /\ ask.route # None <=> kind = "traffic"
  /\ kind = "traffic" => pc \in {"submit", "lookup", "details", "pause", "done"}
  /\ pc \in {"submit", "lookup", "details", "pause"} => kind = "traffic"
  /\ pc = "idle" => kind = None
  /\ pc \in {"idle", "submit"} => joined = [d \in Domain |-> 0] /\ lookup = [d \in Domain |-> NoLookup]
  /\ pc = "details" => ask.details
  /\ ask.route = "post" => \A d, e \in Asked : d = e

\* What a lookup has read of a domain: its latest run, no older than the one the
\* request joined; how that stood, for good if it had completed; an estimate that
\* is no older than a run it saw completed.
Seen(d) ==
  LET v == lookup[d]
  IN /\ joined[d] <= Len(runs[d])
     /\ v.at \in {"state", "estimate", "full", "answered"} =>
          v.run \in 1..Len(runs[d]) /\ joined[d] <= v.run
     /\ v.at \in {"estimate", "full", "answered"} =>
          v.state \in RunState /\ (v.state = "completed" => runs[d][v.run] = "completed")
     /\ v.at \notin {"estimate", "full", "answered"} => v.state = None
     /\ v.at \notin {"full", "answered"} => v.estimate = 0
     /\ v.at \in {"full", "answered"} /\ v.state = "completed" => v.estimate >= v.run

TrafficInv ==
  /\ TrafficTyped /\ TrafficStages
  /\ \A d \in Domain : Seen(d)
  /\ TrafficAnswerIsCurrent

LessThan == {p \in Nat \X Nat : p[1] < p[2]}

LEMMA LeastNumber == \A T \in SUBSET Nat : T # {} => \E x \in T : \A y \in T : x <= y
<1> SUFFICES ASSUME NEW T \in SUBSET Nat, T # {} PROVE \E x \in T : \A y \in T : x <= y
  OBVIOUS
<1>1. IsWellFoundedOn(LessThan, Nat)
  BY NatLessThanWellFounded DEF OpToRel, LessThan
<1>2. PICK x \in T : \A y \in T : <<y, x>> \notin LessThan
  BY <1>1, WFMin
<1>3. ASSUME NEW y \in T PROVE x <= y
  <2>1. y \in Nat /\ x \in Nat /\ <<y, x>> \in Nat \X Nat /\ <<y, x>>[1] = y /\ <<y, x>>[2] = x
    OBVIOUS
  <2>2. ~(y < x)
    BY <1>2, <2>1 DEF LessThan
  <2> QED BY <2>1, <2>2
<1> QED BY <1>3

\* The latest estimate is that of a completed run, and of the last one.
LEMMA LatestEstimate ==
  ASSUME NEW r \in Seq(RunState)
  PROVE  /\ EstimateOf(r) \in Nat
         /\ \A n \in 1..Len(r) : r[n] = "completed" => EstimateOf(r) >= n
<1> DEFINE done == {n \in DOMAIN r : r[n] = "completed"}
           ago == {Len(r) - n : n \in done}
<1>1. DOMAIN r = 1..Len(r) /\ Len(r) \in Nat /\ done \subseteq 1..Len(r)
  OBVIOUS
<1>2. CASE done = {}
  BY <1>1, <1>2 DEF EstimateOf
<1>3. CASE done # {}
  <2>1. ago \in SUBSET Nat /\ ago # {}
    BY <1>1, <1>3
  <2>2. PICK x \in ago : \A y \in ago : x <= y
    BY <2>1, LeastNumber
  <2>3. PICK m \in done : x = Len(r) - m
    BY <2>2
  <2>4. \A n \in done : Len(r) - m <= Len(r) - n
    BY <2>2, <2>3
  <2>5. \A n \in done : m >= n
    BY <1>1, <2>4
  <2>6. Max(done) \in done /\ \A n \in done : Max(done) >= n
    BY <2>5 DEF Max
  <2>7. EstimateOf(r) = Max(done)
    BY <1>3 DEF EstimateOf
  <2> QED BY <1>1, <2>6, <2>7
<1> QED BY <1>2, <1>3

\* What has been read of a domain stays true while its runs go on.
LEMMA SeenLasts ==
  ASSUME TrafficTyped, TrafficTyped', NEW d \in Domain, Seen(d),
         UNCHANGED <<lookup, joined>>,
         Len(runs'[d]) >= Len(runs[d]),
         \A n \in 1..Len(runs[d]) : runs[d][n] = "completed" => runs'[d][n] = "completed"
  PROVE  Seen(d)'
<1>1. /\ runs[d] \in Seq(RunState) /\ runs'[d] \in Seq(RunState)
      /\ Len(runs[d]) \in Nat /\ Len(runs'[d]) \in Nat
      /\ lookup[d] \in LookupType /\ lookup[d].run \in Nat /\ joined[d] \in Nat
      /\ lookup'[d] = lookup[d] /\ joined'[d] = joined[d]
  BY DEF TrafficTyped, LookupType
<1> QED BY <1>1 DEF Seen

\* A lookup that begins knows nothing.
LEMMA SeenFresh ==
  ASSUME NEW d, lookup'[d] = NoLookup \/ lookup'[d] = [NoLookup EXCEPT !.at = "run"],
         joined'[d] <= Len(runs'[d])
  PROVE  Seen(d)'
BY DEF Seen, NoLookup, None

LEMMA FreshTyped == NoLookup \in LookupType /\ [NoLookup EXCEPT !.at = "run"] \in LookupType
BY DEF NoLookup, LookupType, Reading, None

\* The lookups that LookUp begins, with the runs as they are.
LEMMA LookUpSees ==
  ASSUME TrafficTyped, NEW domains, NEW state, LookUp(domains, state),
         UNCHANGED <<runs, joined>>, \A d \in Domain : Seen(d)
  PROVE  lookup' \in [Domain -> LookupType] /\ \A d \in Domain : Seen(d)'
<1>1. lookup' = [d \in Domain |-> IF d \in domains THEN [NoLookup EXCEPT !.at = "run"] ELSE lookup[d]]
  BY DEF LookUp
<1>2. lookup' \in [Domain -> LookupType]
  BY <1>1, FreshTyped DEF TrafficTyped
<1>3. ASSUME NEW d \in Domain PROVE Seen(d)'
  <2>1. CASE d \in domains
    <3>1. lookup'[d] = [NoLookup EXCEPT !.at = "run"]
      BY <1>1, <2>1
    <3>2. joined'[d] <= Len(runs'[d])
      BY DEF Seen
    <3> QED BY <3>1, <3>2, SeenFresh
  <2>2. CASE d \notin domains
    <3>1. lookup'[d] = lookup[d] /\ joined'[d] = joined[d] /\ runs'[d] = runs[d]
      BY <1>1, <2>2
    <3> QED BY <3>1 DEF Seen
  <2> QED BY <2>1, <2>2
<1> QED BY <1>2, <1>3

\* What the service has when it has ingested a request, and the lookups of it.
LEMMA IngestSees ==
  ASSUME TrafficTyped, Ingest,
         \/ lookup' = lookup /\ lookup = [d \in Domain |-> NoLookup]
         \/ /\ lookup = [d \in Domain |-> NoLookup]
            /\ \E domains, state : LookUp(domains, state)
  PROVE  /\ runs' \in [Domain -> Seq(RunState)] /\ joined' \in [Domain -> Nat]
         /\ lookup' \in [Domain -> LookupType]
         /\ \A d \in Domain : Seen(d)'
<1>1. PICK after \in [Domain -> UNION {Ingested(runs[d], ask.refresh) \cup {runs[d]} : d \in Domain}] :
         /\ \A d \in Domain : after[d] \in IF d \in Asked THEN Ingested(runs[d], ask.refresh) ELSE {runs[d]}
         /\ runs' = after
  BY DEF Ingest
<1>2. \A d \in Domain : runs'[d] \in Seq(RunState)
  <2> SUFFICES ASSUME NEW d \in Domain PROVE runs'[d] \in Seq(RunState)
    OBVIOUS
  <2>1. runs[d] \in Seq(RunState) /\ "active" \in RunState
    BY DEF TrafficTyped, RunState
  <2>2. Append(runs[d], "active") \in Seq(RunState)
    BY <2>1
  <2>3. runs'[d] \in Ingested(runs[d], ask.refresh) \cup {runs[d]}
    BY <1>1
  <2>4. Ingested(runs[d], ask.refresh) \subseteq {runs[d], Append(runs[d], "active")}
    BY DEF Ingested
  <2> QED BY <2>1, <2>2, <2>3, <2>4
<1>3. runs' \in [Domain -> Seq(RunState)]
  BY <1>1, <1>2
<1>4. joined' = [d \in Domain |-> IF d \in Asked THEN Len(runs'[d]) ELSE 0]
  BY DEF Ingest
<1>5. \A d \in Domain : joined'[d] \in Nat /\ joined'[d] <= Len(runs'[d]) /\ Len(runs'[d]) \in Nat
  BY <1>2, <1>4
<1>6. \A d \in Domain : lookup'[d] = NoLookup \/ lookup'[d] = [NoLookup EXCEPT !.at = "run"]
  BY DEF LookUp
<1>7. lookup' \in [Domain -> LookupType]
  <2>1. lookup' = [d \in Domain |-> lookup'[d]]
    BY DEF LookUp
  <2> QED BY <2>1, <1>6, FreshTyped
<1>8. joined' \in [Domain -> Nat]
  BY <1>4, <1>5
<1> QED BY <1>3, <1>5, <1>6, <1>7, <1>8, SeenFresh

-----------------------------------------------------------------------------
LEMMA InitTraffic == Init /\ TrafficInit => TrafficInv
<1> SUFFICES ASSUME Init, TrafficInit PROVE TrafficInv
  OBVIOUS
<1>1. \A d \in Domain : runs[d] = <<>> /\ joined[d] = 0 /\ lookup[d] = NoLookup
  BY DEF TrafficInit
<1>2. TrafficTyped
  <2>1. ask \in AskType
    BY DEF TrafficInit, NoAsk, AskType
  <2>2. <<>> \in Seq(RunState)
    OBVIOUS
  <2> QED BY <2>1, <2>2, FreshTyped DEF TrafficTyped, TrafficInit, Init
<1>3. TrafficStages
  BY DEF TrafficStages, TrafficInit, Init, NoAsk, None
<1>4. \A d \in Domain : Seen(d)
  <2>1. \A d \in Domain : joined[d] <= Len(runs[d])
    BY <1>1
  <2> QED BY <1>1, <2>1 DEF Seen, NoLookup, None
<1>5. TrafficAnswerIsCurrent
  BY DEF TrafficAnswerIsCurrent, TrafficInit, NoAsk, None
<1> QED BY <1>2, <1>3, <1>4, <1>5 DEF TrafficInv

\* The calls of the other adapter leave those of this one alone.
LEMMA OtherCalls == TrafficInv /\ Next /\ UNCHANGED trafficVars => TrafficInv'
<1> SUFFICES ASSUME TrafficInv, Next, UNCHANGED trafficVars PROVE TrafficInv'
  OBVIOUS
<1>u. UNCHANGED <<runs, ask, left, lookup, deadline, joined>>
  BY DEF trafficVars
<1>s. (\A d \in Domain : Seen(d)) => (\A d \in Domain : Seen(d)')
  BY <1>u DEF Seen
<1>1. CASE Tick
  <2>1. pc \notin {"idle", "done"} /\ now' = now + 1 /\ UNCHANGED <<kind, pc, result, aborted>>
    BY <1>1 DEF Tick
  <2>2. TrafficTyped'
    BY <2>1, <1>u DEF TrafficInv, TrafficTyped
  <2>3. TrafficStages'
    BY <2>1, <1>u DEF TrafficInv, TrafficStages, Asked
  <2>4. TrafficAnswerIsCurrent'
    BY <2>1 DEF TrafficAnswerIsCurrent
  <2> QED BY <2>2, <2>3, <2>4, <1>s DEF TrafficInv
<1>2. CASE ~Tick
  <2>0. TrafficStages
    BY DEF TrafficInv
  <2>1. /\ kind # "traffic" /\ kind' # "traffic" /\ now' = now
        /\ pc' \notin {"idle", "submit", "lookup", "details", "pause"}
    <3>1. CASE ScrapeStart \/ ProbeStart
      BY <3>1, <2>0 DEF ScrapeStart, ProbeStart, Send, TrafficStages, None
    <3>2. CASE Abort
      BY <3>2, <2>0 DEF Abort, TrafficStages, None
    <3>3. CASE ScrapeFirst
      BY <3>3, <2>0 DEF ScrapeFirst, Send, Return, TrafficStages
    <3>4. CASE ScrapeSecond
      BY <3>4, <2>0 DEF ScrapeSecond, Return, TrafficStages
    <3>5. CASE ProbeAnswers
      <4>1. pc' \in {"reprobe", "gather", "post"}
        BY <3>5 DEF ProbeAnswers, AfterProbe, Gather, Send
      <4> QED BY <4>1, <3>5, <2>0 DEF ProbeAnswers, TrafficStages
    <3>6. CASE CatalogRound
      BY <3>6, <2>0 DEF CatalogRound, TrafficStages
    <3>7. CASE SitemapAnswers
      BY <3>7, <2>0 DEF SitemapAnswers, TrafficStages
    <3>8. CASE Gathered
      BY <3>8, <2>0 DEF Gathered, Send, Return, TrafficStages
    <3>9. CASE PostAnswers
      BY <3>9, <2>0 DEF PostAnswers, Return, TrafficStages
    <3> QED BY <1>2, <3>1, <3>2, <3>3, <3>4, <3>5, <3>6, <3>7, <3>8, <3>9 DEF Next
  <2>2. TrafficTyped'
    BY <2>1, <1>u DEF TrafficInv, TrafficTyped
  <2>3. ask'.route = None
    BY <2>0, <2>1, <1>u DEF TrafficStages
  <2>4. TrafficStages'
    BY <2>0, <2>1, <2>3, <1>u DEF TrafficStages, None
  <2>5. TrafficAnswerIsCurrent'
    BY <2>3 DEF TrafficAnswerIsCurrent, None
  <2> QED BY <2>2, <2>4, <2>5, <1>s DEF TrafficInv
<1> QED BY <1>1, <1>2

\* A request arrives.
LEMMA ArrivalInv ==
  ASSUME TrafficInv, NEW request \in AskType, Arrives(request),
         request.route \in {"post", "get", "bulk"},
         request.route = "post" => \A d, e \in ToSet(request.inputs) \cap Domain : d = e,
         \/ Send("submit", Timeout) /\ UNCHANGED <<left, lookup, result>>
         \/ /\ request.route = "get"
            /\ \E domains : LookUp(domains, IF request.details THEN "details" ELSE "lookup")
  PROVE  TrafficInv'
<1>1. /\ pc = "idle" /\ kind' = "traffic" /\ ask' = request
      /\ UNCHANGED <<now, aborted, deadline, joined>>
  BY DEF Arrives
<1>2. /\ joined' = [d \in Domain |-> 0] /\ lookup = [d \in Domain |-> NoLookup]
  BY <1>1 DEF TrafficInv, TrafficStages
<1>3. runs' \in [Domain -> Seq(RunState)]
  <2>1. PICK past \in [Asked' -> Past] : runs' = [d \in Domain |-> IF d \in Asked' THEN past[d] ELSE runs[d]]
    BY DEF Arrives
  <2>2. Past \subseteq Seq(RunState)
    <3>1. <<>> \in Seq(RunState) /\ <<"failed">> \in Seq(RunState) /\ <<"completed">> \in Seq(RunState)
      BY DEF RunState
    <3> QED BY <3>1 DEF Past
  <2>3. \A d \in Domain : runs[d] \in Seq(RunState)
    BY DEF TrafficInv, TrafficTyped
  <2>4. \A d \in Asked' : past[d] \in Seq(RunState)
    BY <2>1, <2>2
  <2> QED BY <2>1, <2>3, <2>4
<1>4. \A d \in Domain : lookup'[d] = NoLookup \/ lookup'[d] = [NoLookup EXCEPT !.at = "run"]
  BY <1>2 DEF LookUp
<1>5. lookup' \in [Domain -> LookupType]
  <2>1. lookup' = [d \in Domain |-> lookup'[d]]
    BY <1>2 DEF LookUp
  <2> QED BY <2>1, <1>4, FreshTyped
<1>6. \A d \in Domain : Seen(d)'
  <2>1. \A d \in Domain : joined'[d] <= Len(runs'[d])
    BY <1>2, <1>3
  <2> QED BY <2>1, <1>4, SeenFresh
<1>7. TrafficTyped'
  <2>1. now' \in Nat /\ deadline' \in Nat
    BY <1>1 DEF TrafficInv, TrafficTyped
  <2>2. joined' \in [Domain -> Nat]
    BY <1>2
  <2> QED BY <2>1, <2>2, <1>1, <1>3, <1>5 DEF TrafficTyped
<1>8. /\ pc' \in {"submit", "lookup", "details"}
      /\ pc' = "submit" => lookup' = [d \in Domain |-> NoLookup]
      /\ pc' = "details" => request.details = TRUE
  BY <1>2 DEF LookUp, Send, AskType
<1>9. TrafficStages'
  <2>1. ask'.route = "post" => \A d, e \in Asked' : d = e
    BY <1>1 DEF Asked
  <2>2. ask'.route # None
    BY <1>1 DEF None
  <2> QED BY <2>1, <2>2, <1>1, <1>2, <1>8 DEF TrafficStages
<1>10. TrafficAnswerIsCurrent'
  BY <1>8 DEF TrafficAnswerIsCurrent
<1> QED BY <1>6, <1>7, <1>9, <1>10 DEF TrafficInv

\* The service goes on with a domain's runs.
LEMMA RunsInv == ASSUME TrafficInv, NEW d \in Domain, RunEnds(d) \/ OtherSubmits(d) PROVE TrafficInv'
<1>1. UNCHANGED <<now, kind, pc, aborted, result, ask, left, lookup, deadline, joined>> /\ pc # "done"
  BY DEF RunEnds, OtherSubmits, vars
<1>2. runs[d] \in Seq(RunState) /\ \A e \in Domain : runs[e] \in Seq(RunState)
  BY DEF TrafficInv, TrafficTyped
<1>3. PICK r : r = runs'[d]
  OBVIOUS
<1>4. /\ runs' = [runs EXCEPT ![d] = r] /\ r \in Seq(RunState) /\ Len(r) >= Len(runs[d])
      /\ \A n \in 1..Len(runs[d]) : runs[d][n] = "completed" => r[n] = "completed"
  <2>1. CASE RunEnds(d)
    <3>1. PICK end \in {"completed", "failed"} : runs' = [runs EXCEPT ![d][Len(runs[d])] = end]
      BY <2>1 DEF RunEnds
    <3>2. runs[d] # <<>> /\ runs[d][Len(runs[d])] = "active"
      BY <2>1 DEF RunEnds, ActiveRun, Last
    <3>3. r = [runs[d] EXCEPT ![Len(runs[d])] = end]
      BY <3>1, <1>3 DEF TrafficInv, TrafficTyped
    <3>4. r \in Seq(RunState) /\ Len(r) = Len(runs[d])
      <4>1. runs[d] \in [1..Len(runs[d]) -> RunState] /\ Len(runs[d]) \in Nat
        BY <1>2
      <4>2. r \in [1..Len(runs[d]) -> RunState]
        BY <3>1, <3>3, <4>1 DEF RunState
      <4> QED BY <4>1, <4>2
    <3>5. \A n \in 1..Len(runs[d]) : runs[d][n] = "completed" => r[n] = "completed"
      BY <3>2, <3>3, <1>2
    <3>6. runs' = [runs EXCEPT ![d] = r]
      BY <3>1, <3>3
    <3> QED BY <3>4, <3>5, <3>6, <1>2
  <2>2. CASE OtherSubmits(d)
    <3>1. runs' = [runs EXCEPT ![d] = Append(runs[d], "active")]
      BY <2>2 DEF OtherSubmits
    <3>2. r = Append(runs[d], "active")
      BY <3>1, <1>3 DEF TrafficInv, TrafficTyped
    <3> QED BY <3>1, <3>2, <1>2 DEF RunState
  <2> QED BY <2>1, <2>2
<1>5. TrafficTyped'
  BY <1>1, <1>4 DEF TrafficInv, TrafficTyped
<1>6. TrafficStages'
  BY <1>1 DEF TrafficInv, TrafficStages, Asked
<1>7. TrafficAnswerIsCurrent'
  BY <1>1 DEF TrafficAnswerIsCurrent
<1>8. ASSUME NEW e \in Domain PROVE Seen(e)'
  <2>0. Seen(e) /\ TrafficTyped
    BY DEF TrafficInv
  <2>1. runs'[e] = IF e = d THEN r ELSE runs[e]
    BY <1>4 DEF TrafficInv, TrafficTyped
  <2>2. Len(runs'[e]) >= Len(runs[e])
    <3>1. Len(runs[e]) \in Nat
      BY <1>2
    <3> QED BY <3>1, <2>1, <1>4
  <2>3. \A n \in 1..Len(runs[e]) : runs[e][n] = "completed" => runs'[e][n] = "completed"
    BY <2>1, <1>4
  <2>4. UNCHANGED <<lookup, joined>>
    BY <1>1
  <2> QED BY <2>0, <2>2, <2>3, <2>4, <1>5, SeenLasts
<1> QED BY <1>5, <1>6, <1>7, <1>8 DEF TrafficInv

\* A lookup reads on, while the runs may have gone on since it began.
LEMMA LookupInv == ASSUME TrafficInv, NEW d \in Domain, LookupReads(d) PROVE TrafficInv'
<1>1. UNCHANGED <<now, kind, pc, aborted, result, runs, ask, left, deadline, joined>> /\ pc \in {"lookup", "details"}
  BY DEF LookupReads
<1> DEFINE r == runs[d] e == EstimateOf(runs[d])
<1>2. PICK v : v = lookup[d]
  OBVIOUS
<1>3. PICK w : w = lookup'[d]
  OBVIOUS
<1>4. /\ v \in LookupType /\ r \in Seq(RunState) /\ Len(r) \in Nat /\ joined[d] \in Nat /\ Seen(d)
      /\ v.run \in Nat
  BY <1>2 DEF TrafficInv, TrafficTyped, LookupType
<1>5. e \in Nat /\ \A n \in 1..Len(r) : r[n] = "completed" => e >= n
  BY <1>4, LatestEstimate
<1> HIDE DEF e
<1>6. /\ lookup' = [lookup EXCEPT ![d] = w] /\ v.at \in Reading
      /\ v.at = "run" => w = [v EXCEPT !.at = IF r = <<>> THEN "missing" ELSE "state", !.run = Len(r)]
      /\ v.at = "state" => w = [v EXCEPT !.at = "estimate", !.state = r[v.run]]
      /\ v.at = "estimate" => w = [v EXCEPT !.at = IF pc = "details" /\ e # 0 THEN "full" ELSE "answered",
                                            !.estimate = e]
      /\ v.at = "full" => w = [v EXCEPT !.at = "answered", !.estimate = e]
  <2> DEFINE x == CASE v.at = "run"      -> [v EXCEPT !.at = IF r = <<>> THEN "missing" ELSE "state", !.run = Len(r)]
                    [] v.at = "state"    -> [v EXCEPT !.at = "estimate", !.state = r[v.run]]
                    [] v.at = "estimate" -> [v EXCEPT !.at = IF pc = "details" /\ e # 0 THEN "full" ELSE "answered",
                                                      !.estimate = e]
                    [] v.at = "full"     -> [v EXCEPT !.at = "answered", !.estimate = e]
  <2>1. lookup' = [lookup EXCEPT ![d] = x] /\ v.at \in Reading
    BY <1>2 DEF LookupReads, e
  <2> HIDE DEF x
  <2>2. w = x
    BY <2>1, <1>3 DEF TrafficInv, TrafficTyped
  <2>3. CASE v.at = "run"
    BY <2>1, <2>2, <2>3 DEF x
  <2>4. CASE v.at = "state"
    BY <2>1, <2>2, <2>4 DEF x
  <2>5. CASE v.at = "estimate"
    BY <2>1, <2>2, <2>5 DEF x
  <2>6. CASE v.at = "full"
    BY <2>1, <2>2, <2>6 DEF x
  <2> QED BY <2>1, <2>3, <2>4, <2>5, <2>6 DEF Reading
<1>7. w \in LookupType /\ Seen(d)'
  <2>0. w = lookup'[d] /\ runs'[d] = r /\ joined'[d] = joined[d]
    BY <1>1, <1>3
  <2>s. /\ joined[d] <= Len(r)
        /\ v.at \in {"state", "estimate", "full", "answered"} => v.run \in 1..Len(r) /\ joined[d] <= v.run
        /\ v.at \in {"estimate", "full", "answered"} =>
             v.state \in RunState /\ (v.state = "completed" => r[v.run] = "completed")
        /\ v.at \notin {"estimate", "full", "answered"} => v.state = None
        /\ v.at \notin {"full", "answered"} => v.estimate = 0
        /\ v.at \in {"full", "answered"} /\ v.state = "completed" => v.estimate >= v.run
    BY <1>2, <1>4 DEF Seen
  <2>1. CASE v.at = "run"
    <3>1. w.at \in {"missing", "state"} /\ w.run = Len(r) /\ w.state = v.state /\ w.estimate = v.estimate /\ w \in LookupType
      BY <2>1, <1>4, <1>6 DEF LookupType, Reading
    <3>2. w.at = "state" => r # <<>>
      BY <2>1, <1>4, <1>6 DEF LookupType
    <3> QED BY <3>1, <3>2, <2>0, <2>s, <2>1, <1>4 DEF Seen
  <2>2. CASE v.at = "state"
    <3>1. r[v.run] \in RunState
      BY <2>2, <2>s, <1>4
    <3>2. w.at = "estimate" /\ w.run = v.run /\ w.state = r[v.run] /\ w.estimate = v.estimate /\ w \in LookupType
      BY <3>1, <2>2, <1>4, <1>6 DEF LookupType, Reading
    <3> QED BY <3>1, <3>2, <2>0, <2>s, <2>2, <1>4 DEF Seen
  <2>3. CASE v.at \in {"estimate", "full"}
    <3>1. w.at \in {"full", "answered"} /\ w.run = v.run /\ w.state = v.state /\ w.estimate = e /\ w \in LookupType
      BY <2>3, <1>4, <1>5, <1>6 DEF LookupType, Reading
    <3>2. v.state = "completed" => e >= v.run
      BY <2>3, <2>s, <1>5
    <3> QED BY <3>1, <3>2, <2>0, <2>s, <2>3, <1>4 DEF Seen
  <2> QED BY <2>1, <2>2, <2>3, <1>6 DEF Reading
<1>8. TrafficTyped'
  BY <1>1, <1>6, <1>7 DEF TrafficInv, TrafficTyped
<1>9. TrafficStages'
  BY <1>1 DEF TrafficInv, TrafficStages, Asked
<1>10. TrafficAnswerIsCurrent'
  BY <1>1 DEF TrafficAnswerIsCurrent
<1>11. ASSUME NEW f \in Domain PROVE Seen(f)'
  <2>1. CASE f = d
    BY <2>1, <1>7
  <2>2. CASE f # d
    <3>1. lookup'[f] = lookup[f] /\ runs'[f] = runs[f] /\ joined'[f] = joined[f]
      BY <2>2, <1>1, <1>6 DEF TrafficInv, TrafficTyped
    <3> QED BY <3>1 DEF Seen, TrafficInv
  <2> QED BY <2>1, <2>2
<1> QED BY <1>8, <1>9, <1>10, <1>11 DEF TrafficInv

\* The service has ingested what was asked, and lookups begin, or the request is
\* answered without a 200.
LEMMA SubmitInv ==
  ASSUME TrafficInv, pc = "submit", Ingest, UNCHANGED <<now, kind, aborted, ask, deadline>>,
         \/ \E domains : LookUp(domains, "lookup")
         \/ lookup' = lookup /\ pc' = "done" /\ (ask.route = "post" => result' \notin {"200", "202"})
  PROVE  TrafficInv'
<1>1. TrafficTyped /\ lookup = [d \in Domain |-> NoLookup]
  BY DEF TrafficInv, TrafficStages
<1>2. /\ runs' \in [Domain -> Seq(RunState)] /\ joined' \in [Domain -> Nat]
      /\ lookup' \in [Domain -> LookupType] /\ \A d \in Domain : Seen(d)'
  BY <1>1, IngestSees
<1>3. pc' \in {"lookup", "done"} /\ (pc' = "done" /\ ask'.route = "post" => result' \notin {"200", "202"})
  BY DEF LookUp, Send
<1>4. TrafficTyped'
  BY <1>1, <1>2 DEF TrafficTyped
<1>5. TrafficStages'
  BY <1>3 DEF TrafficInv, TrafficStages, Asked
<1>6. TrafficAnswerIsCurrent'
  BY <1>3 DEF TrafficAnswerIsCurrent
<1> QED BY <1>2, <1>4, <1>5, <1>6 DEF TrafficInv

\* The request goes on with other lookups, waits, or is answered in a way that
\* TrafficAnswerIsCurrent says nothing of.
LEMMA OnwardInv ==
  ASSUME TrafficInv, pc \in {"submit", "lookup", "details", "pause"},
         UNCHANGED <<now, kind, aborted, runs, ask, joined>>, deadline' \in Nat,
         \/ \E domains : LookUp(domains, "lookup")
         \/ ask.details = TRUE /\ \E domains : LookUp(domains, "details")
         \/ lookup' = lookup /\ pc' = "pause"
         \/ lookup' = lookup /\ pc' = "done" /\ TrafficAnswerIsCurrent'
  PROVE  TrafficInv'
<1>1. TrafficTyped /\ \A d \in Domain : Seen(d)
  BY DEF TrafficInv
<1>2. lookup' \in [Domain -> LookupType] /\ \A d \in Domain : Seen(d)'
  <2>1. CASE lookup' = lookup
    BY <2>1, <1>1 DEF TrafficTyped, Seen
  <2>2. CASE \E domains, state : LookUp(domains, state)
    BY <2>2, <1>1, LookUpSees
  <2> QED BY <2>1, <2>2
<1>3. /\ pc' \in {"lookup", "details", "pause", "done"}
      /\ pc' = "details" => ask.details = TRUE
      /\ pc' = "done" => TrafficAnswerIsCurrent'
  BY DEF LookUp, Send
<1>4. TrafficTyped'
  BY <1>1, <1>2 DEF TrafficTyped
<1>5. TrafficStages'
  BY <1>3 DEF TrafficInv, TrafficStages, Asked
<1>6. TrafficAnswerIsCurrent'
  BY <1>3 DEF TrafficAnswerIsCurrent
<1> QED BY <1>2, <1>4, <1>5, <1>6 DEF TrafficInv

\* A settled state is an estimate that is no older than the run the request
\* joined, or the latest run seen failed.
LEMMA SettledIsCurrent ==
  ASSUME NEW d \in Domain, TrafficTyped, Seen(d), lookup[d].at \notin Reading, Settled(lookup[d])
  PROVE  \/ lookup[d].estimate >= joined[d] /\ lookup[d].estimate >= 1
         \/ lookup[d].state = "failed"
<1>1. PICK v : v = lookup[d]
  OBVIOUS
<1>2. v \in LookupType /\ v.estimate \in Nat /\ v.run \in Nat /\ v.at \in {None, "missing", "answered"} /\ joined[d] \in Nat
  BY <1>1 DEF TrafficTyped, LookupType, Reading
<1>3. CASE v.at # "answered"
  <2>1. v.state = None /\ v.estimate = 0
    BY <1>1, <1>2, <1>3 DEF Seen, None
  <2> QED BY <1>1, <2>1 DEF Settled, Status, None
<1>4. CASE v.at = "answered"
  <2>1. /\ v.run \in 1..Len(runs[d]) /\ joined[d] <= v.run
        /\ v.state \in RunState /\ (v.state = "completed" => v.estimate >= v.run)
    BY <1>1, <1>4 DEF Seen
  <2>2. v.state # "failed" => v.estimate # 0 /\ v.state # "active"
    BY <1>1 DEF Settled, Status, Refreshing
  <2> QED BY <1>1, <1>2, <2>1, <2>2 DEF RunState
<1> QED BY <1>3, <1>4

\* The answer to a POST.
LEMMA PostInv == TrafficInv /\ PostLookedUp => TrafficInv'
<1> SUFFICES ASSUME TrafficInv, PostLookedUp PROVE TrafficInv'
  OBVIOUS
<1>t. TrafficTyped /\ TrafficStages /\ now \in Nat /\ deadline \in Nat
  BY DEF TrafficInv, TrafficTyped
<1>1. /\ ask.route = "post" /\ LookedUp /\ pc \in {"lookup", "details"}
      /\ UNCHANGED <<now, kind, aborted, runs, ask, joined>>
  BY DEF PostLookedUp, LookedUp
<1>2. PICK d \in Asked, until \in Nat, goOn \in BOOLEAN :
        /\ until = IF deadline = 0 THEN now + Wait ELSE deadline
        /\ goOn <=> pc = "lookup" /\ ask.wait /\ ~Settled(lookup[d]) /\ now < until /\ ~aborted
        /\ deadline' = IF ask.wait /\ pc = "lookup" THEN until ELSE deadline
        /\ \/ goOn /\ Send("pause", Poll) /\ UNCHANGED <<left, lookup, result>>
           \/ ~goOn /\ pc = "lookup" /\ ask.details /\ LookUp({d}, "details") /\ UNCHANGED left
           \/ ~goOn /\ ~(pc = "lookup" /\ ask.details) /\ Reply(IF Settled(lookup[d]) THEN "200" ELSE "202")
  <2>1. (IF deadline = 0 THEN now + Wait ELSE deadline) \in Nat
    BY <1>t, TrafficAssumption DEF TrafficAssumption
  <2> QED BY <2>1 DEF PostLookedUp
<1>3. d \in Domain /\ ask'.details = ask.details /\ ask'.wait = ask.wait /\ \A e \in Asked : e = d
  BY <1>1, <1>2, <1>t DEF Asked, TrafficStages
<1>4. deadline' \in Nat /\ ask.details \in BOOLEAN /\ ask.wait \in BOOLEAN
  BY <1>2, <1>t DEF TrafficTyped, AskType
<1>5. CASE goOn
  <2>1. lookup' = lookup /\ pc' = "pause"
    BY <1>2, <1>5 DEF Send
  <2> QED BY <2>1, <1>1, <1>4, OnwardInv
<1>6. CASE ~goOn /\ pc = "lookup" /\ ask.details
  <2>1. ask.details = TRUE /\ LookUp({d}, "details")
    BY <1>2, <1>4, <1>6
  <2> QED BY <2>1, <1>1, <1>4, OnwardInv
<1>7. CASE ~goOn /\ ~(pc = "lookup" /\ ask.details)
  <2>1. lookup' = lookup /\ pc' = "done" /\ result' = IF Settled(lookup[d]) THEN "200" ELSE "202"
    BY <1>2, <1>7 DEF Reply, Return
  <2>2. result' = "200" => \A e \in Asked :
          lookup[e].estimate >= (IF ask.refresh THEN joined[e] ELSE 1) \/ lookup[e].state = "failed"
    <3> SUFFICES ASSUME result' = "200", NEW e \in Asked
                 PROVE lookup[e].estimate >= (IF ask.refresh THEN joined[e] ELSE 1) \/ lookup[e].state = "failed"
      OBVIOUS
    <3>1. e = d /\ Settled(lookup[d])
      BY <1>3, <2>1
    <3>2. lookup[d].at \notin Reading /\ Seen(d)
      BY <1>1, <1>3 DEF LookedUp, TrafficInv
    <3> QED BY <3>1, <3>2, <1>3, <1>t, SettledIsCurrent
  <2>3. result' = "202" /\ ask.wait /\ ~ask.details => now >= deadline' \/ aborted
    <3> SUFFICES ASSUME result' = "202", ask.wait, ~ask.details, ~aborted PROVE now >= deadline'
      OBVIOUS
    <3>1. pc = "lookup" /\ ~Settled(lookup[d])
      BY <1>1, <1>t, <2>1 DEF TrafficStages
    <3>2. ~(now < until) /\ deadline' = until
      BY <3>1, <1>2, <1>7
    <3> QED BY <3>2, <1>t
  <2>4. TrafficAnswerIsCurrent'
    BY <2>1, <2>2, <2>3, <1>1 DEF TrafficAnswerIsCurrent, Asked
  <2> QED BY <2>1, <2>4, <1>1, <1>4, OnwardInv
<1> QED BY <1>5, <1>6, <1>7, <1>4

LEMMA NextTraffic ==
  TrafficInv /\ [(Next /\ UNCHANGED trafficVars) \/ TrafficNext]_<<vars, trafficVars>> => TrafficInv'
<1> SUFFICES ASSUME TrafficInv, [(Next /\ UNCHANGED trafficVars) \/ TrafficNext]_<<vars, trafficVars>>
             PROVE  TrafficInv'
  OBVIOUS
<1>t. TrafficTyped /\ TrafficStages
  BY DEF TrafficInv
<1>1. CASE Next /\ UNCHANGED trafficVars
  BY <1>1, OtherCalls
<1>2. CASE PostArrives
  <2>1. PICK input \in Domain \cup {Invalid}, refresh \in BOOLEAN, wait \in BOOLEAN, details \in BOOLEAN :
          /\ Arrives([route |-> "post", inputs |-> <<input>>, refresh |-> refresh, wait |-> wait, details |-> details])
          /\ Send("submit", Timeout) /\ UNCHANGED <<left, lookup, result>>
    BY <1>2 DEF PostArrives
  <2>2. PICK request : request = [route |-> "post", inputs |-> <<input>>, refresh |-> refresh, wait |-> wait,
                                  details |-> details]
    OBVIOUS
  <2>3. request \in AskType /\ request.route = "post" /\ request.inputs = <<input>>
    BY <2>2 DEF AskType
  <2>4. \A d, e \in ToSet(request.inputs) \cap Domain : d = e
    BY <2>3 DEF ToSet
  <2> QED BY <2>1, <2>2, <2>3, <2>4, ArrivalInv
<1>3. CASE BulkArrives
  <2>1. PICK one \in Domain \cup {Invalid}, two \in Domain \cup {Invalid}, refresh \in BOOLEAN :
          /\ Arrives([NoAsk EXCEPT !.route = "bulk", !.inputs = <<one, two>>, !.refresh = refresh])
          /\ Send("submit", Timeout) /\ UNCHANGED <<left, lookup, result>>
    BY <1>3 DEF BulkArrives
  <2>2. PICK request : request = [NoAsk EXCEPT !.route = "bulk", !.inputs = <<one, two>>, !.refresh = refresh]
    OBVIOUS
  <2>3. request \in AskType /\ request.route = "bulk"
    <3>1. request = [route |-> "bulk", inputs |-> <<one, two>>, refresh |-> refresh, wait |-> FALSE, details |-> FALSE]
      BY <2>2 DEF NoAsk
    <3>2. <<one, two>> \in Seq(Domain \cup {Invalid})
      OBVIOUS
    <3> QED BY <3>1, <3>2 DEF AskType
  <2> QED BY <2>1, <2>2, <2>3, ArrivalInv
<1>4. CASE GetArrives
  <2>1. PICK input \in Domain \cup {Invalid}, details \in BOOLEAN :
          /\ Arrives([NoAsk EXCEPT !.route = "get", !.inputs = <<input>>, !.details = details])
          /\ LookUp({input} \cap Domain, IF details THEN "details" ELSE "lookup")
    BY <1>4 DEF GetArrives
  <2>2. PICK request : request = [NoAsk EXCEPT !.route = "get", !.inputs = <<input>>, !.details = details]
    OBVIOUS
  <2>3. request \in AskType /\ request.route = "get" /\ request.details = details
    <3>1. request = [route |-> "get", inputs |-> <<input>>, refresh |-> FALSE, wait |-> FALSE, details |-> details]
      BY <2>2 DEF NoAsk
    <3>2. <<input>> \in Seq(Domain \cup {Invalid})
      OBVIOUS
    <3> QED BY <3>1, <3>2 DEF AskType
  <2>4. Arrives(request) /\ \E domains : LookUp(domains, IF request.details THEN "details" ELSE "lookup")
    BY <2>1, <2>2, <2>3
  <2> QED BY <2>3, <2>4, ArrivalInv
<1>5. CASE SubmitAnswered
  <2>1. pc = "submit" /\ Ingest /\ UNCHANGED <<now, kind, aborted, ask, deadline>>
    BY <1>5 DEF SubmitAnswered
  <2>2. \/ \E domains : LookUp(domains, "lookup")
        \/ lookup' = lookup /\ pc' = "done" /\ (ask.route = "post" => result' = "400")
    BY <1>5 DEF SubmitAnswered, LookUpSome, Reply, Return
  <2> QED BY <2>1, <2>2, SubmitInv
<1>6. CASE BulkLookedUp
  <2>1. /\ pc \in {"lookup", "details"} /\ UNCHANGED <<now, kind, aborted, runs, ask, joined, deadline>>
        /\ ask'.route = "bulk" /\ deadline' \in Nat
    BY <1>6, <1>t DEF BulkLookedUp, LookedUp, TrafficTyped
  <2>2. \/ \E domains : LookUp(domains, "lookup")
        \/ lookup' = lookup /\ pc' = "done"
    BY <1>6 DEF BulkLookedUp, LookUpSome, Reply, Return
  <2>3. TrafficAnswerIsCurrent'
    BY <2>1 DEF TrafficAnswerIsCurrent
  <2> QED BY <2>1, <2>2, <2>3, OnwardInv
<1>7. CASE GetLookedUp
  <2>1. /\ pc \in {"lookup", "details"} /\ UNCHANGED <<now, kind, aborted, runs, ask, joined, deadline>>
        /\ ask'.route = "get" /\ deadline' \in Nat /\ lookup' = lookup /\ pc' = "done"
    BY <1>7, <1>t DEF GetLookedUp, LookedUp, TrafficTyped, Reply, Return
  <2>2. TrafficAnswerIsCurrent'
    BY <2>1 DEF TrafficAnswerIsCurrent
  <2> QED BY <2>1, <2>2, OnwardInv
<1>8. CASE PostLookedUp
  BY <1>8, PostInv
<1>9. CASE PauseEnds
  <2>1. /\ pc = "pause" /\ UNCHANGED <<now, kind, aborted, runs, ask, joined>> /\ deadline' \in Nat
        /\ \E domains : LookUp(domains, "lookup")
    BY <1>9, <1>t DEF PauseEnds, TrafficTyped
  <2> QED BY <2>1, OnwardInv
<1>10. CASE ServiceFails
  <2>1. /\ pc \in {"submit", "lookup", "details"} /\ UNCHANGED <<now, kind, aborted, ask, deadline>>
        /\ lookup' = lookup /\ pc' = "done" /\ result' = "503"
        /\ \/ pc = "submit" /\ Ingest
           \/ UNCHANGED <<runs, joined>>
    BY <1>10 DEF ServiceFails, Reply, Return
  <2>2. CASE pc = "submit" /\ Ingest
    BY <2>1, <2>2, SubmitInv
  <2>3. CASE UNCHANGED <<runs, joined>>
    <3>1. TrafficAnswerIsCurrent' /\ deadline' \in Nat
      BY <2>1, <1>t DEF TrafficAnswerIsCurrent, TrafficTyped
    <3> QED BY <3>1, <2>1, <2>3, OnwardInv
  <2> QED BY <2>1, <2>2, <2>3
<1>11. CASE ClientLeaves \/ UNCHANGED <<vars, trafficVars>>
  <2>1. /\ UNCHANGED <<now, kind, pc, result, runs, ask, left, lookup, deadline, joined>>
        /\ aborted' = aborted \/ pc # "done"
    BY <1>11 DEF ClientLeaves, vars, trafficVars
  <2>2. TrafficTyped' /\ TrafficStages'
    BY <2>1, <1>t DEF TrafficTyped, TrafficStages, Asked
  <2>3. \A d \in Domain : Seen(d)'
    BY <2>1 DEF Seen, TrafficInv
  <2>4. TrafficAnswerIsCurrent'
    BY <2>1 DEF TrafficInv, TrafficAnswerIsCurrent, Asked
  <2> QED BY <2>2, <2>3, <2>4 DEF TrafficInv
<1>12. ASSUME NEW d \in Asked, LookupReads(d) \/ RunEnds(d) \/ OtherSubmits(d) PROVE TrafficInv'
  <2>1. d \in Domain
    BY DEF Asked
  <2> QED BY <2>1, <1>12, LookupInv, RunsInv
<1> QED
  BY <1>1, <1>2, <1>3, <1>4, <1>5, <1>6, <1>7, <1>8, <1>9, <1>10, <1>11, <1>12 DEF TrafficNext

\* A 200 to a POST is a final answer, for any number of domains, any times and
\* any number of runs that come and go while the lookup goes on: the latest run
\* is read before the estimate.
THEOREM TrafficAnswersCurrent == CallSpec => []TrafficAnswerIsCurrent
<1>1. TrafficInv => TrafficAnswerIsCurrent
  BY DEF TrafficInv
<1> QED BY InitTraffic, NextTraffic, <1>1, PTL DEF CallInit, CallSpec

===============================================================================
