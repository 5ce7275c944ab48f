----------------------------- MODULE EngineCalls -----------------------------
(***************************************************************************)
(* One call of the Firecrawl adapter: scrape with its two kinds of retry,  *)
(* and the start of a crawl or a map, which probes the start page, reads a *)
(* store's catalog and the sitemap in parallel, shares the page budget out *)
(* and posts.  Each request ends at its timeout at the latest; the clock   *)
(* does not pass a timeout that has not been handled.                      *)
(***************************************************************************)
EXTENDS PageResult

CONSTANTS
  ScrapeTimeout,  \* options.timeoutMs of a scrape
  Request,        \* requestTimeoutMs
  Probe,          \* CRAWL_PROBE_TIMEOUT_MS and the 5 s on top
  Catalog,        \* CATALOG_BUDGET_MS
  Fetch,          \* CATALOG_REQUEST_TIMEOUT_MS
  Grace,          \* what fetchJson's request may take beyond its timeout
  MinFetch,       \* fetchJson gives up when less is left
  Sitemap,        \* timeout of the sitemap request
  OrphanLimit,    \* CRAWL_START_ORPHAN_MS of the reconciler
  Size, Parallel, \* products in a catalog page, PARALLEL_PAGES
  Budgets,        \* max_pages of a crawl, limit of a map
  ShopSizes,      \* products a store may have
  OtherPages      \* pages of a site that are no products, as found by sitemap and links

Larger(a, b) == IF a >= b THEN a ELSE b
Smaller(a, b) == IF a <= b THEN a ELSE b
CeilDiv(a, b) == (a + b - 1) \div b

Gathering == Larger(Catalog + Grace, Sitemap)

ASSUME TimesAssumption ==
  /\ {ScrapeTimeout, Request, Probe, Catalog, Fetch, Grace, MinFetch, Sitemap, OrphanLimit} \subseteq Nat
  /\ 2 * Probe + Gathering + Request < OrphanLimit

ASSUME SizesAssumption ==
  /\ Size \in Nat \ {0} /\ Parallel \in Nat \ {0}
  /\ Budgets \subseteq Nat \ {0} /\ ShopSizes \subseteq Nat /\ OtherPages \subseteq Nat

VARIABLES
  now,
  kind,      \* scrape, crawl or map
  pc,        \* the request being waited for
  due,       \* when it times out
  first,     \* outcome of the first scrapeOnce
  last,      \* outcome of the latest one
  noWait,    \* options.waitForMs = 0
  aborted,   \* the caller's signal
  budget,    \* maxPages or limit
  catalog,   \* storeProducts
  sitemap,   \* sitemapUrls
  plan,      \* withProductShare: what there was, and what was taken
  result     \* what the call returned, or "thrown"

vars == <<now, kind, pc, due, first, last, noWait, aborted, budget, catalog, sitemap, plan, result>>

-----------------------------------------------------------------------------
\* What one scrapeOnce comes to.  "bounced": BOT_BOUNCE_ERROR; "thin" and
\* "empty": a page, or a failure, that asks for a retry with a render wait;
\* "bad": any other failed page; "thrown": the engine could not be reached.
Outcome == {"good", "thin", "bounced", "empty", "bad", "timeout", "interrupted", "thrown"}
Success == {"good", "thin"}
None == "none"

\* Some answer of the engine has that outcome; a request that timed out or was
\* aborted has none.
MayReturn(o) ==
  /\ o = "timeout" => now = due
  /\ o = "interrupted" => aborted
  /\ o \in PageOutcomes

NoCatalog == [active |-> FALSE, due |-> 0, deadline |-> 0, products |-> 0,
              page |-> 1, want |-> 0, found |-> 0, whole |-> TRUE]
NoSitemap == [active |-> FALSE, due |-> 0]
NoPlan == [products |-> 0, others |-> 0, takenProducts |-> 0, takenOthers |-> 0]

Init ==
  /\ now = 0 /\ pc = "idle" /\ due = 0 /\ kind = None
  /\ first = None /\ last = None /\ result = None
  /\ noWait = FALSE /\ aborted = FALSE
  /\ budget \in Budgets
  /\ catalog = NoCatalog /\ sitemap = NoSitemap /\ plan = NoPlan

\* Nothing is waited for beyond its timeout.
Tick ==
  /\ pc \notin {"idle", "done"}
  /\ pc # "gather" => now < due
  /\ pc = "gather" => catalog.active \/ sitemap.active
  /\ catalog.active => now < catalog.due
  /\ sitemap.active => now < sitemap.due
  /\ now' = now + 1
  /\ UNCHANGED <<kind, pc, due, first, last, noWait, aborted, budget, catalog, sitemap, plan, result>>

\* The request that is made now, to end within a time.
Send(state, timeout) == pc' = state /\ due' = now + timeout
Return(r) == pc' = "done" /\ result' = r /\ UNCHANGED due

-----------------------------------------------------------------------------
(* scrape.                                                                 *)

ScrapeStart ==
  /\ pc = "idle"
  /\ kind' = "scrape" /\ noWait' \in BOOLEAN
  /\ Send("first", ScrapeTimeout + Request)
  /\ UNCHANGED <<now, first, last, aborted, budget, catalog, sitemap, plan, result>>

\* The job was cancelled.
Abort ==
  /\ kind = "scrape" /\ pc # "done" /\ ~aborted
  /\ aborted' = TRUE
  /\ UNCHANGED <<now, kind, pc, due, first, last, noWait, budget, catalog, sitemap, plan, result>>

WantsNoJs(o) == o = "bounced" /\ ~aborted
WantsWait(o) == o \in {"thin", "empty"} /\ noWait /\ ~aborted

\* A bounced page is fetched again without JS, an empty one with a render wait.
ScrapeFirst ==
  /\ pc = "first"
  /\ \E o \in Outcome :
       /\ MayReturn(o)
       /\ first' = o /\ last' = o
       /\ \/ WantsNoJs(o) /\ Send("noJs", ScrapeTimeout + Request) /\ UNCHANGED result
          \/ WantsWait(o) /\ Send("wait", ScrapeTimeout + Request) /\ UNCHANGED result
          \/ ~WantsNoJs(o) /\ ~WantsWait(o) /\ Return(o)
  /\ UNCHANGED <<now, kind, noWait, aborted, budget, catalog, sitemap, plan>>

\* Mutant: the retry's page is returned, good or bad.
ScrapeSecondAlways ==
  /\ pc \in {"noJs", "wait"}
  /\ \E o \in Outcome :
       /\ MayReturn(o)
       /\ last' = o
       /\ Return(o)
  /\ UNCHANGED <<now, kind, first, noWait, aborted, budget, catalog, sitemap, plan>>

\* The second page is returned if it is good, or if the first was not, except
\* that the bounce stays the reason of a bounced page.  If the engine cannot be
\* reached the whole call throws, also after a thin first page.
ScrapeSecond ==
  /\ pc \in {"noJs", "wait"}
  /\ \E o \in Outcome :
       /\ MayReturn(o)
       /\ last' = o
       /\ \/ o \in Success \cup {"thrown"} /\ Return(o)
          \/ o \notin Success \cup {"thrown"} /\ Return(IF pc = "wait" /\ first \notin Success THEN o ELSE first)
  /\ UNCHANGED <<now, kind, first, noWait, aborted, budget, catalog, sitemap, plan>>

-----------------------------------------------------------------------------
(* The store catalog: discoverProducts.                                    *)

\* Products wanted: storeProducts' max.
MaxProducts == budget - 1

\* Products on the i-th page after the next one, were it read.
Items(c, i) == LET before == (c.page + i - 1) * Size
               IN IF c.products <= before THEN 0 ELSE Smaller(Size, c.products - before)

\* fetchJson: its timeout is what is left of the catalog's, and its request may
\* end a little later; a lost or unparsable answer counts as lost.
FetchEnds(c) == now + Smaller(Fetch, c.deadline - now) + Grace

\* Mutant: as many pages as fit whole.
NextRoundFloor(c) ==
  IF c.found >= MaxProducts THEN [c EXCEPT !.active = FALSE]
  ELSE IF c.deadline < now + MinFetch \/ c.deadline <= now THEN [c EXCEPT !.active = FALSE, !.whole = FALSE]
  ELSE LET want == Smaller(Parallel, (MaxProducts - c.found) \div Size)
       IN [c EXCEPT !.active = want > 0, !.want = want,
                    !.due = FetchEnds(c)]

\* Enough is found, or time is up (fetchJson returns null at once when less
\* than MinFetch is left), or the next pages are asked for together.
NextRound(c) ==
  IF c.found >= MaxProducts THEN [c EXCEPT !.active = FALSE]
  ELSE IF c.deadline < now + MinFetch \/ c.deadline <= now THEN [c EXCEPT !.active = FALSE, !.whole = FALSE]
  ELSE [c EXCEPT !.want = Smaller(Parallel, CeilDiv(MaxProducts - c.found, Size)),
                 !.due = FetchEnds(c)]

\* Promise.all over a round: pages are used in order up to the first that was
\* lost, empty or short, which ends the catalog.
CatalogRound ==
  /\ pc = "gather" /\ catalog.active
  /\ \E lost \in SUBSET (0..(catalog.want - 1)), k \in 0..catalog.want :
       /\ \A i \in 0..(k - 1) : i \notin lost /\ Items(catalog, i) = Size
       /\ k < catalog.want => k \in lost \/ Items(catalog, k) < Size
       /\ LET short == IF k < catalog.want /\ k \notin lost THEN Items(catalog, k) ELSE 0
              c == [catalog EXCEPT !.page = @ + catalog.want, !.found = @ + k * Size + short,
                                   !.whole = @ /\ (k < catalog.want => k \notin lost)]
          IN catalog' = IF k < catalog.want THEN [c EXCEPT !.active = FALSE] ELSE NextRound(c)
  /\ UNCHANGED <<now, kind, pc, due, first, last, noWait, aborted, budget, sitemap, plan, result>>

SitemapAnswers ==
  /\ pc = "gather" /\ sitemap.active
  /\ sitemap' = [sitemap EXCEPT !.active = FALSE]
  /\ UNCHANGED <<now, kind, pc, due, first, last, noWait, aborted, budget, catalog, plan, result>>

-----------------------------------------------------------------------------
(* crawl and map.                                                          *)

\* Mutant: the probe has only scrapeOnce's own timeout.
ProbeStartUnbounded ==
  /\ pc = "idle"
  /\ kind' \in {"crawl", "map"}
  /\ Send("probe", Probe + Request)
  /\ UNCHANGED <<now, first, last, noWait, aborted, budget, catalog, sitemap, plan, result>>

\* probeStart: one scrapeOnce under AbortSignal.timeout.
ProbeStart ==
  /\ pc = "idle"
  /\ kind' \in {"crawl", "map"}
  /\ Send("probe", Probe)
  /\ UNCHANGED <<now, first, last, noWait, aborted, budget, catalog, sitemap, plan, result>>

\* A probed page comes with raw HTML, in which a platform may be detected,
\* unless the request failed or the repeated probe did not succeed.
HasHtml(o) == IF pc = "probe" THEN o \in {"good", "thin", "bad"} ELSE o \in Success

Gather(platform) ==
  /\ pc' = "gather" /\ UNCHANGED <<due, result>>
  /\ sitemap' = [active |-> TRUE, due |-> now + Sitemap]
  /\ IF platform /\ budget >= 2
     THEN \E n \in ShopSizes :
            catalog' = NextRound([NoCatalog EXCEPT !.active = TRUE, !.deadline = now + Catalog, !.products = n])
     ELSE UNCHANGED catalog

\* A map always gathers, a crawl when it starts at a store's home page.
AfterProbe(o) ==
  \/ kind = "map" /\ \E platform \in BOOLEAN : (platform => HasHtml(o)) /\ Gather(platform)
  \/ kind = "crawl" /\ HasHtml(o) /\ budget >= 2 /\ Gather(TRUE)
  \/ kind = "crawl" /\ Send("post", Request) /\ UNCHANGED <<catalog, sitemap, result>>

ProbeAnswers ==
  /\ pc \in {"probe", "reprobe"}
  /\ \E o \in Outcome :
       /\ MayReturn(o)
       /\ last' = o /\ first' = IF pc = "probe" THEN o ELSE first
       /\ \/ pc = "probe" /\ o = "bounced" /\ Send("reprobe", Probe) /\ UNCHANGED <<catalog, sitemap, result>>
          \/ ~(pc = "probe" /\ o = "bounced") /\ AfterProbe(o)
  /\ UNCHANGED <<now, kind, noWait, aborted, budget, plan>>

\* Mutant: slots the other pages leave unused are not given to products.
ShareReserved(products, others) ==
  LET rest == budget - 1
      reserved == Smaller(products, CeilDiv(rest, 4))
  IN [products |-> products, others |-> others, takenProducts |-> reserved,
      takenOthers |-> Smaller(others, rest - reserved)]

\* withProductShare, STORE_PRODUCT_SHARE being a quarter.
Share(products, others) ==
  LET rest == budget - 1
      reserved == Smaller(products, CeilDiv(rest, 4))
      nOthers == Smaller(others, rest - reserved)
  IN [products |-> products, others |-> others,
      takenProducts |-> Smaller(products, rest - nOthers), takenOthers |-> nOthers]

\* Products out of the crawl's scope are dropped.  A crawl without any is an
\* ordinary one.  A map of an unreachable site without a sitemap is an error.
Gathered ==
  /\ pc = "gather" /\ ~catalog.active /\ ~sitemap.active
  /\ \E products \in 0..Smaller(catalog.found, MaxProducts), others \in OtherPages :
       \/ /\ kind = "crawl"
          /\ plan' = IF products = 0 THEN NoPlan ELSE Share(products, others)
          /\ Send("post", Request) /\ UNCHANGED result
       \/ /\ kind = "map"
          /\ plan' = Share(products, others)
          /\ Return(IF plan'.takenProducts + plan'.takenOthers = 0 /\ last \notin Success THEN "error" ELSE "mapped")
  /\ UNCHANGED <<now, kind, first, last, noWait, aborted, budget, catalog, sitemap>>

\* POST /v2/batch/scrape or /v2/crawl: an id, a refusal or no answer.
PostAnswers ==
  /\ pc = "post"
  /\ \E r \in {"started", "refused", "thrown"} : Return(r)
  /\ UNCHANGED <<now, kind, first, last, noWait, aborted, budget, catalog, sitemap, plan>>

Next ==
  \/ Tick
  \/ ScrapeStart \/ Abort \/ ScrapeFirst \/ ScrapeSecond
  \/ ProbeStart \/ ProbeAnswers \/ CatalogRound \/ SitemapAnswers \/ Gathered \/ PostAnswers

Spec == Init /\ [][Next]_vars

-----------------------------------------------------------------------------
\* The types of the variables; a call has a result when it is done.
TypeOK ==
  /\ pc = "done" <=> result # None
  /\ now \in Nat /\ due \in Nat /\ budget \in Budgets
  /\ kind \in {None, "scrape", "crawl", "map"}
  /\ pc \in {"idle", "first", "noJs", "wait", "probe", "reprobe", "gather", "post", "done"}
  /\ first \in Outcome \cup {None} /\ last \in Outcome \cup {None}
  /\ noWait \in BOOLEAN /\ aborted \in BOOLEAN
  /\ catalog \in [active : BOOLEAN, due : Nat, deadline : Nat, products : Nat,
                  page : Nat, want : Nat, found : Nat, whole : BOOLEAN]
  /\ sitemap \in [active : BOOLEAN, due : Nat]
  /\ plan \in [products : Nat, others : Nat, takenProducts : Nat, takenOthers : Nat]
  /\ result \in Outcome \cup {None, "started", "refused", "error", "mapped"}

Waiting == pc \notin {"idle", "done"}

\* The start of a crawl is over before the reconciler takes a crawl without an
\* engine id for an orphan, whatever combination of probes, catalog rounds and
\* sitemap it went through; a scrape takes two requests at the most.
CallSettlesInTime ==
  /\ kind = "crawl" /\ Waiting => now < OrphanLimit
  /\ kind = "scrape" /\ Waiting => now <= 2 * (ScrapeTimeout + Request)

\* A scrape that got a page from one of its attempts returns a page, unless
\* the retry could not reach the engine.
ScrapeKeepsSuccess ==
  kind = "scrape" /\ pc = "done" /\ (first \in Success \/ last \in Success) =>
    result \in Success \/ (last = "thrown" /\ result = "thrown")

\* A catalog that was read without a lost page, and in time, has every product
\* of the store, up to the number wanted.
CatalogIsWhole ==
  catalog.deadline > 0 /\ ~catalog.active /\ catalog.whole =>
    Smaller(catalog.found, MaxProducts) = Smaller(catalog.products, MaxProducts)

\* No slot of the page budget is left unused while there are pages, and
\* products have at least their reserved share.
BudgetIsFilled ==
  /\ 1 + plan.takenProducts + plan.takenOthers = Smaller(budget, 1 + plan.products + plan.others)
  /\ plan.takenProducts >= Smaller(plan.products, CeilDiv(budget - 1, 4))
==============================================================================
