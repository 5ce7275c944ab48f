------------------------------ MODULE PageResult ------------------------------
(***************************************************************************)
(* What an answer of the scraping engine means for the page that was asked *)
(* for: FirecrawlEngine.toPageResult, mapError and the end of scrapeOnce.  *)
(* A text is what the code looks for in it; messages are left out.         *)
(***************************************************************************)
EXTENDS Naturals

\* Search engines a bot filter sends a browser to: BOT_BOUNCE_TARGETS.
BounceTargets == {"google", "bing"}

\* A document: the target's status (0: none), the page's title and host, as far
\* as they are a search engine's, and its text, which may be too short for a
\* rendered page or be the egress proxy's refusal.
Documents ==
  [status : {0, 200, 403, 500}, title : {"none", "page"} \cup BounceTargets,
   host : {"site"} \cup BounceTargets, text : {"long", "thin", "egress denied"}]

\* An error: the HTTP status, the engine's code and what its message speaks of.
Errors ==
  [http : {200, 408, 429, 500},
   code : {"none", "SCRAPE_TIMEOUT", "SCRAPE_DNS_RESOLUTION_ERROR", "SCRAPE_SSL_ERROR",
           "SCRAPE_SITE_ERROR", "SCRAPE_UNSUPPORTED_FILE_ERROR", "SCRAPE_JOB_CANCELLED",
           "BAD_REQUEST", "SCRAPE_ALL_ENGINES_FAILED", "CRAWL_DENIAL"},
   about : {"dns", "time", "policy", "url", "other"}]

\* A page of any site but the engine's own that has a search engine's title.
IsBotBounce(doc) == doc.title \in BounceTargets /\ doc.host # doc.title

\* toPageResult: a plain-http request that the egress proxy refused looks like a
\* page of status 403.  A page with an HTTP error keeps its content.
ToPageResult(doc) ==
  LET page(error, kept) == [success |-> error = "none", error |-> error, content |-> kept]
  IN IF doc.status = 403 /\ doc.text = "egress denied" THEN page("BLOCKED_URL", FALSE)
     ELSE IF IsBotBounce(doc) THEN page("BOT_BOUNCE_ERROR", FALSE)
     ELSE IF doc.status >= 400 THEN page("HTTP_ERROR", TRUE)
     ELSE page("none", TRUE)

\* Codes with one meaning.
PlainCodes ==
  [SCRAPE_TIMEOUT |-> "TIMEOUT", SCRAPE_DNS_RESOLUTION_ERROR |-> "DNS_RESOLUTION_FAILED",
   SCRAPE_SSL_ERROR |-> "SSL_ERROR", SCRAPE_SITE_ERROR |-> "CONNECTION_FAILED",
   SCRAPE_UNSUPPORTED_FILE_ERROR |-> "UNSUPPORTED_URL", SCRAPE_JOB_CANCELLED |-> "INTERRUPTED",
   CRAWL_DENIAL |-> "ROBOTS_DISALLOWED"]

MapError(e) ==
  CASE e.code \in DOMAIN PlainCodes -> PlainCodes[e.code]
    [] e.code = "BAD_REQUEST" -> IF e.about = "url" THEN "INVALID_URL" ELSE "INTERNAL_ERROR"
    [] e.code = "SCRAPE_ALL_ENGINES_FAILED" ->
         IF e.about = "dns" THEN "DNS_RESOLUTION_FAILED" ELSE IF e.about = "time" THEN "TIMEOUT" ELSE "CONNECTION_FAILED"
    [] e.code = "none" ->
         IF e.http = 408 THEN "TIMEOUT" ELSE IF e.http = 429 THEN "ENGINE_UNAVAILABLE" ELSE "EXTRACTION_FAILED"

\* scrapeOnce, answered with a document.
OfDocument(doc) ==
  LET page == ToPageResult(doc)
  IN IF page.error = "BOT_BOUNCE_ERROR" THEN "bounced"
     ELSE IF ~page.success THEN "bad"
     ELSE IF doc.text = "thin" THEN "thin" ELSE "good"

\* scrapeOnce, answered with an error.  "All engines failed" may mean that the
\* page was too empty, unless it is about the name or the time.
OfError(e) ==
  IF e.code = "SCRAPE_ALL_ENGINES_FAILED" /\ MapError(e) = "CONNECTION_FAILED" THEN "empty" ELSE "bad"

\* What scrapeOnce may come to; without an answer it timed out, was aborted or
\* threw EngineUnavailableError.
PageOutcomes ==
  {OfDocument(doc) : doc \in Documents} \cup {OfError(e) : e \in Errors}
    \cup {"timeout", "interrupted", "thrown"}
==============================================================================
