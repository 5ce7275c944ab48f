------------------------------ MODULE JobInput ------------------------------
(***************************************************************************)
(* The body of a scrape, crawl or map request: the schema it must match,   *)
(* the options the job service makes of it, and what the Firecrawl adapter *)
(* asks the engine for.  A body is a record of the fields that were sent.  *)
(* Formats are a set (the schema refuses duplicates); a pattern is its     *)
(* length and whether it compiles; hosts and URLs are those of NetPolicy.  *)
(***************************************************************************)
EXTENDS NetPolicy

CONSTANTS
  Limits,  \* config.ts
  Policy,  \* the URL policy of the API
  Answer   \* what DNS says of the bodies' hosts

OutputFormat == {"markdown", "html", "text", "branding"}

Sent(input, field) == field \in DOMAIN input
Or(input, field, default) == IF Sent(input, field) THEN input[field] ELSE default
Smaller(a, b) == IF a <= b THEN a ELSE b

ScopeFields == {"include_patterns", "exclude_patterns", "allowed_domain", "allow_subdomains"}
FieldsOf(type) ==
  {"url"} \cup
  CASE type = "scrape" -> {"project_id", "formats", "only_main_content", "timeout_ms", "wait_for_ms"}
    [] type = "crawl"  -> {"project_id", "formats", "only_main_content", "timeout_ms", "wait_for_ms",
                           "max_depth", "max_pages"} \cup ScopeFields
    [] type = "map"    -> {"limit"} \cup ScopeFields

\* additionalProperties is false; a bound holds for a field that was sent.
MatchesSchema(type, input) ==
  /\ "url" \in DOMAIN input /\ DOMAIN input \subseteq FieldsOf(type)
  /\ Or(input, "formats", {"markdown"}) \in (SUBSET OutputFormat) \ {{}}
  /\ Or(input, "timeout_ms", 1000) >= 1000
  /\ Or(input, "wait_for_ms", 0) <= 30000
  /\ Or(input, "max_pages", 1) >= 1 /\ Or(input, "limit", 1) >= 1
  /\ \A field \in {"include_patterns", "exclude_patterns"} :
       LET patterns == Or(input, field, <<>>)
       IN  Len(patterns) <= 20 /\ \A i \in DOMAIN patterns : patterns[i].length <= 200

-----------------------------------------------------------------------------
(* services/jobs.ts: an outcome is a code and, if that is "ok", a value.   *)

Ok(value) == [code |-> "ok", value |-> value]
Fail(code) == [code |-> code, value |-> <<>>]

\* Mutant: the wait is held to the timeout, not to half of it.
NormalizeScrapeOptionsWholeWait(input, limits) ==
  LET timeout == Or(input, "timeout_ms", limits.defaultScrapeTimeoutMs)
      wait    == Or(input, "wait_for_ms", 0)
  IN  IF timeout > limits.maxScrapeTimeoutMs THEN Fail("LIMIT_EXCEEDED")
      ELSE IF wait > timeout THEN Fail("VALIDATION_ERROR")
      ELSE Ok([formats |-> Or(input, "formats", {"markdown"}), timeoutMs |-> timeout, waitForMs |-> wait,
               onlyMainContent |-> Or(input, "only_main_content", TRUE)])

NormalizeScrapeOptions(input, limits) ==
  LET timeout == Or(input, "timeout_ms", limits.defaultScrapeTimeoutMs)
      wait    == Or(input, "wait_for_ms", 0)
  IN  IF timeout > limits.maxScrapeTimeoutMs THEN Fail("LIMIT_EXCEEDED")
      ELSE IF 2 * wait > timeout THEN Fail("VALIDATION_ERROR")
      ELSE Ok([formats |-> Or(input, "formats", {"markdown"}), timeoutMs |-> timeout, waitForMs |-> wait,
               onlyMainContent |-> Or(input, "only_main_content", TRUE)])

CheckPatterns(patterns, limits) ==
  IF Len(patterns) > limits.maxPatterns THEN "LIMIT_EXCEEDED"
  ELSE IF \E i \in DOMAIN patterns :
            patterns[i].length \notin 1..limits.maxPatternLength \/ ~patterns[i].valid
  THEN "VALIDATION_ERROR" ELSE "ok"

\* host is domain or below it.
Within(host, domain) == host = domain \/ IsStrictSuffix(domain.labels, host.labels)

NormalizeScope(input, startHost, limits) ==
  LET include == Or(input, "include_patterns", <<>>)
      exclude == Or(input, "exclude_patterns", <<>>)
      domain  == IF Sent(input, "allowed_domain") THEN NormalizeHostname(input.allowed_domain) ELSE startHost
  IN  IF CheckPatterns(include, limits) # "ok" THEN Fail(CheckPatterns(include, limits))
      ELSE IF CheckPatterns(exclude, limits) # "ok" THEN Fail(CheckPatterns(exclude, limits))
      ELSE IF ~Within(startHost, domain) THEN Fail("VALIDATION_ERROR")
      ELSE Ok([includePatterns |-> include, excludePatterns |-> exclude, allowedDomain |-> domain,
               allowSubdomains |-> Or(input, "allow_subdomains", FALSE)])

DefaultCrawlPages == 200
DefaultCrawlDepth == 3
DefaultMapUrls == 5000

Both(a, b) == [field \in DOMAIN a \cup DOMAIN b |-> IF field \in DOMAIN b THEN b[field] ELSE a[field]]

NormalizeCrawlOptions(input, startHost, limits) ==
  LET base  == NormalizeScrapeOptions(input, limits)
      pages == Or(input, "max_pages", Smaller(DefaultCrawlPages, limits.maxCrawlPages))
      depth == Or(input, "max_depth", Smaller(DefaultCrawlDepth, limits.maxCrawlDepth))
      scope == NormalizeScope(input, startHost, limits)
  IN  IF base.code # "ok" THEN base
      ELSE IF "branding" \in base.value.formats THEN Fail("VALIDATION_ERROR")
      ELSE IF pages > limits.maxCrawlPages \/ depth > limits.maxCrawlDepth THEN Fail("LIMIT_EXCEEDED")
      ELSE IF scope.code # "ok" THEN scope
      ELSE Ok(Both(Both(base.value, [maxPages |-> pages, maxDepth |-> depth]), scope.value))

MapOptions(input, startHost, limits) ==
  LET limit == Or(input, "limit", Smaller(DefaultMapUrls, limits.maxMapUrls))
      scope == NormalizeScope(input, startHost, limits)
  IN  IF limit > limits.maxMapUrls THEN Fail("LIMIT_EXCEEDED")
      ELSE IF scope.code # "ok" THEN scope
      ELSE Ok(Both([limit |-> limit], scope.value))

\* The order of the checks once the project was found: target, then options.
\* answer: what DNS says of the URL's host.
Normalize(type, input, limits, policy, answer) ==
  LET target == CheckUrl(input.url, policy, answer)
      host   == NormalizeHostname(input.url.host)
  IN  IF target # "ok" THEN Fail(target)
      ELSE CASE type = "scrape" -> NormalizeScrapeOptions(input, limits)
             [] type = "crawl"  -> NormalizeCrawlOptions(input, host, limits)
             [] type = "map"    -> MapOptions(input, host, limits)

-----------------------------------------------------------------------------
(* engine/firecrawl.ts: what a stored job is asked of the engine as.       *)

ScrapeOptions(o, noJs) ==
  [timeout |-> o.timeoutMs, onlyMainContent |-> o.onlyMainContent, fastMode |-> noJs,
   waitFor |-> IF noJs THEN 0 ELSE Smaller(o.waitForMs, o.timeoutMs \div 2)]

\* The retry of a page that came back empty.
RetryOptions(o) == [o EXCEPT !.waitForMs = Smaller(5000, o.timeoutMs \div 2)]

CrawlBody(url, o, noJs) ==
  [limit |-> o.maxPages, maxDiscoveryDepth |-> o.maxDepth,
   includePaths |-> o.includePatterns, excludePaths |-> o.excludePatterns,
   allowSubdomains |-> o.allowSubdomains \/ url.host # o.allowedDomain,
   scrapeOptions |-> ScrapeOptions(o, noJs)]
==============================================================================
