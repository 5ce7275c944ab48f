----------------------------- MODULE MCAccounts -----------------------------
EXTENDS Accounts, TLC

Symmetry == Permutations(Users) \cup Permutations(Keys) \cup Permutations(Projects) \cup Permutations(Jobs) \cup Permutations(Requests)

\* The defaults of config.ts, except for the limits on a crawl.
ServerLimits ==
  [defaultScrapeTimeoutMs |-> 30000, maxScrapeTimeoutMs |-> 90000, maxCrawlPages |-> 20, maxCrawlDepth |-> 10,
   maxPatterns |-> 20, maxPatternLength |-> 200, maxMapUrls |-> 10000]

ServerPolicy == CreatePolicyConfig({}, {})
Public == <<V4(<<93, 184, 216, 34>>)>>

Site(host) == [parses |-> TRUE, scheme |-> "https", credentials |-> FALSE, host |-> host, port |-> <<>>]
Start == Site(Name(<<"www", "example", "com">>))
Dotted == Site([Name(<<"example", "com">>) EXCEPT !.dots = TRUE])
Scrape(input) == [type |-> "scrape", input |-> input]
Crawl(input) == [type |-> "crawl", input |-> input]

\* One that is taken, at the boundary of what may be waited for, and one for
\* each check that refuses.
SomeBodies == {
  Crawl([url |-> Start, allowed_domain |-> Name(<<"example", "com">>), max_pages |-> 20,
         timeout_ms |-> 1001, wait_for_ms |-> 500]),
  Scrape([url |-> Start, timeout_ms |-> 1001, wait_for_ms |-> 501]),
  Scrape([url |-> Start, formats |-> {"markdown", "branding"}, timeout_ms |-> 90001]),
  Scrape([url |-> Start, timeout_ms |-> 999]),
  Crawl([url |-> Start, allowed_domain |-> Name(<<"example", "org">>)]),
  Crawl([url |-> Dotted, max_depth |-> 11]),
  Crawl([url |-> Dotted, formats |-> {"branding"}])}
==============================================================================
