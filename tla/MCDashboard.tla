----------------------------- MODULE MCDashboard -----------------------------
EXTENDS Dashboard

ServerLimits ==
  [defaultScrapeTimeoutMs |-> 30000, maxScrapeTimeoutMs |-> 90000, maxCrawlPages |-> 20, maxCrawlDepth |-> 10,
   maxPatterns |-> 20, maxPatternLength |-> 200, maxMapUrls |-> 10000]
ServerPolicy == CreatePolicyConfig({}, {})
Public == <<V4(<<93, 184, 216, 34>>)>>

SomeUrls == {[parses |-> TRUE, scheme |-> "https", credentials |-> FALSE, port |-> <<>>, host |-> Name(host)] :
               host \in {<<"www", "example", "com">>, <<"localhost">>}}
SomeFormats == {"markdown", "branding"}
\* Blank, and numbers such as 0, 1, 1.5 and 21.
SomeSeconds == {<<>>, <<0>>, <<10>>, <<15>>}
SomeCounts == {<<>>, <<0>>, <<15>>, <<210>>}
SomePatterns == {<<>>, <<[length |-> 5, valid |-> TRUE]>>, <<[length |-> 5, valid |-> FALSE]>>,
                 <<[length |-> 201, valid |-> TRUE]>>}
SomeDomains == {<<>>, <<Name(<<"example", "com">>)>>, <<Name(<<"example", "org">>)>>}
==============================================================================
