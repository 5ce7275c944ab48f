------------------------------ MODULE NetPolicy ------------------------------
(***************************************************************************)
(* The egress policy that the API (before it accepts a job) and the egress *)
(* proxy (when it connects) share.  An address is a record of its version  *)
(* and its words; a host is its labels, or the address it is a literal of, *)
(* with the dots and brackets written around it; a URL is what the checks  *)
(* look at.  An outcome is a code, "ok" when nothing is wrong.             *)
(***************************************************************************)
EXTENDS Naturals, Sequences, SequencesExt

V4(words) == [version |-> 4, words |-> words]
V6(words) == [version |-> 6, words |-> words]

\* ipaddr.js: the first bits of an address, a sequence of words of width bits.
InRange(words, width, net, bits) ==
  \A i \in DOMAIN words :
    LET before == width * (i - 1)
        free   == IF bits >= before + width THEN 0
                  ELSE IF bits <= before THEN width ELSE before + width - bits
    IN  words[i] \div 2^free = net[i] \div 2^free

BlockedV4 == {
  <<<<0, 0, 0, 0>>, 8>>, <<<<10, 0, 0, 0>>, 8>>, <<<<100, 64, 0, 0>>, 10>>,
  <<<<127, 0, 0, 0>>, 8>>, <<<<169, 254, 0, 0>>, 16>>, <<<<172, 16, 0, 0>>, 12>>,
  <<<<192, 0, 0, 0>>, 24>>, <<<<192, 0, 2, 0>>, 24>>, <<<<192, 31, 196, 0>>, 24>>,
  <<<<192, 52, 193, 0>>, 24>>, <<<<192, 88, 99, 0>>, 24>>, <<<<192, 168, 0, 0>>, 16>>,
  <<<<192, 175, 48, 0>>, 24>>, <<<<198, 18, 0, 0>>, 15>>, <<<<198, 51, 100, 0>>, 24>>,
  <<<<203, 0, 113, 0>>, 24>>, <<<<224, 0, 0, 0>>, 4>>, <<<<240, 0, 0, 0>>, 4>>,
  <<<<255, 255, 255, 255>>, 32>>}

\* The nets as their leading groups; the others are 0.
Net6(groups) == [i \in 1..8 |-> IF i \in DOMAIN groups THEN groups[i] ELSE 0]
GlobalUnicast == <<<<8192>>, 3>>                          \* 2000::/3
BlockedV6 == {<<<<8193>>, 23>>, <<<<8193, 3512>>, 32>>,   \* 2001::/23, 2001:db8::/32
              <<<<8194>>, 16>>, <<<<16383>>, 20>>}        \* 2002::/16, 3fff::/20
InNet6(words, range) == InRange(words, 16, Net6(range[1]), range[2])

\* An IPv6 address that carries an IPv4 one: ::ffff:0:0/96 and 64:ff9b::/96.
Mapped == <<<<0, 0, 0, 0, 0, 65535>>, 96>>
Nat64 == <<<<100, 65435>>, 96>>
Embedded(words) ==
  <<words[7] \div 256, words[7] % 256, words[8] \div 256, words[8] % 256>>

BlockedAddress(a) ==
  LET carries == a.version = 6 /\ (InNet6(a.words, Mapped) \/ InNet6(a.words, Nat64))
      four    == IF carries THEN Embedded(a.words) ELSE a.words
  IN  IF a.version = 6 /\ ~carries
      THEN ~InNet6(a.words, GlobalUnicast) \/ \E r \in BlockedV6 : InNet6(a.words, r)
      ELSE \E r \in BlockedV4 : InRange(four, 8, r[1], r[2])

-----------------------------------------------------------------------------
NoAddress == V4(<<>>)
Name(labels) == [labels |-> labels, address |-> NoAddress, dots |-> FALSE, brackets |-> FALSE]
Literal(a) == [labels |-> <<>>, address |-> a, dots |-> FALSE, brackets |-> FALSE]

\* Brackets go only when nothing follows them, the dots in any case.
NormalizeHostname(h) ==
  [labels |-> h.labels, address |-> h.address, dots |-> FALSE, brackets |-> h.brackets /\ h.dots]
IsIpLiteral(h) == h.address # NoAddress

BlockedNames == {<<"localhost">>, <<"metadata">>, <<"metadata", "google", "internal">>, <<"instance-data">>}
BlockedSuffixes == {
  <<"localhost">>, <<"local">>, <<"localdomain">>, <<"internal">>, <<"intranet">>, <<"lan">>,
  <<"home", "arpa">>, <<"corp">>, <<"svc">>, <<"cluster", "local">>}

BlockedHostname(h) ==
  \/ Len(h.labels) <= 1
  \/ h.labels \in BlockedNames
  \/ \E s \in BlockedSuffixes : IsStrictSuffix(s, h.labels)

-----------------------------------------------------------------------------
DefaultAllowedPorts == {80, 443, 8080, 8443}

CreatePolicyConfig(hosts, ports) ==
  [allowHosts   |-> {NormalizeHostname(h) : h \in hosts},
   allowedPorts |-> IF ports = {} THEN DefaultAllowedPorts ELSE {p \in ports : p > 0 /\ p < 65536}]

\* What can be said of a host without looking it up.
BlockedHost(h, cfg) ==
  /\ h \notin cfg.allowHosts
  /\ IF IsIpLiteral(h) THEN BlockedAddress(h.address) ELSE BlockedHostname(h)

\* url.port: <<>> when the URL gives none, or its scheme's own; "0" is a port.
PortOf(url) ==
  IF url.port # <<>> THEN url.port[1] ELSE IF url.scheme = "https" THEN 443 ELSE 80

\* Mutant: a trusted host is held to the allowed ports, too.
CheckUrlSyntaxAnyPort(url, cfg) ==
  IF ~url.parses THEN "INVALID_URL"
  ELSE IF url.scheme \notin {"http", "https"} \/ url.credentials THEN "UNSUPPORTED_URL"
  ELSE IF PortOf(url) \notin cfg.allowedPorts \/ BlockedHost(NormalizeHostname(url.host), cfg)
  THEN "BLOCKED_URL" ELSE "ok"

CheckUrlSyntax(url, cfg) ==
  LET host == NormalizeHostname(url.host)
  IN  IF ~url.parses THEN "INVALID_URL"
      ELSE IF url.scheme \notin {"http", "https"} \/ url.credentials THEN "UNSUPPORTED_URL"
      ELSE IF host \notin cfg.allowHosts /\ PortOf(url) \notin cfg.allowedPorts THEN "BLOCKED_URL"
      ELSE IF BlockedHost(host, cfg) THEN "BLOCKED_URL"
      ELSE "ok"

\* Mutant: only the first of a host's addresses has to be public.
ResolveFirstPublic(hostname, cfg, answer) ==
  LET h == NormalizeHostname(hostname)
      found == IF IsIpLiteral(h) THEN <<h.address>> ELSE answer
  IN  IF BlockedHost(h, cfg) THEN [code |-> "BLOCKED_URL", value |-> <<>>]
      ELSE IF found = <<>> THEN [code |-> "DNS_RESOLUTION_FAILED", value |-> <<>>]
      ELSE IF h \notin cfg.allowHosts /\ BlockedAddress(found[1])
      THEN [code |-> "BLOCKED_URL", value |-> <<>>]
      ELSE [code |-> "ok", value |-> found]

\* answer: the addresses DNS gives, none when it fails or times out.
ResolvePublicAddresses(hostname, cfg, answer) ==
  LET h == NormalizeHostname(hostname)
      found == IF IsIpLiteral(h) THEN <<h.address>> ELSE answer
  IN  IF BlockedHost(h, cfg) THEN [code |-> "BLOCKED_URL", value |-> <<>>]
      ELSE IF found = <<>> THEN [code |-> "DNS_RESOLUTION_FAILED", value |-> <<>>]
      ELSE IF h \notin cfg.allowHosts /\ \E i \in DOMAIN found : BlockedAddress(found[i])
      THEN [code |-> "BLOCKED_URL", value |-> <<>>]
      ELSE [code |-> "ok", value |-> found]

CheckUrl(url, cfg, answer) ==
  LET syntax == CheckUrlSyntax(url, cfg)
  IN  IF syntax # "ok" THEN syntax ELSE ResolvePublicAddresses(NormalizeHostname(url.host), cfg, answer).code
==============================================================================
