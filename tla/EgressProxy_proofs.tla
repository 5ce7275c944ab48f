-------------------------- MODULE EgressProxy_proofs --------------------------
(***************************************************************************)
(* What holds of EgressProxy for any number of requests, any targets and   *)
(* trusted hosts, whatever DNS answers, and any MAX_TUNNELS.               *)
(***************************************************************************)
EXTENDS EgressProxy, FiniteSetTheorems, TLAPS

-----------------------------------------------------------------------------
(* The decision. *)

\* Normalising a name again changes nothing.
LEMMA NormalizedOnce ==
  ASSUME NEW t \in Targets
  PROVE  /\ NormalizeHostname(NormalizeHostname(t.host)) = NormalizeHostname(t.host)
         /\ NormalizeHostname(t.host).address = t.host.address
<1> DEFINE plain == [labels |-> t.host.labels, address |-> t.host.address, dots |-> FALSE, brackets |-> FALSE]
<1>1. NormalizeHostname(t.host) = plain
  BY TargetsAssumption DEF NormalizeHostname
<1>2. NormalizeHostname(plain) = plain
  BY DEF NormalizeHostname
<1>3. plain.address = t.host.address
  OBVIOUS
<1> QED BY <1>1, <1>2, <1>3

LEMMA AllMentioned ==
  /\ \A t \in Targets : t.host.address \in Mentioned
  /\ \A answer \in Answers : answer \in Seq(Mentioned)
<1>1. ASSUME NEW t \in Targets PROVE t.host.address \in Mentioned
  BY DEF Mentioned
<1>2. ASSUME NEW answer \in Answers PROVE answer \in Seq(Mentioned)
  <2> DEFINE S == {answer[i] : i \in DOMAIN answer}
  <2>1. S \subseteq Mentioned
    BY DEF Mentioned
  <2>2. answer \in Seq(S)
    BY AnswersAssumption
  <2> HIDE DEF S
  <2> QED BY <2>1, <2>2
<1> QED BY <1>1, <1>2

LEMMA DecisionIs ==
  ASSUME NEW t \in Targets, NEW answer \in Answers
  PROVE  Decision[t][answer] = Decide(t, answer)
BY DEF Decision

\* What a lookup comes to.
LEMMA Resolved ==
  ASSUME NEW t \in Targets, NEW answer \in Answers
  PROVE  LET h == NormalizeHostname(t.host)
             r == ResolvePublicAddresses(h, Config, answer)
         IN  /\ r.code \in {"ok", "BLOCKED_URL", "DNS_RESOLUTION_FAILED"}
             /\ r.code = "ok" =>
                  /\ ~BlockedHost(h, Config)
                  /\ r.value \in Seq(Mentioned) /\ r.value # <<>>
                  /\ h \notin Config.allowHosts => \A i \in DOMAIN r.value : ~BlockedAddress(r.value[i])
<1> DEFINE h == NormalizeHostname(t.host)
           r == ResolvePublicAddresses(h, Config, answer)
           found == IF IsIpLiteral(h) THEN <<h.address>> ELSE answer
<1>1. NormalizeHostname(h) = h /\ h.address = t.host.address
  BY NormalizedOnce
<1>2. found \in Seq(Mentioned)
  BY <1>1, AllMentioned
<1>3. r = IF BlockedHost(h, Config) THEN [code |-> "BLOCKED_URL", value |-> <<>>]
          ELSE IF found = <<>> THEN [code |-> "DNS_RESOLUTION_FAILED", value |-> <<>>]
          ELSE IF h \notin Config.allowHosts /\ \E i \in DOMAIN found : BlockedAddress(found[i])
          THEN [code |-> "BLOCKED_URL", value |-> <<>>]
          ELSE [code |-> "ok", value |-> found]
  BY <1>1 DEF ResolvePublicAddresses
<1> HIDE DEF h, r, found
<1>4. r.code \in {"ok", "BLOCKED_URL", "DNS_RESOLUTION_FAILED"}
  BY <1>3
<1>5. r.code = "ok" =>
        /\ ~BlockedHost(h, Config) /\ r.value = found /\ found # <<>>
        /\ h \notin Config.allowHosts => \A i \in DOMAIN found : ~BlockedAddress(found[i])
  BY <1>3
<1> QED BY <1>2, <1>4, <1>5 DEF h, r

\* A target that is allowed is trusted, or its port is allowed and all of the
\* addresses are public; there is one at least.
LEMMA Vetted ==
  ASSUME NEW t \in Targets, NEW answer \in Answers, Decision[t][answer].status = 0
  PROVE  /\ Decision[t][answer].value \in Seq(Mentioned) /\ Decision[t][answer].value # <<>>
         /\ \/ t \in Trusted
            \/ t \in MayReach /\ \A i \in DOMAIN Decision[t][answer].value : Decision[t][answer].value[i] \in Public
<1> DEFINE h == NormalizeHostname(t.host)
           r == ResolvePublicAddresses(h, Config, answer)
           d == Decision[t][answer]
<1>0. d = Decide(t, answer) /\ d.status = 0
  BY DecisionIs
<1>1. /\ d.value = r.value /\ r.code = "ok"
      /\ h \in Config.allowHosts \/ t.port \in Config.allowedPorts
  <2> HIDE DEF d, h, r
  <2>1. Decide(t, answer) =
          IF t.port \notin Ports THEN Denial(400, "INVALID_URL")
          ELSE IF h \notin Config.allowHosts /\ t.port \notin Config.allowedPorts
          THEN Denial(403, "BLOCKED_URL")
          ELSE IF r.code = "ok" THEN [status |-> 0, code |-> "ok", value |-> r.value]
          ELSE Denial(IF r.code = "DNS_RESOLUTION_FAILED" THEN 502 ELSE 403, r.code)
    BY DEF Decide, h, r
  <2> QED BY <1>0, <2>1 DEF Denial
<1>2. /\ r.value \in Seq(Mentioned) /\ r.value # <<>>
      /\ h \notin Config.allowHosts => \A i \in DOMAIN r.value : ~BlockedAddress(r.value[i])
  BY <1>1, Resolved
<1>3. t \in Trusted <=> h \in Config.allowHosts
  BY DEF Trusted
<1>4. h \notin Config.allowHosts => t \in MayReach
  BY <1>1 DEF MayReach
<1> HIDE DEF h, r, d
<1>5. \A i \in DOMAIN r.value : r.value[i] \in Mentioned
  BY <1>2
<1> QED BY <1>1, <1>2, <1>3, <1>4, <1>5 DEF Public, d

\* The pre-flight check looks at the same port, name and addresses; port 0 it
\* refuses like any port that is not allowed, but not of a trusted host.
LEMMA SameDecision ==
  ASSUME NEW t \in Targets, NEW answer \in Answers
  PROVE  IF t \in Trusted /\ t.port = 0 THEN Decision[t][answer].status = 400
         ELSE Preflight[t][answer] = "ok" <=> Decision[t][answer].status = 0
<1> DEFINE h == NormalizeHostname(t.host)
           r == ResolvePublicAddresses(h, Config, answer)
           url == UrlOf(t)
           syntax == CheckUrlSyntax(url, Config)
           d == Decide(t, answer)
<1>1. /\ r.code \in {"ok", "BLOCKED_URL", "DNS_RESOLUTION_FAILED"}
      /\ r.code = "ok" => ~BlockedHost(h, Config)
  BY Resolved
<1>2. /\ url.host = t.host /\ url.parses = (t.port \in {0} \cup Ports) /\ url.scheme = "https"
      /\ url.credentials = FALSE /\ url.port = IF t.port = 443 THEN <<>> ELSE <<t.port>>
  BY DEF UrlOf
<1>3. PortOf(url) = t.port
  <2> HIDE DEF url
  <2>1. CASE t.port = 443
    BY <1>2, <2>1, SMT DEF PortOf
  <2>2. CASE t.port # 443
    <3>1. url.port = <<t.port>> /\ <<t.port>> # <<>> /\ <<t.port>>[1] = t.port
      BY <1>2, <2>2, SMT
    <3> QED BY <3>1, SMT DEF PortOf
  <2> QED BY <2>1, <2>2
<1>4. Preflight[t][answer] = IF syntax # "ok" THEN syntax ELSE r.code
  BY <1>2 DEF Preflight, CheckUrl
<1>5. syntax = IF t.port \notin {0} \cup Ports THEN "INVALID_URL"
               ELSE IF h \notin Config.allowHosts /\ t.port \notin Config.allowedPorts THEN "BLOCKED_URL"
               ELSE IF BlockedHost(h, Config) THEN "BLOCKED_URL"
               ELSE "ok"
  <2> HIDE DEF url
  <2>1. NormalizeHostname(url.host) = h
    BY <1>2
  <2> HIDE DEF h
  <2>2. syntax = IF ~url.parses THEN "INVALID_URL"
                 ELSE IF url.scheme \notin {"http", "https"} \/ url.credentials THEN "UNSUPPORTED_URL"
                 ELSE IF h \notin Config.allowHosts /\ PortOf(url) \notin Config.allowedPorts THEN "BLOCKED_URL"
                 ELSE IF BlockedHost(h, Config) THEN "BLOCKED_URL"
                 ELSE "ok"
    BY <2>1 DEF CheckUrlSyntax
  <2> HIDE DEF syntax
  <2>3. url.scheme \in {"http", "https"} /\ ~url.credentials
    BY <1>2
  <2>4. url.parses <=> t.port \in {0} \cup Ports
    BY <1>2
  <2> QED BY <1>3, <2>2, <2>3, <2>4
<1>6. Decision[t][answer] = d
  BY DecisionIs
<1> HIDE DEF h, r, url, syntax, d
<1>7. d = IF t.port \notin Ports THEN Denial(400, "INVALID_URL")
          ELSE IF h \notin Config.allowHosts /\ t.port \notin Config.allowedPorts
          THEN Denial(403, "BLOCKED_URL")
          ELSE IF r.code = "ok" THEN [status |-> 0, code |-> "ok", value |-> r.value]
          ELSE Denial(IF r.code = "DNS_RESOLUTION_FAILED" THEN 502 ELSE 403, r.code)
  BY DEF Decide, d, h, r
<1>8. d.status = 0 <=>
        /\ t.port \in Ports /\ r.code = "ok"
        /\ h \in Config.allowHosts \/ t.port \in Config.allowedPorts
  BY <1>7 DEF Denial
<1>9. 0 \notin Ports
  BY SMT DEF Ports
<1>10. t.port = 0 => t.port \notin Config.allowedPorts
  BY <1>9, PortsAssumption
<1>11. t \in Trusted <=> h \in Config.allowHosts
  BY DEF Trusted, h
<1>12. CASE t \in Trusted /\ t.port = 0
  BY <1>6, <1>7, <1>9, <1>12 DEF Denial
<1>13. CASE ~(t \in Trusted /\ t.port = 0)
  <2>1. t.port \notin Ports => ~(d.status = 0) /\ syntax # "ok"
    BY <1>5, <1>8, <1>10, <1>11, <1>13
  <2>2. t.port \in Ports =>
          (syntax = "ok" <=>
             /\ ~BlockedHost(h, Config)
             /\ h \in Config.allowHosts \/ t.port \in Config.allowedPorts)
    BY <1>5
  <2>3. Preflight[t][answer] = "ok" <=> d.status = 0
    BY <1>1, <1>4, <1>8, <2>1, <2>2
  <2> QED BY <1>6, <1>13, <2>3
<1> QED BY <1>12, <1>13

\* What a denial says.
LEMMA Denials ==
  ASSUME NEW t \in Targets, NEW answer \in Answers, Decision[t][answer].status # 0
  PROVE  /\ Decision[t][answer].status \in {400, 403, 502}
         /\ Decision[t][answer].code \in {"INVALID_URL", "BLOCKED_URL", "DNS_RESOLUTION_FAILED"}
<1> DEFINE h == NormalizeHostname(t.host)
           r == ResolvePublicAddresses(h, Config, answer)
           d == Decide(t, answer)
<1>1. r.code \in {"ok", "BLOCKED_URL", "DNS_RESOLUTION_FAILED"}
  BY Resolved
<1>2. d.status # 0 /\ Decision[t][answer] = d
  BY DecisionIs
<1> HIDE DEF h, r, d
<1>3. d = IF t.port \notin Ports THEN Denial(400, "INVALID_URL")
          ELSE IF h \notin Config.allowHosts /\ t.port \notin Config.allowedPorts
          THEN Denial(403, "BLOCKED_URL")
          ELSE IF r.code = "ok" THEN [status |-> 0, code |-> "ok", value |-> r.value]
          ELSE Denial(IF r.code = "DNS_RESOLUTION_FAILED" THEN 502 ELSE 403, r.code)
  BY DEF Decide, d, h, r
<1> QED BY <1>1, <1>2, <1>3 DEF Denial

-----------------------------------------------------------------------------
(* The inductive invariant. *)

\* A request that is under way is known; only what was never answered can be.
Known == \A c \in Client : pc[c] \in {"deciding", "connecting", "forwarding", "sending"} \/ upstream[c] # "none"
                             => request[c].target \in Targets

\* Past the decision a request has a vetted address left, whatever DNS says since.
Chosen(c) == pc[c] \in {"connecting", "forwarding", "sending"} \/ upstream[c] # "none"
Fine(c) ==
  \/ request[c].target \in Trusted
  \/ request[c].target \in MayReach /\ \A i \in DOMAIN addresses[c] : addresses[c][i] \in Public
Vetting ==
  /\ addresses \in [Client -> Seq(Mentioned)] /\ attempt \in [Client -> Nat]
  /\ \A c \in Client : Chosen(c) => attempt[c] \in 1..Len(addresses[c]) /\ Fine(c)

IInv == TypeOK /\ Known /\ Vetting /\ TunnelsCounted

LEMMA InitIInv == Init => IInv
<1> SUFFICES ASSUME Init PROVE IInv
  OBVIOUS
<1>1. TypeOK
  BY DEF Init, TypeOK, Replies, None, Awaiting
<1>2. Open = {}
  BY DEF Init, Open
<1>3. TunnelsCounted
  BY <1>2, FS_EmptySet DEF Init, TunnelsCounted
<1> QED BY <1>1, <1>3 DEF Init, IInv, Known, Vetting, Chosen, Fine

\* A step that opens or closes no socket to a target and counts no tunnel.
LEMMA SameTunnels ==
  ASSUME TunnelsCounted, UNCHANGED upstream, counters'.active_tunnels = counters.active_tunnels
  PROVE  TunnelsCounted'
<1>1. Open' = Open
  BY DEF Open
<1> QED BY <1>1 DEF TunnelsCounted

\* Counting something else than a tunnel.
LEMMA OtherCounter ==
  ASSUME TypeOK, NEW name \in {"allowed", "blocked", "dns_failed", "upstream_errors", "auth_failed"}, Count(name)
  PROVE  /\ counters'.active_tunnels = counters.active_tunnels
         /\ counters' \in [{"allowed", "blocked", "dns_failed", "upstream_errors", "auth_failed",
                            "active_tunnels"} -> Nat]
BY DEF TypeOK, Count

LEMMA OpenIsFinite == IsFiniteSet(Open)
<1>1. Open \subseteq Client
  BY DEF Open
<1> QED BY <1>1, TunnelsAssumption, FS_Subset

\* A request arrives, or is answered at once.
LEMMA AsksIInv == ASSUME IInv, NEW c \in Client, Asks(c) PROVE IInv'
<1> USE DEF Goto, Answer, Awaiting, None
<1>1. CASE Direct(c)
  <2>1. TypeOK' BY <1>1 DEF IInv, TypeOK, Direct, Replies
  <2>2. TunnelsCounted' BY <1>1, SameTunnels DEF IInv, Direct
  <2> QED BY <1>1, <2>1, <2>2 DEF IInv, TypeOK, Known, Vetting, Chosen, Fine, Direct
<1>2. CASE Unauthorized(c)
  <2>9. /\ counters'.active_tunnels = counters.active_tunnels
        /\ counters' \in [{"allowed", "blocked", "dns_failed", "upstream_errors", "auth_failed",
                           "active_tunnels"} -> Nat]
    BY <1>2, OtherCounter DEF IInv, Unauthorized
  <2>1. TypeOK' BY <1>2, <2>9 DEF IInv, TypeOK, Unauthorized, Replies
  <2>2. TunnelsCounted' BY <1>2, <2>9, SameTunnels DEF IInv, Unauthorized
  <2> QED BY SMTT(30), <1>2, <2>1, <2>2 DEF IInv, TypeOK, Known, Vetting, Chosen, Fine, Unauthorized
<1>3. CASE Malformed(c)
  <2>1. TypeOK' BY <1>3 DEF IInv, TypeOK, Malformed, Replies
  <2>2. TunnelsCounted' BY <1>3, SameTunnels DEF IInv, Malformed
  <2> QED BY <1>3, <2>1, <2>2 DEF IInv, TypeOK, Known, Vetting, Chosen, Fine, Malformed
<1>4. CASE Refuse(c)
  <2>1. TypeOK' BY <1>4 DEF IInv, TypeOK, Refuse, Replies
  <2>2. TunnelsCounted' BY <1>4, SameTunnels DEF IInv, Refuse
  <2> QED BY <1>4, <2>1, <2>2 DEF IInv, TypeOK, Known, Vetting, Chosen, Fine, Refuse
<1>5. ASSUME NEW t \in Targets, NEW kind \in {"connect", "forward"}, Ask(c, kind, t) PROVE IInv'
  <2>1. TypeOK' BY <1>5 DEF IInv, TypeOK, Ask
  <2>2. TunnelsCounted' BY <1>5, SameTunnels DEF IInv, Ask
  <2>3. Known' BY <1>5 DEF IInv, TypeOK, Known, Ask
  <2>4. upstream[c] = "none" BY <1>5 DEF IInv, TypeOK, Ask
  <2>5. Vetting' BY <1>5, <2>4 DEF IInv, TypeOK, Vetting, Chosen, Fine, Ask
  <2> QED BY <2>1, <2>2, <2>3, <2>5 DEF IInv
<1> QED BY <1>1, <1>2, <1>3, <1>4, <1>5 DEF Asks, Connect, Forward

\* The lookup is done.
LEMMA DecidesIInv == ASSUME IInv, NEW c \in Client, Decides(c) PROVE IInv'
<1> USE DEF Goto, Answer, Awaiting, None
<1>1. PICK answer \in Answers : Denied(c, answer) \/ Allowed(c, answer)
  BY DEF Decides
<1>2. pc[c] = "deciding" /\ request[c].target \in Targets
  BY <1>1 DEF IInv, Known, Denied, Allowed
<1>3. reply[c] = Awaiting /\ upstream[c] = "none"
  BY <1>2 DEF IInv, TypeOK
<1> DEFINE d == Decision[request[c].target][answer]
<1>4. CASE Denied(c, answer)
  <2>1. /\ d.status \in {400, 403, 502} /\ d.code \in {"INVALID_URL", "BLOCKED_URL", "DNS_RESOLUTION_FAILED"}
    BY <1>2, <1>4, Denials DEF Denied
  <2>2. CounterOf(d.code) \in {"allowed", "blocked", "dns_failed", "upstream_errors", "auth_failed"}
    BY DEF CounterOf
  <2>3. /\ counters'.active_tunnels = counters.active_tunnels
        /\ counters' \in [{"allowed", "blocked", "dns_failed", "upstream_errors", "auth_failed",
                           "active_tunnels"} -> Nat]
    BY <1>4, <2>2, OtherCounter DEF IInv, Denied
  <2>4. /\ pc' = [pc EXCEPT ![c] = "answered"] /\ UNCHANGED <<request, addresses, attempt, upstream, client>>
        /\ reply' = [reply EXCEPT ![c] = [status |-> d.status, code |-> d.code, cut |-> FALSE]]
    BY <1>4 DEF Denied
  <2> HIDE DEF d
  <2>5. TypeOK' BY <1>2, <1>3, <2>1, <2>3, <2>4 DEF IInv, TypeOK, Replies
  <2>6. TunnelsCounted' BY <2>3, <2>4, SameTunnels DEF IInv
  <2>7. Known' /\ Vetting'
    BY <1>2, <1>3, <2>4 DEF IInv, TypeOK, Known, Vetting, Chosen, Fine
  <2> QED BY <2>5, <2>6, <2>7 DEF IInv
<1>5. CASE Allowed(c, answer)
  <2>1. /\ d.value \in Seq(Mentioned) /\ d.value # <<>>
        /\ \/ request[c].target \in Trusted
           \/ request[c].target \in MayReach /\ \A i \in DOMAIN d.value : d.value[i] \in Public
    BY <1>2, <1>5, Vetted DEF Allowed
  <2>2. /\ counters'.active_tunnels = counters.active_tunnels
        /\ counters' \in [{"allowed", "blocked", "dns_failed", "upstream_errors", "auth_failed",
                           "active_tunnels"} -> Nat]
    BY <1>5, OtherCounter DEF IInv, Allowed
  <2>3. /\ pc' = [pc EXCEPT ![c] = IF request[c].kind = "connect" THEN "connecting" ELSE "forwarding"]
        /\ addresses' = [addresses EXCEPT ![c] = d.value] /\ attempt' = [attempt EXCEPT ![c] = 1]
        /\ UNCHANGED <<request, reply, upstream, client>>
    BY <1>5 DEF Allowed
  <2> HIDE DEF d
  <2>4. 1 \in 1..Len(d.value)
    BY <2>1
  <2>5. TypeOK'
    <3>1. \A b \in Client : pc'[b] \in {"connecting", "forwarding"} => attempt'[b] \in DOMAIN addresses'[b]
      BY SMTT(30), <1>2, <2>1, <2>3, <2>4 DEF IInv, TypeOK, Vetting
    <3> QED BY SMTT(30), <1>2, <1>3, <2>2, <2>3, <3>1 DEF IInv, TypeOK
  <2>6. TunnelsCounted' BY <2>2, <2>3, SameTunnels DEF IInv
  <2>7. Known' BY <1>2, <2>3 DEF IInv, TypeOK, Known
  <2>8. addresses' \in [Client -> Seq(Mentioned)] /\ attempt' \in [Client -> Nat]
    BY <2>1, <2>3 DEF IInv, Vetting
  <2>9. ASSUME NEW b \in Client, Chosen(b)' PROVE attempt'[b] \in 1..Len(addresses'[b]) /\ Fine(b)'
    <3>1. CASE b = c
      <4>1. addresses'[c] = d.value /\ attempt'[c] = 1 /\ request'[c] = request[c]
        BY <2>3 DEF IInv, Vetting
      <4> QED BY <2>1, <2>4, <3>1, <4>1 DEF Fine
    <3>2. CASE b # c
      BY <2>3, <2>9, <3>2 DEF IInv, TypeOK, Vetting, Chosen, Fine
    <3> QED BY <3>1, <3>2
  <2> QED BY <2>5, <2>6, <2>7, <2>8, <2>9 DEF IInv, Vetting
<1> QED BY <1>1, <1>4, <1>5

\* A dial ends.
LEMMA DialsIInv == ASSUME IInv, NEW c \in Client, Dials(c) PROVE IInv'
<1> USE DEF Goto, Answer, Awaiting, None
<1>0. pc[c] = "connecting"
  BY DEF Dials, AttemptFails, AllFailed, Established
<1>1. /\ pc[c] = "connecting" /\ reply[c] = Awaiting /\ upstream[c] = "none"
      /\ addresses[c] \in Seq(Mentioned) /\ attempt[c] \in 1..Len(addresses[c])
  <2>1. reply[c] = Awaiting
    BY <1>0 DEF IInv, TypeOK
  <2>2. upstream[c] = "none"
    BY <2>1 DEF IInv, TypeOK
  <2>3. addresses[c] \in Seq(Mentioned) /\ attempt[c] \in 1..Len(addresses[c])
    BY <1>0 DEF IInv, Vetting, Chosen
  <2> QED BY <1>0, <2>1, <2>2, <2>3
<1>2. CASE AttemptFails(c)
  <2>1. attempt[c] + 1 \in 1..Len(addresses[c]) /\ attempt[c] + 1 \in DOMAIN addresses[c]
    BY <1>1, <1>2 DEF AttemptFails
  <2>2. TypeOK' BY <1>2, <2>1 DEF IInv, TypeOK, Vetting, AttemptFails
  <2>3. TunnelsCounted' BY <1>2, SameTunnels DEF IInv, AttemptFails
  <2>4. Known' BY <1>2 DEF IInv, Known, AttemptFails
  <2>5. Vetting' BY <1>2, <2>1 DEF IInv, Vetting, Chosen, Fine, AttemptFails
  <2> QED BY <2>2, <2>3, <2>4, <2>5 DEF IInv
<1>3. CASE AllFailed(c)
  <2>1. /\ counters'.active_tunnels = counters.active_tunnels
        /\ counters' \in [{"allowed", "blocked", "dns_failed", "upstream_errors", "auth_failed",
                           "active_tunnels"} -> Nat]
    BY <1>3, OtherCounter DEF IInv, AllFailed
  <2>2. TypeOK' BY <1>1, <1>3, <2>1 DEF IInv, TypeOK, AllFailed, Replies
  <2>3. TunnelsCounted' BY <1>3, <2>1, SameTunnels DEF IInv, AllFailed
  <2>4. Known' BY <1>3 DEF IInv, TypeOK, Known, AllFailed
  <2>5. Vetting' BY <1>1, <1>3 DEF IInv, TypeOK, Vetting, Chosen, Fine, AllFailed
  <2> QED BY <2>2, <2>3, <2>4, <2>5 DEF IInv
<1>4. CASE Established(c)
  <2>1. counters' = [counters EXCEPT !["active_tunnels"] = @ + 1]
    BY <1>4 DEF Established, Count
  <2>2. TypeOK' BY <1>1, <1>4, <2>1 DEF IInv, TypeOK, Established, Replies
  <2>3. Open' = Open \cup {c} /\ c \notin Open
    BY <1>1, <1>4 DEF IInv, TypeOK, Open, Established
  <2>4. Cardinality(Open') = Cardinality(Open) + 1
    BY <2>3, OpenIsFinite, FS_AddElement
  <2>5. counters'.active_tunnels = counters.active_tunnels + 1
    BY <2>1 DEF IInv, TypeOK
  <2>6. TunnelsCounted' BY <2>4, <2>5 DEF IInv, TunnelsCounted
  <2>7. Known' BY <1>4 DEF IInv, TypeOK, Known, Established
  <2>8. Vetting' BY <1>1, <1>4 DEF IInv, TypeOK, Vetting, Chosen, Fine, Established
  <2> QED BY <2>2, <2>6, <2>7, <2>8 DEF IInv
<1> QED BY <1>2, <1>3, <1>4 DEF Dials

\* A forwarded request goes on.
LEMMA ForwardsIInv == ASSUME IInv, NEW c \in Client, Forwards(c) PROVE IInv'
<1> USE DEF Goto, Answer, Awaiting, None
<1>1. CASE Responds(c)
  <2>1. TypeOK' BY <1>1 DEF IInv, TypeOK, Responds, Replies
  <2>2. TunnelsCounted' BY <1>1, SameTunnels DEF IInv, Responds
  <2>3. Known' BY <1>1 DEF IInv, TypeOK, Known, Responds
  <2>4. Vetting' BY <1>1 DEF IInv, TypeOK, Vetting, Chosen, Fine, Responds
  <2> QED BY <2>1, <2>2, <2>3, <2>4 DEF IInv
<1>2. CASE ForwardFails(c)
  <2>9. /\ counters'.active_tunnels = counters.active_tunnels
        /\ counters' \in [{"allowed", "blocked", "dns_failed", "upstream_errors", "auth_failed",
                           "active_tunnels"} -> Nat]
    BY <1>2, OtherCounter DEF IInv, ForwardFails
  <2>1. TypeOK' BY <1>2, <2>9 DEF IInv, TypeOK, ForwardFails, Replies
  <2>2. TunnelsCounted' BY <1>2, <2>9, SameTunnels DEF IInv, ForwardFails
  <2>3. Known' BY <1>2 DEF IInv, TypeOK, Known, ForwardFails
  <2>4. Vetting' BY <1>2 DEF IInv, TypeOK, Vetting, Chosen, Fine, ForwardFails
  <2> QED BY <2>1, <2>2, <2>3, <2>4 DEF IInv
<1>3. CASE Sent(c)
  <2>1. TypeOK' BY <1>3 DEF IInv, TypeOK, Sent, Replies
  <2>2. TunnelsCounted' BY <1>3, SameTunnels DEF IInv, Sent
  <2>3. Known' BY <1>3 DEF IInv, TypeOK, Known, Sent
  <2>4. Vetting' BY <1>3 DEF IInv, TypeOK, Vetting, Chosen, Fine, Sent
  <2> QED BY <2>1, <2>2, <2>3, <2>4 DEF IInv
<1>4. CASE Cut(c)
  <2>9. /\ counters'.active_tunnels = counters.active_tunnels
        /\ counters' \in [{"allowed", "blocked", "dns_failed", "upstream_errors", "auth_failed",
                           "active_tunnels"} -> Nat]
    BY <1>4, OtherCounter DEF IInv, Cut
  <2>1. TypeOK' BY <1>4, <2>9 DEF IInv, TypeOK, Cut, Replies
  <2>2. TunnelsCounted' BY <1>4, <2>9, SameTunnels DEF IInv, Cut
  <2>3. Known' BY <1>4 DEF IInv, TypeOK, Known, Cut
  <2>4. Vetting' BY <1>4 DEF IInv, TypeOK, Vetting, Chosen, Fine, Cut
  <2> QED BY <2>1, <2>2, <2>3, <2>4 DEF IInv
<1>5. CASE BreaksOff(c)
  <2>1. TypeOK' BY <1>5 DEF IInv, TypeOK, BreaksOff, Replies
  <2>2. TunnelsCounted' BY <1>5, SameTunnels DEF IInv, BreaksOff
  <2>3. Known' BY <1>5 DEF IInv, TypeOK, Known, BreaksOff
  <2>4. Vetting' BY <1>5 DEF IInv, TypeOK, Vetting, Chosen, Fine, BreaksOff
  <2> QED BY <2>1, <2>2, <2>3, <2>4 DEF IInv
<1> QED BY <1>1, <1>2, <1>3, <1>4, <1>5 DEF Forwards

\* A socket's event.
LEMMA TunnelsIInv == ASSUME IInv, NEW c \in Client, Tunnels(c) PROVE IInv'
<1>1. CASE ClientCloses(c) \/ UpstreamEnds(c) \/ UpstreamError(c) \/ IdleTimeout(c)
  <2>1. /\ upstream' = upstream \/ (upstream[c] = "open" /\ upstream' = [upstream EXCEPT ![c] = "closing"])
        /\ client' \in [Client -> {"open", "closed"}]
        /\ UNCHANGED <<pc, request, addresses, attempt, reply, counters>>
    BY <1>1 DEF IInv, TypeOK, ClientCloses, UpstreamEnds, UpstreamError, IdleTimeout
  <2>2. TypeOK' BY <2>1 DEF IInv, TypeOK
  <2>3. Open' = Open BY <2>1 DEF IInv, TypeOK, Open
  <2>4. TunnelsCounted' BY <2>1, <2>3 DEF IInv, TunnelsCounted
  <2>5. Known' BY <2>1 DEF IInv, TypeOK, Known
  <2>6. Vetting' BY <2>1 DEF IInv, TypeOK, Vetting, Chosen, Fine
  <2> QED BY <2>2, <2>4, <2>5, <2>6 DEF IInv
<1>2. CASE UpstreamClosed(c)
  <2>1. Open' = Open \ {c} /\ c \in Open
    BY <1>2 DEF IInv, TypeOK, Open, UpstreamClosed
  <2>2. Cardinality(Open') = Cardinality(Open) - 1 /\ Cardinality(Open) \in Nat
    BY <2>1, OpenIsFinite, FS_RemoveElement, FS_CardinalityType
  <2>3. Cardinality(Open) # 0
    BY <2>1, OpenIsFinite, FS_EmptySet
  <2>4. counters.active_tunnels \in Nat \ {0}
    BY <2>2, <2>3 DEF IInv, TunnelsCounted
  <2>5. /\ counters'.active_tunnels = counters.active_tunnels - 1
        /\ counters' \in [{"allowed", "blocked", "dns_failed", "upstream_errors", "auth_failed",
                           "active_tunnels"} -> Nat]
    <3>1. counters' = [counters EXCEPT !["active_tunnels"] = counters.active_tunnels - 1]
      BY <1>2, <2>4 DEF UpstreamClosed
    <3>2. counters.active_tunnels - 1 \in Nat
      BY <2>4
    <3> QED BY <3>1, <3>2 DEF IInv, TypeOK
  <2>6. TunnelsCounted' BY <2>2, <2>5 DEF IInv, TunnelsCounted
  <2>7. TypeOK' BY <1>2, <2>5 DEF IInv, TypeOK, UpstreamClosed
  <2>8. Known' BY <1>2 DEF IInv, TypeOK, Known, UpstreamClosed
  <2>9. Vetting' BY <1>2 DEF IInv, TypeOK, Vetting, Chosen, Fine, UpstreamClosed
  <2> QED BY <2>6, <2>7, <2>8, <2>9 DEF IInv
<1> QED BY <1>1, <1>2 DEF Tunnels

LEMMA NextIInv == IInv /\ [Next]_vars => IInv'
<1> SUFFICES ASSUME IInv, [Next]_vars PROVE IInv'
  OBVIOUS
<1>1. CASE Next
  BY <1>1, AsksIInv, DecidesIInv, DialsIInv, ForwardsIInv, TunnelsIInv DEF Next
<1>2. CASE UNCHANGED vars
  BY <1>2 DEF vars, IInv, TypeOK, Known, Vetting, Chosen, Fine, TunnelsCounted, Open
<1> QED BY <1>1, <1>2

THEOREM Invariant == Spec => []IInv
BY InitIInv, NextIInv, PTL DEF Spec

\* The types hold throughout: an answered request has its reply, a dialled one an
\* address left to dial.
THEOREM TypeCorrect == Spec => []TypeOK
<1>1. IInv => TypeOK BY DEF IInv
<1> QED BY Invariant, <1>1, PTL

\* active_tunnels is the number of open sockets to targets, for any number of
\* requests and however their tunnels end.
THEOREM TunnelsAreCounted == Spec => []TunnelsCounted
<1>1. IInv => TunnelsCounted BY DEF IInv
<1> QED BY Invariant, <1>1, PTL

\* Whatever DNS answers, at any time, the proxy dials and forwards only to
\* addresses that were vetted, or to trusted hosts.
THEOREM OnlyVetted == Spec => []ConnectsOnlyToVetted
<1>1. IInv => ConnectsOnlyToVetted
  <2> SUFFICES ASSUME IInv, NEW c \in Client, Chosen(c)
               PROVE  \/ request[c].target \in Trusted
                      \/ request[c].target \in MayReach /\ Dialled(c) \in Public
    BY DEF ConnectsOnlyToVetted, Chosen
  <2>1. addresses[c] \in Seq(Mentioned) /\ attempt[c] \in 1..Len(addresses[c]) /\ Fine(c)
    BY DEF IInv, Vetting
  <2>2. attempt[c] \in DOMAIN addresses[c]
    BY <2>1
  <2> QED BY <2>1, <2>2 DEF Fine, Dialled
<1> QED BY Invariant, <1>1, PTL

\* The API's pre-flight check accepts exactly what the proxy lets through, for
\* any policy, target and DNS answer, port 0 of a trusted host excepted: the
\* proxy's decide() refuses it whatever the check says.
THEOREM PreflightIsRight == Spec => []PreflightAgrees
<1>1. IInv => PreflightAgrees
  BY SameDecision DEF IInv, Known, PreflightAgrees
<1> QED BY Invariant, <1>1, PTL
===============================================================================
