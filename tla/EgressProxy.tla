----------------------------- MODULE EgressProxy -----------------------------
(***************************************************************************)
(* The egress proxy: CONNECT tunnels and forwarded http:// requests.  A    *)
(* handler runs up to its next await in one step; the lookup, the connect  *)
(* attempts, the sockets' events and their timeouts are steps of their     *)
(* own, so requests interleave between them.                               *)
(***************************************************************************)
EXTENDS NetPolicy, FiniteSets

CONSTANTS
  Client,      \* one request each
  Targets,     \* what they ask for: [host, port]
  Answers,     \* what DNS may say: sequences of addresses, none when it fails
  Config,      \* the NetPolicyConfig of createPolicyConfig
  MaxTunnels   \* MAX_TUNNELS

ASSUME TunnelsAssumption == IsFiniteSet(Client) /\ MaxTunnels \in Nat
ASSUME AnswersAssumption == \A answer \in Answers : answer \in Seq({answer[i] : i \in DOMAIN answer})

\* createPolicyConfig keeps the ports that are one.
Ports == 1..65535
ASSUME PortsAssumption == Config.allowedPorts \subseteq Ports

\* The engine asks for the hosts of URLs: no dot follows an address in brackets.
ASSUME TargetsAssumption == \A t \in Targets : ~(t.host.brackets /\ t.host.dots)

VARIABLES
  pc,         \* where the handler of the request is
  request,    \* kind and target of the request
  addresses,  \* what decide() vetted
  attempt,    \* index of the address being dialled
  reply,      \* status, denial code, and whether the body was cut short
  upstream,   \* socket to the target
  client,     \* socket from the engine
  counters    \* what /metrics shows

vars == <<pc, request, addresses, attempt, reply, upstream, client, counters>>

None == [kind |-> "none", target |-> "none"]
Awaiting == [status |-> 0, code |-> "none", cut |-> FALSE]

Init ==
  /\ pc = [c \in Client |-> "idle"] /\ request = [c \in Client |-> None]
  /\ addresses = [c \in Client |-> <<>>] /\ attempt = [c \in Client |-> 0]
  /\ reply = [c \in Client |-> Awaiting]
  /\ upstream = [c \in Client |-> "none"] /\ client = [c \in Client |-> "open"]
  /\ counters = [allowed |-> 0, blocked |-> 0, dns_failed |-> 0, upstream_errors |-> 0,
                 auth_failed |-> 0, active_tunnels |-> 0]

-----------------------------------------------------------------------------
Goto(c, from, to) == pc[c] = from /\ pc' = [pc EXCEPT ![c] = to]
Answer(c, status, code) ==
  reply' = [reply EXCEPT ![c] = [status |-> status, code |-> code, cut |-> FALSE]]
Count(name) == counters' = [counters EXCEPT ![name] = @ + 1]

Direct(c) ==
  /\ Goto(c, "idle", "answered")
  /\ \E status \in {200, 404} : Answer(c, status, "none")
  /\ UNCHANGED <<request, addresses, attempt, upstream, client, counters>>

Unauthorized(c) ==
  /\ Goto(c, "idle", "answered") /\ Answer(c, 407, "none") /\ Count("auth_failed")
  /\ UNCHANGED <<request, addresses, attempt, upstream, client>>

\* Not an absolute http: URL.
Malformed(c) ==
  /\ Goto(c, "idle", "answered") /\ Answer(c, 400, "none")
  /\ UNCHANGED <<request, addresses, attempt, upstream, client, counters>>

Ask(c, kind, t) ==
  /\ Goto(c, "idle", "deciding")
  /\ request' = [request EXCEPT ![c] = [kind |-> kind, target |-> t]]
  /\ UNCHANGED <<addresses, attempt, reply, upstream, client, counters>>

Forward(c, t) == Ask(c, "forward", t)
Connect(c, t) == counters.active_tunnels < MaxTunnels /\ Ask(c, "connect", t)

Refuse(c) ==
  /\ counters.active_tunnels >= MaxTunnels
  /\ Goto(c, "idle", "answered") /\ Answer(c, 503, "none")
  /\ UNCHANGED <<request, addresses, attempt, upstream, client, counters>>

-----------------------------------------------------------------------------
Denial(status, code) == [status |-> status, code |-> code, value |-> <<>>]

\* decide(): the status of a denial, 0 when the target may be reached.
Decide(t, answer) ==
  LET host == NormalizeHostname(t.host)
      r    == ResolvePublicAddresses(host, Config, answer)
  IN  IF t.port \notin Ports THEN Denial(400, "INVALID_URL")
      ELSE IF host \notin Config.allowHosts /\ t.port \notin Config.allowedPorts
      THEN Denial(403, "BLOCKED_URL")
      ELSE IF r.code = "ok" THEN [status |-> 0, code |-> "ok", value |-> r.value]
      ELSE Denial(IF r.code = "DNS_RESOLUTION_FAILED" THEN 502 ELSE 403, r.code)

Decision == [t \in Targets |-> [answer \in Answers |-> Decide(t, answer)]]

\* record()
CounterOf(code) ==
  CASE code = "ok" -> "allowed"
    [] code = "DNS_RESOLUTION_FAILED" -> "dns_failed"
    [] OTHER -> "blocked"

Denied(c, answer) ==
  LET d == Decision[request[c].target][answer]
  IN  /\ Goto(c, "deciding", "answered")
      /\ d.status # 0 /\ Answer(c, d.status, d.code) /\ Count(CounterOf(d.code))
      /\ UNCHANGED <<request, addresses, attempt, upstream, client>>

Allowed(c, answer) ==
  LET d == Decision[request[c].target][answer]
  IN  /\ Goto(c, "deciding", IF request[c].kind = "connect" THEN "connecting" ELSE "forwarding")
      /\ d.status = 0 /\ Count("allowed")
      /\ addresses' = [addresses EXCEPT ![c] = d.value]
      /\ attempt' = [attempt EXCEPT ![c] = 1]
      /\ UNCHANGED <<request, reply, upstream, client>>

-----------------------------------------------------------------------------
\* connectVetted(): refused, unreachable or timed out, the next address is tried.
AttemptFails(c) ==
  /\ pc[c] = "connecting" /\ attempt[c] < Len(addresses[c])
  /\ attempt' = [attempt EXCEPT ![c] = @ + 1]
  /\ UNCHANGED <<pc, request, addresses, reply, upstream, client, counters>>

AllFailed(c) ==
  /\ attempt[c] = Len(addresses[c])
  /\ Goto(c, "connecting", "answered") /\ Answer(c, 502, "none") /\ Count("upstream_errors")
  /\ UNCHANGED <<request, addresses, attempt, upstream, client>>

\* The handlers of both sockets are installed here, whatever became of the client.
Established(c) ==
  /\ Goto(c, "connecting", "answered") /\ Answer(c, 200, "none") /\ Count("active_tunnels")
  /\ upstream' = [upstream EXCEPT ![c] = "open"]
  /\ UNCHANGED <<request, addresses, attempt, client>>

\* Mutant: done() runs for the client's close event as well.
ClientClosesDone(c) ==
  /\ pc[c] # "idle" /\ client[c] = "open"
  /\ client' = [client EXCEPT ![c] = "closed"]
  /\ upstream' = [upstream EXCEPT ![c] = IF @ = "open" THEN "closing" ELSE @]
  /\ counters' = [counters EXCEPT !.active_tunnels =
                    IF upstream[c] = "open" THEN @ - 1 ELSE @]
  /\ UNCHANGED <<pc, request, addresses, attempt, reply>>

\* The client's close handler ends the tunnel, once there is one; a request
\* that is being decided, dialled or forwarded has no such handler.
ClientCloses(c) ==
  /\ pc[c] # "idle" /\ client[c] = "open"
  /\ client' = [client EXCEPT ![c] = "closed"]
  /\ upstream' = [upstream EXCEPT ![c] = IF @ = "open" THEN "closing" ELSE @]
  /\ UNCHANGED <<pc, request, addresses, attempt, reply, counters>>

\* The target ends the connection: pipe() ends the client's side after the last byte.
UpstreamEnds(c) ==
  /\ upstream[c] = "open" /\ upstream' = [upstream EXCEPT ![c] = "closing"]
  /\ UNCHANGED <<pc, request, addresses, attempt, reply, client, counters>>

UpstreamError(c) ==
  /\ upstream[c] = "open" /\ upstream' = [upstream EXCEPT ![c] = "closing"]
  /\ client' = [client EXCEPT ![c] = "closed"]
  /\ UNCHANGED <<pc, request, addresses, attempt, reply, counters>>

\* Mutant: only the client's socket has an idle timeout.
IdleTimeoutOfClient(c) ==
  /\ upstream[c] = "open" /\ client[c] = "open"
  /\ upstream' = [upstream EXCEPT ![c] = "closing"]
  /\ client' = [client EXCEPT ![c] = "closed"]
  /\ UNCHANGED <<pc, request, addresses, attempt, reply, counters>>

\* IDLE_TIMEOUT_MS without a byte; nothing reads a tunnel whose client is gone.
IdleTimeout(c) ==
  /\ upstream[c] = "open" /\ upstream' = [upstream EXCEPT ![c] = "closing"]
  /\ UNCHANGED <<pc, request, addresses, attempt, reply, client, counters>>

\* The close event, and done().
UpstreamClosed(c) ==
  /\ upstream[c] = "closing" /\ upstream' = [upstream EXCEPT ![c] = "closed"]
  /\ counters' = [counters EXCEPT !.active_tunnels = IF @ = 0 THEN 0 ELSE @ - 1]
  /\ UNCHANGED <<pc, request, addresses, attempt, reply, client>>

-----------------------------------------------------------------------------
\* A forwarded request goes to the first vetted address and is answered by it ...
Responds(c) ==
  /\ Goto(c, "forwarding", "sending") /\ Answer(c, 200, "none")
  /\ UNCHANGED <<request, addresses, attempt, upstream, client, counters>>

\* ... by a 502 when it cannot be reached or stays silent ...
ForwardFails(c) ==
  /\ Goto(c, "forwarding", "answered") /\ Answer(c, 502, "none") /\ Count("upstream_errors")
  /\ UNCHANGED <<request, addresses, attempt, upstream, client>>

Sent(c) ==
  /\ Goto(c, "sending", "answered")
  /\ UNCHANGED <<request, addresses, attempt, reply, upstream, client, counters>>

\* ... and is cut short when the socket to the target fails in the middle of the
\* body, or no byte comes for IDLE_TIMEOUT_MS: the request raises an error.
Cut(c) ==
  /\ Goto(c, "sending", "answered") /\ Count("upstream_errors")
  /\ reply' = [reply EXCEPT ![c] = [status |-> 200, code |-> "none", cut |-> TRUE]]
  /\ UNCHANGED <<request, addresses, attempt, upstream, client>>

\* A target that closes its end before the body is whole raises the error on the
\* response, where nothing listens: pipe() does not end the reply, and nobody counts.
BreaksOff(c) ==
  /\ Goto(c, "sending", "stalled")
  /\ UNCHANGED <<request, addresses, attempt, reply, upstream, client, counters>>

-----------------------------------------------------------------------------
Asks(c) ==
  \/ Direct(c) \/ Unauthorized(c) \/ Malformed(c) \/ Refuse(c)
  \/ \E t \in Targets : Connect(c, t) \/ Forward(c, t)
Decides(c) == \E answer \in Answers : Denied(c, answer) \/ Allowed(c, answer)
Dials(c) == AttemptFails(c) \/ AllFailed(c) \/ Established(c)
Forwards(c) == Responds(c) \/ ForwardFails(c) \/ Sent(c) \/ Cut(c) \/ BreaksOff(c)
Tunnels(c) ==
  \/ ClientCloses(c) \/ UpstreamEnds(c) \/ UpstreamError(c) \/ IdleTimeout(c) \/ UpstreamClosed(c)

Next == \E c \in Client : Asks(c) \/ Decides(c) \/ Dials(c) \/ Forwards(c) \/ Tunnels(c)

Spec == Init /\ [][Next]_vars

\* The lookup, each dial and a forwarded request end at their timeouts; a socket
\* that was destroyed closes; a tunnel nobody reads goes idle.  Nobody has to ask.
FairSpec ==
  /\ Spec
  /\ \A c \in Client :
       /\ WF_vars(Decides(c)) /\ WF_vars(Dials(c)) /\ WF_vars(Forwards(c))
       /\ WF_vars(UpstreamClosed(c)) /\ WF_vars(client[c] = "closed" /\ IdleTimeout(c))

-----------------------------------------------------------------------------
Replies == {Awaiting} \cup
  [status : {200, 400, 403, 404, 407, 502, 503},
   code : {"none", "INVALID_URL", "BLOCKED_URL", "DNS_RESOLUTION_FAILED"}, cut : BOOLEAN]

\* A request is answered exactly when it has been replied to; one that dials or
\* forwards was decided and has an address left; only a tunnel has an upstream socket.
TypeOK ==
  /\ pc \in [Client -> {"idle", "deciding", "connecting", "forwarding", "sending", "stalled",
                    "answered"}]
  /\ request \in [Client -> {None} \cup [kind : {"connect", "forward"}, target : Targets]]
  /\ reply \in [Client -> Replies]
  /\ upstream \in [Client -> {"none", "open", "closing", "closed"}]
  /\ client \in [Client -> {"open", "closed"}]
  /\ counters \in [{"allowed", "blocked", "dns_failed", "upstream_errors", "auth_failed",
                    "active_tunnels"} -> Nat]
  /\ \A c \in Client :
       /\ pc[c] \in {"answered", "sending", "stalled"} <=> reply[c] # Awaiting
       /\ pc[c] \in {"connecting", "forwarding"} => attempt[c] \in DOMAIN addresses[c]
       /\ upstream[c] # "none" => reply[c].status = 200

Open == {c \in Client : upstream[c] \in {"open", "closing"}}

\* The limit compares against active_tunnels: it must be the number of sockets to
\* targets, however tunnels end (either side, an error, a timeout, a client that
\* left while its target was dialled), or the proxy refuses with room to spare.
TunnelsCounted == counters.active_tunnels = Cardinality(Open)

\* Whatever DNS says later, and whichever of a host's addresses answers in the end,
\* bytes only go to an address that was vetted for the port and host asked for.
Dialled(c) == addresses[c][attempt[c]]
Mentioned ==
  (UNION {{answer[i] : i \in DOMAIN answer} : answer \in Answers}) \cup {t.host.address : t \in Targets}
Public == {a \in Mentioned : ~BlockedAddress(a)}
MayReach == {t \in Targets : t.port \in Config.allowedPorts}
Trusted == {t \in Targets : NormalizeHostname(t.host) \in Config.allowHosts}
ConnectsOnlyToVetted ==
  \A c \in Client :
    (pc[c] \in {"connecting", "forwarding", "sending"} \/ upstream[c] # "none") =>
      \/ request[c].target \in Trusted
      \/ request[c].target \in MayReach /\ Dialled(c) \in Public

\* The API's pre-flight check and the proxy agree: with the same configuration and
\* the same DNS answer a job's URL is accepted iff the proxy lets the engine reach
\* it.  Except at port 0 of a trusted host, which the pre-flight check does not look
\* at and the proxy calls an invalid port.
UrlOf(t) == [parses |-> t.port \in {0} \cup Ports, scheme |-> "https", credentials |-> FALSE,
             host |-> t.host, port |-> IF t.port = 443 THEN <<>> ELSE <<t.port>>]
Preflight == [t \in Targets |-> [answer \in Answers |-> CheckUrl(UrlOf(t), Config, answer)]]
PreflightAgrees ==
  \A c \in Client : pc[c] = "deciding" =>
    LET t == request[c].target
    IN  \A answer \in Answers :
          IF t \in Trusted /\ t.port = 0 THEN Decision[t][answer].status = 400
          ELSE Preflight[t][answer] = "ok" <=> Decision[t][answer].status = 0

\* Every request is answered: no lookup, dial or forward outlives its timeout,
\* except that a forwarded reply stays open when its target breaks off in mid-body.
\* And no tunnel stays open, and counted, once the engine has dropped its side,
\* even when that was before the tunnel had a close handler.
EveryRequestSettles ==
  /\ \A c \in Client : pc[c] # "idle" ~> pc[c] \in {"answered", "stalled"}
  /\ \A c \in Client : client[c] = "closed" /\ upstream[c] # "none" ~> upstream[c] = "closed"
==============================================================================
