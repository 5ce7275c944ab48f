---------------------------- MODULE MCEgressProxy ----------------------------
EXTENDS EgressProxy
CONSTANTS c1, c2

TwoClients == {c1, c2}

PublicAddress == V4(<<93, 184, 215, 14>>)
Public6 == V6(<<9734, 18176, 18176, 0, 0, 0, 0, 4369>>)
Metadata == V6(<<100, 65435, 0, 0, 0, 0, 43518, 43518>>)

\* A shop, its name with a trailing dot and a closed port, an address literal of
\* the metadata service, and a trusted test host on a port of its own and at port 0.
MCTargets == {
  [host |-> Name(<<"shop", "example">>), port |-> 443],
  [host |-> [Name(<<"shop", "example">>) EXCEPT !.dots = TRUE], port |-> 6379],
  [host |-> [Literal(Metadata) EXCEPT !.brackets = TRUE], port |-> 80],
  [host |-> Name(<<"testsite">>), port |-> 9999],
  [host |-> Name(<<"testsite">>), port |-> 0]}

MCAnswers == {<<>>, <<PublicAddress>>, <<Public6, PublicAddress>>, <<PublicAddress, Metadata>>}
MCConfig == CreatePolicyConfig({Name(<<"testsite">>)}, {})
==============================================================================
