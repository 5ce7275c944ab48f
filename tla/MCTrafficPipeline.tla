-------------------------- MODULE MCTrafficPipeline --------------------------
EXTENDS TrafficPipeline, TLC

\* Every kind one at a time.
CapOne == [k \in Kind |-> 1]

\* Finalize is tried again once.
AttemptsFew == [k \in Kind |-> IF k = Finalize THEN 2 ELSE 1]

Symmetry == Permutations(Worker) \cup Permutations(Client)
              \cup Permutations(Domain) \cup Permutations(Collector)
==============================================================================
