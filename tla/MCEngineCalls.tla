---------------------------- MODULE MCEngineCalls ----------------------------
EXTENDS TrafficCalls, TLC

\* Catalogs of none, a full, a short and several pages, of 2 products each;
\* budgets that end within the first, the second and the third of them.
SmallBudgets == {1, 2, 4, 6}
SmallShops == {0, 2, 3, 6}
FewPages == {0, 1, 3}

\* Every outcome is one that some answer has.
ASSUME PageOutcomes = Outcome

Symmetry == Permutations(Domain)
==============================================================================
