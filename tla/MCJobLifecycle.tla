--------------------------- MODULE MCJobLifecycle ---------------------------
EXTENDS JobLifecycle, TLC

Instances == Permutations(Instance)
=============================================================================
