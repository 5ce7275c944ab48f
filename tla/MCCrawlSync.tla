----------------------------- MODULE MCCrawlSync -----------------------------
EXTENDS CrawlSync, TLC

Symmetry == Permutations(Instance) \cup Permutations(Page)
=============================================================================
