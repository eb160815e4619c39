------------------------- MODULE MCCollectionsIndexer -------------------------
EXTENDS CollectionsIndexer, TLC

Symmetric == Permutations(Values)
=============================================================================
