---------------------------- MODULE MCItemsIndexer ----------------------------
EXTENDS ItemsIndexer

\* Network 2 has the number of the second row of the item.
MCNetworks == {2, 9}
MCSupported == {2}
=============================================================================
