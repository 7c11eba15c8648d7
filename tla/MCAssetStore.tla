---------------------------- MODULE MCAssetStore ----------------------------
EXTENDS AssetStore, TLC

Symmetry == Permutations(Tenants) \cup Permutations(Assets) \cup Permutations(Threads)
=============================================================================
