--------------------- MODULE MCStorageEngineRefinement ---------------------
EXTENDS StorageEngineRefinement, TLC

Symmetry ==
    Permutations(Clients) \cup Permutations(Workers)
        \cup Permutations(Keys) \cup Permutations(Values)
=============================================================================
