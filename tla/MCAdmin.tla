-------------------------------- MODULE MCAdmin --------------------------------
EXTENDS AdminCatalogue, TLC
Symmetry == Permutations(Tabs) \cup Permutations(Calls) \cup Permutations(Offerings)
         \cup Permutations(Codes)
================================================================================
