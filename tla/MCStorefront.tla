---------------------------- MODULE MCStorefront ----------------------------
EXTENDS StorefrontInvariant, TLC
Symmetry == Permutations(Orders) \cup Permutations(Invoices)
         \cup Permutations(Deliveries) \cup Permutations(Requests) \cup Permutations(Workers)
=============================================================================
