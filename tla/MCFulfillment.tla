----------------------------- MODULE MCFulfillment -----------------------------
EXTENDS FulfillmentWorker, TLC
Symmetry == Permutations(Orders) \cup Permutations(Invoices) \cup Permutations(Workers)
===============================================================================
