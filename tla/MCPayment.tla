------------------------------ MODULE MCPayment ------------------------------
EXTENDS PaymentFlow, TLC
Symmetry == Permutations(Orders) \cup Permutations(Invoices)
         \cup Permutations(Deliveries) \cup Permutations(Requests)
=============================================================================
