---------------------------- MODULE MCTransactions ----------------------------
EXTENDS Transactions, TLC
Symmetry == Permutations(Orders) \cup Permutations(Invoices) \cup Permutations(Workers)
         \cup Permutations(Txs)
===============================================================================
