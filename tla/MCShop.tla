-------------------------------- MODULE MCShop --------------------------------
EXTENDS Shop, TLC
Symmetry == Permutations(Orders) \cup Permutations(Invoices) \cup Permutations(Users)
         \cup Permutations(Sessions)
\* Every offering has a price of its own.
PriceList == CHOOSE p \in [Offerings -> Amounts] :
               \A f, g \in Offerings : p[f] = p[g] => f = g
===============================================================================
