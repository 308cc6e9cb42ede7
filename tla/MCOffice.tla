------------------------------ MODULE MCOffice ------------------------------
EXTENDS Office

\* The goroutines that serve requests are alike.
Alike == Permutations(Worker)

\* The catalog and the prices share the products; the others share nothing.
Neighbours == {{"catalog", "prices"}, {"records"}, {"orders"}}

\* Without a price, cheap, and dear; the cheap one has the highest fee.
Offers == {[price |-> 0, fee |-> 0], [price |-> 1, fee |-> 1], [price |-> 2, fee |-> 0]}
=============================================================================
