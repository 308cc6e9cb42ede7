------------------------------- MODULE Office -------------------------------
(***************************************************************************)
(* The requests of administrators and clients that keep the tables of the  *)
(* gateway: the catalog and the providers' prices, the records that are    *)
(* edited row by row, and the rows of new orders.                          *)
(*                                                                         *)
(* The four groups of tables share little but the way requests meet (the   *)
(* prices look up products), so a behaviour opens some of the desks only.  *)
(***************************************************************************)
EXTENDS ProviderPrices, AdminRecords, OrderIntake

CONSTANT Desks    \* the sets of desks that may be open together

VARIABLE desks

vars == <<requests, constrained, catalog, prices, records, orders, desks>>

\* A closed desk keeps one initial state; of the records, only those with a key
\* meet the constraints.
Init ==
    /\ desks \in Desks
    /\ InitRequests
    /\ InitCatalog
    /\ InitPrices
    /\ InitRecords
    /\ IF "records" \in desks THEN KeyColumn(table) = None => constrained ELSE table = "payout_routes"
    /\ InitOrders

AtCatalog ==
    /\ "catalog" \in desks
    /\ \E w \in Worker : CatalogRequest(w) \/ CatalogWrite(w) \/ CatalogFails(w)
    /\ UNCHANGED <<prices, records, orders, desks>>

AtPrices ==
    /\ "prices" \in desks
    /\ PricesNext
    /\ UNCHANGED <<records, orders, desks>>

AtRecords ==
    /\ "records" \in desks
    /\ RecordsNext
    /\ UNCHANGED <<catalog, prices, orders, desks>>

AtOrders ==
    /\ "orders" \in desks
    /\ OrdersNext
    /\ UNCHANGED <<catalog, prices, records, desks>>

Next == AtCatalog \/ AtPrices \/ AtRecords \/ AtOrders

Spec == Init /\ [][Next]_vars
=============================================================================
