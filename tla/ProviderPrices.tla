--------------------------- MODULE ProviderPrices ---------------------------
(***************************************************************************)
(* The prices of the providers of a product (PPOBProviderHandler and       *)
(* PPOBProviderRepository): administrators map products to providers, the  *)
(* price synchronisation updates the mappings, the product list shows the  *)
(* best price and the router takes the options in order: by price for a    *)
(* prepaid purchase, by the fee that is left of admin and commission for a *)
(* postpaid one.                                                           *)
(***************************************************************************)
EXTENDS ProductCatalog, Integers

CONSTANTS
    Provider,   \* providers, by their priority
    Reserve,    \* the providers marked is_backup
    Terms       \* prices (0 is unknown) and fees (admin - commission) of a mapping

ASSUME PriceAssumption ==
    /\ Provider \subseteq Nat /\ Reserve \subseteq Provider
    /\ Terms \subseteq [price : Nat, fee : Int]
    /\ None \notin Nat

VARIABLES
    mapping,    \* mapping[i]: row i of ppob_provider_skus
    enabled     \* the providers that are active

prices == <<mapping, enabled>>

InitPrices ==
    /\ mapping = [i \in Id |-> None]
    /\ enabled = Provider

\* PUT /ppob/providers/:id/status
UpdateProviderStatus(p, active) ==
    /\ AtOnce([reads |-> {}, writes |-> {"providers"}])
    /\ enabled' = IF active THEN enabled \cup {p} ELSE enabled \ {p}
    /\ UNCHANGED <<mapping, catalog>>

Mapped(provider, product) ==
    \E i \in Rows(mapping) : mapping[i].provider = provider /\ mapping[i].product = product

\* POST /ppob/providers/:id/skus: a failing check refuses the request.  That the
\* product exists is not checked.
CreateProviderSKU(w, provider, product, t, active) ==
    /\ ~Mapped(provider, product)
    /\ Begin(w, [op |-> "CreateProviderSKU", reads |-> {}, writes |-> {"mapping"},
                 row |-> [provider |-> provider, product |-> product, price |-> t.price,
                          fee |-> t.fee, active |-> active, available |-> TRUE]])
    /\ UNCHANGED <<blind, prices, catalog>>

\* PUT /ppob/skus/:id: the row is found through its product; every
\* column comes from the request.
UpdateProviderSKU(w, i, t, active, available) ==
    /\ i \in Rows(mapping)
    /\ mapping[i].product \in Rows(products)
    /\ Begin(w, [op |-> "UpdateProviderSKU", reads |-> {}, writes |-> {"mapping"}, id |-> i,
                 row |-> [mapping[i] EXCEPT !.price = t.price, !.fee = t.fee, !.active = active,
                                            !.available = available]])
    /\ UNCHANGED <<blind, prices, catalog>>

WriteProviderSKU(w) ==
    LET r == job[w] IN
    /\ \/ /\ r.op = "CreateProviderSKU"
          /\ Insertable(Mapped(r.row.provider, r.row.product))
          /\ \E i \in Id : NextId("mapping", i) /\ mapping' = [mapping EXCEPT ![i] = r.row]
       \/ /\ r.op = "UpdateProviderSKU"
          /\ mapping' = [i \in Id |-> IF i = r.id /\ i \in Rows(mapping) THEN r.row ELSE mapping[i]]
          /\ UNCHANGED issued
    /\ Done(w)
    /\ UNCHANGED <<enabled, master, products, skus, renamed>>

PricesFail(w) ==
    /\ job[w].op \in {"CreateProviderSKU", "UpdateProviderSKU"}
    /\ Done(w)
    /\ UNCHANGED <<prices, catalog>>

\* DELETE /ppob/skus/:id
DeleteProviderSKU(i) ==
    /\ i \in Rows(mapping)
    /\ AtOnce([reads |-> {}, writes |-> {"mapping"}])
    /\ mapping' = [mapping EXCEPT ![i] = None]
    /\ UNCHANGED <<enabled, catalog>>

\* UpdateProviderSKUPrice, for the synchronisation of prices; admin is optional.
SyncPrice(i, t, available) ==
    /\ i \in Rows(mapping)
    /\ AtOnce([reads |-> {}, writes |-> {"mapping"}])
    /\ mapping' = [mapping EXCEPT ![i].price = t.price, ![i].fee = t.fee,
                                  ![i].available = available]
    /\ UNCHANGED <<enabled, catalog>>

\* Bound: a mapping is created active, as an update may leave it or not.
PricesRequest(w) ==
    /\ Free(w)
    /\ \E t \in Terms :
         \/ \E q \in Provider, p \in Id : CreateProviderSKU(w, q, p, t, TRUE)
         \/ \E i \in Id, a, b \in BOOLEAN : UpdateProviderSKU(w, i, t, a, b)

PricesNext ==
    \/ \E w \in Worker : PricesRequest(w) \/ WriteProviderSKU(w) \/ PricesFail(w)
    \/ \E p \in Provider, a \in BOOLEAN : UpdateProviderStatus(p, a)
    \/ \E i \in Id : DeleteProviderSKU(i)
    \/ \E i \in Id, t \in Terms, a \in BOOLEAN : SyncPrice(i, t, a)

-----------------------------------------------------------------------------
(***************************************************************************)
(* What the tables say of the price of a product.                          *)
(***************************************************************************)

Offered(i, product) ==
    /\ i \in Rows(mapping) /\ mapping[i].product = product
    /\ mapping[i].active /\ mapping[i].available /\ mapping[i].provider \in enabled

\* GetProvidersForProduct and GetProvidersForProductPostpaid, which does not
\* ask for a price ...
Routed(type, product) ==
    {i \in Id : Offered(i, product) /\ (type = "prepaid" => mapping[i].price > 0)}

\* ... ORDER BY is_backup, price or admin - commission, priority.
Before(type, i, j) ==
    LET a == mapping[i]
        b == mapping[j]
        Backup(m) == IF m.provider \in Reserve THEN 1 ELSE 0
        Cost(m) == IF type = "prepaid" THEN m.price ELSE m.fee
    IN \/ Backup(a) < Backup(b)
       \/ Backup(a) = Backup(b) /\ Cost(a) < Cost(b)
       \/ Backup(a) = Backup(b) /\ Cost(a) = Cost(b) /\ a.provider < b.provider

\* The option a purchase begins with, if its provider is registered and healthy.
First(type, product) ==
    LET options == Routed(type, product)
    IN  {i \in options : \A j \in options : ~Before(type, j, i)}

BestPriceOfAll(product) ==  \* mutant: backups as well
    LET seen == {mapping[i].price : i \in Routed("prepaid", product)}
    IN IF seen = {} THEN None ELSE CHOOSE p \in seen : \A q \in seen : p <= q

\* best_price of GetProductsWithBestPrice, which the product list shows for
\* products of either type.
BestPrice(product) ==
    LET seen == {mapping[i].price : i \in {j \in Id : /\ Offered(j, product)
                                                     /\ mapping[j].provider \notin Reserve
                                                     /\ mapping[j].price > 0}}
    IN IF seen = {} THEN None ELSE CHOOSE p \in seen : \A q \in seen : p <= q

-----------------------------------------------------------------------------
(***************************************************************************)
(* Properties.                                                             *)
(***************************************************************************)

\* A provider has one mapping of a product, as the router takes for granted,
\* unless two of them were created at once in a database without constraints.
\* If a purchase of either type begins with a backup, no price is shown.
\* Otherwise a prepaid purchase begins with the price that is shown; a postpaid
\* one, which goes by the fee, may begin with an option without a price or with
\* a dearer one, never with a cheaper one.
PriceShownIsPaid ==
    /\ \/ constrained \/ "mapping" \in crossed
       \/ \A i, j \in Rows(mapping) :
            i # j => <<mapping[i].provider, mapping[i].product>>
                       # <<mapping[j].provider, mapping[j].product>>
    /\ \A product \in Id, type \in {"prepaid", "postpaid"} : \A i \in First(type, product) :
         LET m == mapping[i]
             shown == BestPrice(product)
         IN /\ m.provider \in Reserve => shown = None
            /\ m.provider \notin Reserve /\ type = "prepaid" => shown = m.price
            /\ m.provider \notin Reserve /\ m.price > 0 => shown # None /\ shown <= m.price
=============================================================================
