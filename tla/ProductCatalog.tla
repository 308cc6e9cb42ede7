--------------------------- MODULE ProductCatalog ---------------------------
(***************************************************************************)
(* The product catalog: the master lists of categories, brands and         *)
(* variants (ProductMasterService), products and their Digiflazz SKUs      *)
(* (ProductManagementService).  A product names its category and brand by  *)
(* name and its variant by id; nothing but the code keeps them in step.    *)
(*                                                                         *)
(* Of a row only keys and references are kept.                             *)
(***************************************************************************)
EXTENDS Requests

CONSTANTS
    Id,           \* ids of the rows of each table
    Name,         \* names of categories, brands and variants
    ProductCode,  \* values of sku_code and digi_sku_code
    Keep          \* a field that a request leaves out

Kind == {"category", "brand", "variant"}

ASSUME CatalogAssumption ==
    /\ Id \subseteq Nat \ {0} /\ 1 \in Id
    /\ Name # {} /\ None \notin Name \cup Id
    /\ Keep \notin Name \cup Id \cup {0}

VARIABLES
    master,    \* master[k][i]: the name of row i of the list k
    products,  \* products[i]: code and references
    skus,      \* skus[i]: product and code
    issued,    \* issued[t]: the last id that the table t has given out
    renamed    \* the names that an update has taken away, by kind

catalog == <<master, products, skus, issued, renamed>>

Names(k) == {master[k][i] : i \in Id} \ {None}
Rows(table) == {i \in Id : table[i] # None}

\* The id of a new row; ids are not used again.
NextId(t, i) == i \in Id /\ i = issued[t] + 1 /\ issued' = [issued EXCEPT ![t] = i]

InitCatalog ==
    LET name == CHOOSE n \in Name : TRUE
        code == CHOOSE c \in ProductCode : TRUE
        First(row) == [i \in Id |-> IF i = 1 THEN row ELSE None]
    IN /\ master = [k \in Kind |-> First(name)]
       /\ products = First([code |-> code, category |-> name, brand |-> name, variant |-> 1])
       /\ skus = First([product |-> 1, code |-> code])
       /\ issued = [t \in Kind \cup {"products", "skus", "mapping"} |-> IF t = "mapping" THEN 0 ELSE 1]
       /\ renamed = {}

-----------------------------------------------------------------------------
(***************************************************************************)
(* ProductMasterService: the three lists are served alike.                 *)
(***************************************************************************)

CreateMaster(w, k, n) ==
    /\ Begin(w, [op |-> "CreateMaster", reads |-> {k}, writes |-> {k}, kind |-> k, name |-> n])
    /\ NothingFound(n \in Names(k), "name")
    /\ UNCHANGED catalog

\* The name may be the row's own.
RenameMaster(w, k, i, n) ==
    /\ i \in Rows(master[k])
    /\ Begin(w, [op |-> "RenameMaster", reads |-> {k}, writes |-> {k}, kind |-> k, id |-> i, name |-> n])
    /\ NothingFound(\E j \in Id \ {i} : master[k][j] = n, "name")
    /\ UNCHANGED catalog

\* The column of products that refers to row i of the list k.
Refers(p, k, i) == p[k] = (IF k = "variant" THEN i ELSE master[k][i])

DeleteUncounted(w, k, i) ==  \* mutant: the products are not counted
    /\ i \in Rows(master[k])
    /\ Begin(w, [op |-> "DeleteMaster", reads |-> {"products"}, writes |-> {k}, kind |-> k, id |-> i])
    /\ UNCHANGED <<blind, catalog>>

\* Refused while products refer to the row; the error of the COUNT is dropped.
DeleteMaster(w, k, i) ==
    /\ i \in Rows(master[k])
    /\ Begin(w, [op |-> "DeleteMaster", reads |-> {"products"}, writes |-> {k}, kind |-> k, id |-> i])
    /\ NothingFound(\E p \in Rows(products) : Refers(products[p], k, i), k)
    /\ UNCHANGED catalog

SetMaster(k, i, n) == master' = [master EXCEPT ![k][i] = n]

\* INSERT, UPDATE ... WHERE id, DELETE ... WHERE id.
WriteMaster(w) ==
    LET r == job[w] IN
    /\ \/ /\ r.op = "CreateMaster"
          /\ Insertable(r.name \in Names(r.kind))
          /\ \E i \in Id : NextId(r.kind, i) /\ SetMaster(r.kind, i, r.name)
          /\ UNCHANGED renamed
       \/ /\ r.op = "RenameMaster"
          /\ r.id \in Rows(master[r.kind])
          /\ Insertable(\E j \in Id \ {r.id} : master[r.kind][j] = r.name)
          /\ SetMaster(r.kind, r.id, r.name)
          /\ renamed' = renamed \cup {<<r.kind, master[r.kind][r.id]>>}
          /\ UNCHANGED issued
       \/ /\ r.op = "DeleteMaster"
          /\ SetMaster(r.kind, r.id, None)
          /\ UNCHANGED <<issued, renamed>>
    /\ Done(w)
    /\ UNCHANGED <<products, skus>>

-----------------------------------------------------------------------------
(***************************************************************************)
(* ProductManagementService: products.                                     *)
(***************************************************************************)

\* ValidateCategoryBrandVariant; a variant of 0 is none.
Valid(category, brand, variant) ==
    /\ category \in Names("category")
    /\ brand \in Names("brand")
    /\ variant \in {None, 0} \cup Rows(master["variant"])

CodeTaken(table, code, own) == \E i \in Rows(table) \ {own} : table[i].code = code

CreateProduct(w, p) ==
    /\ Valid(p.category, p.brand, p.variant)
    /\ Begin(w, [op |-> "CreateProduct", reads |-> Kind, writes |-> {"products"}, row |-> p])
    /\ NothingFound(CodeTaken(products, p.code, None), "code")
    /\ UNCHANGED catalog

Given(field, old) == IF field = Keep THEN old ELSE field

AcceptsLoosely(p, ch) ==  \* mutant: a new category is checked beside the new brand
    LET category == Given(ch.category, p.category)
        brand == Given(ch.brand, p.brand)
    IN /\ ch.category # Keep => Valid(ch.category, brand, p.variant)
       /\ ch.brand # Keep => Valid(category, ch.brand, p.variant)
       /\ ch.variant # Keep => Valid(category, brand, ch.variant)

\* UpdateProduct checks field after field, each beside the columns as they are
\* at that point.
Accepts(p, ch) ==
    LET category == Given(ch.category, p.category)
        brand == Given(ch.brand, p.brand)
    IN /\ ch.category # Keep => Valid(ch.category, p.brand, p.variant)
       /\ ch.brand # Keep => Valid(category, ch.brand, p.variant)
       /\ ch.variant # Keep => Valid(category, brand, ch.variant)

\* A variant of 0 clears the column.
Updated(p, ch) ==
    [code |-> Given(ch.code, p.code), category |-> Given(ch.category, p.category),
     brand |-> Given(ch.brand, p.brand),
     variant |-> IF ch.variant = 0 THEN None ELSE Given(ch.variant, p.variant)]

\* Bound: a request changes references, or the code.
References == [code : {Keep}, category : {Keep} \cup Name, brand : {Keep} \cup Name,
               variant : {Keep, 0} \cup Id]
Codes == [code : ProductCode, category : {Keep}, brand : {Keep}, variant : {Keep}]

UpdateProduct(w, i, ch) ==
    LET p == products[i] IN
    /\ i \in Rows(products)
    /\ Accepts(p, ch)
    /\ Begin(w, [op |-> "UpdateProduct", reads |-> Kind, writes |-> {"products"},
                 id |-> i, row |-> Updated(p, ch)])
    /\ NothingFound(/\ ch.code \notin {Keep, p.code}
                    /\ CodeTaken(products, ch.code, i), "code")
    /\ UNCHANGED catalog

DeleteProduct(w, i) ==
    /\ i \in Rows(products)
    /\ Begin(w, [op |-> "DeleteProduct", reads |-> {}, writes |-> {"products"}, id |-> i])
    /\ UNCHANGED <<blind, catalog>>

\* A deleted product takes its SKUs along, or leaves them: the schema decides.
WriteProduct(w) ==
    LET r == job[w] IN
    /\ \/ /\ r.op = "CreateProduct"
          /\ Insertable(CodeTaken(products, r.row.code, None))
          /\ \E i \in Id : NextId("products", i) /\ products' = [products EXCEPT ![i] = r.row]
          /\ UNCHANGED skus
       \/ /\ r.op = "UpdateProduct"
          /\ r.id \in Rows(products)
          /\ Insertable(CodeTaken(products, r.row.code, r.id))
          /\ products' = [products EXCEPT ![r.id] = r.row]
          /\ UNCHANGED <<skus, issued>>
       \/ /\ r.op = "DeleteProduct"
          /\ products' = [products EXCEPT ![r.id] = None]
          /\ skus' \in {skus, [i \in Id |-> IF i \in Rows(skus) /\ skus[i].product = r.id
                                            THEN None ELSE skus[i]]}
          /\ UNCHANGED issued
    /\ Done(w)
    /\ UNCHANGED <<master, renamed>>

-----------------------------------------------------------------------------
(***************************************************************************)
(* ProductManagementService: SKUs.                                         *)
(***************************************************************************)

CreateSKU(w, p, code) ==
    /\ p \in Rows(products)
    /\ Begin(w, [op |-> "CreateSKU", reads |-> {"products"}, writes |-> {"skus"},
                 row |-> [product |-> p, code |-> code]])
    /\ NothingFound(CodeTaken(skus, code, None), "code")
    /\ UNCHANGED catalog

UpdateSKU(w, i, code) ==
    /\ i \in Rows(skus)
    /\ Begin(w, [op |-> "UpdateSKU", reads |-> {}, writes |-> {"skus"}, id |-> i,
                 row |-> [skus[i] EXCEPT !.code = Given(code, @)]])
    /\ NothingFound(code \notin {Keep, skus[i].code} /\ CodeTaken(skus, code, i), "code")
    /\ UNCHANGED catalog

DeleteSKU(w, i) ==
    /\ i \in Rows(skus)
    /\ Begin(w, [op |-> "DeleteSKU", reads |-> {}, writes |-> {"skus"}, id |-> i])
    /\ UNCHANGED <<blind, catalog>>

WriteSKU(w) ==
    LET r == job[w] IN
    /\ \/ /\ r.op = "CreateSKU"
          /\ Insertable(CodeTaken(skus, r.row.code, None))
          /\ \E i \in Id : NextId("skus", i) /\ skus' = [skus EXCEPT ![i] = r.row]
       \/ /\ r.op = "UpdateSKU"
          /\ r.id \in Rows(skus)
          /\ Insertable(CodeTaken(skus, r.row.code, r.id))
          /\ skus' = [skus EXCEPT ![r.id] = r.row]
          /\ UNCHANGED issued
       \/ /\ r.op = "DeleteSKU"
          /\ skus' = [skus EXCEPT ![r.id] = None]
          /\ UNCHANGED issued
    /\ Done(w)
    /\ UNCHANGED <<master, products, renamed>>

CatalogWrite(w) == WriteMaster(w) \/ WriteProduct(w) \/ WriteSKU(w)

\* A write that a constraint refuses, that finds no row, or that fails.
CatalogFails(w) ==
    /\ job[w].op \in {"CreateMaster", "RenameMaster", "DeleteMaster", "CreateProduct",
                      "UpdateProduct", "DeleteProduct", "CreateSKU", "UpdateSKU", "DeleteSKU"}
    /\ Done(w)
    /\ UNCHANGED catalog

CatalogRequest(w) ==
    /\ Free(w)
    /\ \/ \E k \in Kind, n \in Name : CreateMaster(w, k, n)
       \/ \E k \in Kind, i \in Id, n \in Name : RenameMaster(w, k, i, n)
       \/ \E k \in Kind, i \in Id : DeleteMaster(w, k, i)
       \/ \E code \in ProductCode, c, b \in Name, v \in {None, 0} \cup Id :
             CreateProduct(w, [code |-> code, category |-> c, brand |-> b, variant |-> v])
       \/ \E i \in Id, ch \in References \cup Codes : UpdateProduct(w, i, ch)
       \/ \E i \in Id : DeleteProduct(w, i) \/ DeleteSKU(w, i)
       \/ \E i \in Id, code \in ProductCode : CreateSKU(w, i, code)
       \/ \E i \in Id, code \in {Keep} \cup ProductCode : UpdateSKU(w, i, code)

-----------------------------------------------------------------------------
(***************************************************************************)
(* Properties.                                                             *)
(***************************************************************************)

\* The references of a product that name nothing.
Stale(p) ==
    {k \in {"category", "brand"} : p[k] \notin Names(k)}
    \cup {k \in {"variant"} : p[k] \notin {None, 0} \cup Rows(master[k])}

\* A product refers to nothing that is gone, unless its category or brand was
\* renamed, or the deletion met a product being written or could not count
\* them.  Deleting a category does check its products.
MastersExist ==
    \A i \in Rows(products) : \A k \in Stale(products[i]) :
        <<k, products[i][k]>> \in renamed \/ k \in crossed \/ k \in blind

\* Without constraints in the database the checks keep names and codes unique
\* as long as no check fails to read and no two writes of a table overlap.
Unique(place, table, key(_)) ==
    constrained \/ place \in crossed \/ blind # {} \/
        \A i, j \in Rows(table) : key(table[i]) = key(table[j]) => i = j
CodeOf(row) == row.code
Itself(row) == row

CatalogConsistent ==
    /\ MastersExist
    /\ \A k \in Kind : Unique(k, master[k], Itself)
    /\ Unique("products", products, CodeOf)
    /\ Unique("skus", skus, CodeOf)

\* A request to UpdateProduct mends a product exactly if one reference of it is
\* stale: with two, the check of the one always meets the other.  (After a
\* category and a brand of a product are renamed it has to be made anew.)
OneReferenceMends ==
    \A i \in Rows(products) :
        LET p == products[i]
            Mends(ch) == Accepts(p, ch) /\ Cardinality(Stale(Updated(p, ch))) < Cardinality(Stale(p))
        IN Stale(p) # {} =>
             ((\E ch \in References : Mends(ch))
              <=> (\E k \in Kind : Stale(p) = {k} /\ (k = "variant" \/ Names(k) # {})))
=============================================================================
