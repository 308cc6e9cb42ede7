---------------------------- MODULE AdminRecords ----------------------------
(***************************************************************************)
(* Records that administrators edit: clients and their keys, payment       *)
(* methods and the order of their providers, payout routes and methods,    *)
(* QRIS merchants.  A service reads the row, changes the fields that the   *)
(* request gives and writes every column back.                             *)
(*                                                                         *)
(* The tables have nothing in common but that pattern, so a behaviour is   *)
(* about one of them.  A value is the number of the edit that gave it; the *)
(* column that identifies a row holds a Key.                               *)
(***************************************************************************)
EXTENDS Requests, Sequences, SequencesExt, TLC

CONSTANTS Row, Key     \* rows of a table; client ids and store ids

ASSUME RecordAssumption == 1 \in Row /\ Row \subseteq Nat /\ None \notin Row /\ Key # {}

\* The columns of each table; "fee" stands for fee_type, fee_flat, fee_percent,
\* fee_min and fee_max, "amounts" for min_amount and max_amount, "logo" for
\* logo_url and display_order.
Fees == {"fee", "amounts"}
Display == {"logo", "is_active", "is_maintenance", "maintenance_message"}
ClientColumns == {"client_id", "name", "callback_url", "callback_secret", "ip_whitelist",
                  "scopes", "is_active", "api_key", "sandbox_key"}
MethodColumns == Fees \cup Display \cup {"provider", "provider_display_name",
                                         "expired_duration", "payment_instruction"}
RouteColumns == {"priority", "is_active", "is_maintenance", "maintenance_message"}
PayoutMethodColumns == Fees \cup Display \cup {"name"}
MerchantColumns == {"client_id", "merchant_name", "merchant_city", "merchant_category_code",
                    "nmid", "store_id", "terminal_id", "qris_string", "status"}

Table == {"clients", "payment_methods", "payment_method_providers",
          "payout_routes", "payout_methods", "qris_merchants"}

Columns(t) ==
    CASE t = "clients" -> ClientColumns
      [] t = "payment_methods" -> MethodColumns
      [] t = "payment_method_providers" -> RouteColumns
      [] t = "payout_routes" -> RouteColumns
      [] t = "payout_methods" -> PayoutMethodColumns
      [] t = "qris_merchants" -> MerchantColumns

\* A row is not the value that stands for no row.
ASSUME RowAssumption == \A t \in Table : None \notin [Columns(t) -> Nat \cup Key \cup {None}]

WrittenButSandboxKey(t) == Columns(t) \ {"sandbox_key"}  \* mutant

\* The columns that the UPDATE of a table lists: all of those above.
Written(t) == Columns(t)

\* The column that identifies a row to the outside.
KeyColumn(t) ==
    CASE t = "clients" -> "client_id" [] t = "qris_merchants" -> "store_id" [] OTHER -> None

\* Bound: a request gives one field, or all that it may.
OneOrAll(fields) == {{f} : f \in fields} \cup {fields}

\* UpdateClient, and RegenerateKeys of one of the three keys.
UpdateClient == OneOrAll({"client_id", "name", "callback_url", "ip_whitelist", "scopes", "is_active"})
RegenerateKeys == {{"api_key"}, {"sandbox_key"}, {"callback_secret"}}
UpdatePaymentMethod == OneOrAll(MethodColumns \ {"provider_display_name"})
UpdateRoute == OneOrAll(RouteColumns)
UpdatePayoutMethod == OneOrAll(PayoutMethodColumns)

\* The terminal is always taken from the request.  A QR code is stored, and if
\* it can be read it brings what it says, except where the row, or the request,
\* has a name and a city.  Bound: with a QR code at most a name is given.
UpdateMerchant(row) ==
    LET asked == {{c} : c \in {"client_id", "store_id", "status", "merchant_name", "merchant_city"}}
        Blank(given) == {c \in {"merchant_name", "merchant_city"} : row[c] = None /\ c \notin given}
        Scanned(given) == {"qris_string", "nmid", "merchant_category_code"} \cup Blank(given)
        withQR == {{"qris_string"}, Scanned({}), {"merchant_name"} \cup Scanned({"merchant_name"})}
    IN {given \cup {"terminal_id"} : given \in asked \cup {{}} \cup withQR}

Fields(t, row) ==
    CASE t = "clients" -> UpdateClient \cup RegenerateKeys
      [] t = "payment_methods" -> UpdatePaymentMethod
      [] t = "payment_method_providers" -> {}
      [] t = "payout_routes" -> UpdateRoute
      [] t = "payout_methods" -> UpdatePayoutMethod
      [] t = "qris_merchants" -> UpdateMerchant(row)

VARIABLES
    table,     \* the table this behaviour is about
    rows,      \* rows[i]: its row i
    last,      \* last[i]: per column, the value of the last edit answered with success
    halfway,   \* rows written by a request that was then refused
    rekeyed    \* has an update changed the key of a row?

records == <<table, rows, last, halfway, rekeyed>>

Present == {i \in Row : rows[i] # None}

\* The values of edit n, the key apart.
Values(t, n, key) == [c \in Columns(t) |-> IF c = KeyColumn(t) THEN key ELSE n]

\* Bound: a table begins with one row, of which a merchant's may have no name;
\* the bindings of a method are two rows, which one request writes.
InitRecords ==
    LET key == CHOOSE k \in Key : TRUE
        nameless(row) == [row EXCEPT !["merchant_name"] = None, !["merchant_city"] = None]
        first(t) == {Values(t, 0, key)}
                    \cup (IF t = "qris_merchants" THEN {nameless(Values(t, 0, key))} ELSE {})
    IN
    /\ table \in Table
    /\ \E row \in first(table) :
         rows = [i \in Row |-> IF i = 1 \/ table = "payment_method_providers" THEN row ELSE None]
    /\ last = rows
    /\ halfway = {}
    /\ rekeyed = FALSE

-----------------------------------------------------------------------------
\* The row with the fields given by the next edit.
Patched(row, given, key) ==
    [c \in DOMAIN row |-> IF c \in given THEN Values(table, served + 1, key)[c] ELSE row[c]]

\* An edit, up to its UPDATE.
Edit(w, i, given, key) ==
    /\ i \in Present
    /\ given \in Fields(table, rows[i])
    /\ KeyColumn(table) \notin given => key = CHOOSE k \in Key : TRUE
    /\ Begin(w, [op |-> "Edit", reads |-> {}, writes |-> {ToString(i)}, id |-> i, given |-> given,
                 row |-> Patched(rows[i], given, key)])
    /\ UNCHANGED <<blind, records>>

KeyTaken(key, own) == \E i \in Present \ {own} : rows[i][KeyColumn(table)] = key

\* CreateClient looks for the id first; CreateMerchant leaves that to the
\* constraint.
Create(w, key) ==
    /\ KeyColumn(table) # None
    /\ Begin(w, [op |-> "Create", reads |-> {}, writes |-> {"key"}, key |-> key, edit |-> served + 1])
    /\ IF table = "clients" THEN NothingFound(KeyTaken(key, None), "key") ELSE UNCHANGED blind
    /\ UNCHANGED records

Insert(w) ==
    LET r == job[w] IN
    /\ r.op = "Create"
    /\ Insertable(KeyTaken(r.key, None))
    /\ \E i \in Row :
         /\ i = Cardinality(Present) + 1
         /\ rows' = [rows EXCEPT ![i] = Values(table, r.edit, r.key)]
         /\ last' = [last EXCEPT ![i] = rows'[i]]
    /\ Done(w)
    /\ UNCHANGED <<table, halfway, rekeyed>>

\* The UPDATE writes the columns it lists.
Update(w) ==
    LET r == job[w]
        new(c) == IF c \in Written(table) THEN r.row[c] ELSE rows[r.id][c]
    IN /\ r.op = "Edit"
       /\ KeyColumn(table) # None => Insertable(KeyTaken(r.row[KeyColumn(table)], r.id))
       /\ rows' = [rows EXCEPT ![r.id] = [c \in DOMAIN @ |-> new(c)]]
       /\ last' = [last EXCEPT ![r.id] = [c \in DOMAIN @ |-> IF c \in r.given THEN r.row[c] ELSE @[c]]]
       /\ rekeyed' = (rekeyed \/ KeyColumn(table) \in r.given)
       /\ Done(w)
       /\ UNCHANGED <<table, halfway>>

\* UpdateProviders: the bindings named by the request, in its order; each
\* comes with all its fields.
UpdateProviders(w, bindings) ==
    /\ table = "payment_method_providers"
    /\ Begin(w, [op |-> "UpdateProviders", reads |-> {}, writes |-> {ToString(i) : i \in ToSet(bindings)},
                 todo |-> bindings, wrote |-> {}, edit |-> served + 1])
    /\ UNCHANGED <<blind, records>>

UpdateBinding(w) ==
    LET r == job[w] IN
    /\ r.op = "UpdateProviders" /\ r.todo # <<>>
    /\ Head(r.todo) \in Row
    /\ rows' = [rows EXCEPT ![Head(r.todo)] = Values(table, r.edit, None)]
    /\ job' = [job EXCEPT ![w] = [r EXCEPT !.todo = Tail(@), !.wrote = @ \cup {Head(r.todo)}]]
    /\ UNCHANGED <<served, crossed, blind, constrained, table, last, halfway, rekeyed>>

\* All bindings are written and the request is answered.
AnswerProviders(w) ==
    LET r == job[w] IN
    /\ r.op = "UpdateProviders" /\ r.todo = <<>>
    /\ last' = [i \in Row |-> IF i \in r.wrote THEN Values(table, r.edit, None) ELSE last[i]]
    /\ Done(w)
    /\ UNCHANGED <<table, rows, halfway, rekeyed>>

\* A constraint refuses the write, the write fails, or a provider is not bound
\* to the method: what UpdateProviders has written stays.
RecordsFail(w) ==
    LET r == job[w] IN
    /\ r.op \in {"Create", "Edit", "UpdateProviders"}
    /\ r.op = "UpdateProviders" => r.todo # <<>>
    /\ halfway' = halfway \cup (IF r.op = "UpdateProviders" THEN r.wrote ELSE {})
    /\ Done(w)
    /\ UNCHANGED <<table, rows, last, rekeyed>>

RecordsRequest(w) ==
    /\ Free(w)
    /\ \/ \E i \in Present, key \in Key : \E given \in Fields(table, rows[i]) : Edit(w, i, given, key)
       \/ \E key \in Key : Create(w, key)
       \/ \E n \in 1..2 : \E bindings \in [1..n -> Row \cup {0}] : UpdateProviders(w, bindings)

RecordsNext ==
    \E w \in Worker :
      \/ RecordsRequest(w)
      \/ Insert(w) \/ Update(w) \/ UpdateBinding(w) \/ AnswerProviders(w) \/ RecordsFail(w)

-----------------------------------------------------------------------------
(***************************************************************************)
(* Properties.                                                             *)
(***************************************************************************)

\* Every column of a row keeps the value of the last edit that gave it and was
\* answered with success (a regenerated key is the one that counts, an edit of
\* the name does not bring an old key back), unless edits of the row overlapped
\* or UpdateProviders stopped half way.  A client id names one client unless an
\* update, two creations at once or a failing read brought a second.
EditsStand ==
    /\ \A i \in Present :
         \/ ToString(i) \in crossed \/ i \in halfway
         \/ \E w \in Worker : ToString(i) \in job[w].writes
         \/ rows[i] = last[i]
    /\ \/ constrained \/ rekeyed \/ "key" \in crossed \/ blind # {} \/ table # "clients"
       \/ \A i, j \in Present : rows[i]["client_id"] = rows[j]["client_id"] => i = j
=============================================================================
