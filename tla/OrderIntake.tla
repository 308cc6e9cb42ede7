----------------------------- MODULE OrderIntake -----------------------------
(***************************************************************************)
(* How an order gets its row: processPrepaid and processPayment of         *)
(* TransactionService, CreatePayment of PaymentService, up to the INSERT.  *)
(* The client names the order by its reference id; the gateway draws a     *)
(* random public id.  A transaction checks both before it inserts;         *)
(* a payment checks the reference, inserts, and draws again on a conflict. *)
(*                                                                         *)
(* The orders are those of one client and one day.                         *)
(***************************************************************************)
EXTENDS Requests

CONSTANTS
    Reference,    \* reference ids of the client
    PublicId,     \* the ids that can be drawn
    Draws         \* how often the id of a payment is drawn

ASSUME IntakeAssumption == Draws \in Nat \ {0}

VARIABLES
    trxs,       \* rows of transactions
    pays,       \* rows of payments
    answers     \* what the clients' requests were answered

orders == <<trxs, pays, answers>>

\* A row: its request, the kind of the order, the reference, the public id.
Order(r, id) == [request |-> r.number, kind |-> r.kind, ref |-> r.ref, id |-> id]

InitOrders == trxs = {} /\ pays = {} /\ answers = {}

HasRef(rows, ref) == \E o \in rows : o.ref = ref
HasId(rows, id) == \E o \in rows : o.id = id

Answer(w, result, id) ==
    answers' = answers \cup {[ref |-> job[w].ref, kind |-> job[w].kind, result |-> result, id |-> id]}

-----------------------------------------------------------------------------
DrawUnseen(id) == TRUE    \* mutant: the drawn id is not looked up

\* GenerateTransactionID: an id that no row has.  Of the ten draws one finds a
\* free id, or none does and the request is refused.
GenerateTransactionID(id) == ~HasId(trxs, id)

\* A prepaid purchase.  A failing look-up of the reference is logged and passed.
OpenPrepaid(w, ref, id) ==
    /\ GenerateTransactionID(id)
    /\ Begin(w, [op |-> "InsertTrx", reads |-> {}, writes |-> {"trx"}, kind |-> "prepaid",
                 ref |-> ref, id |-> id, number |-> served + 1])
    /\ NothingFound(HasRef(trxs, ref), "ref")
    /\ UNCHANGED orders

\* The payment of an inquiry: the reference is that of the inquiry and is not
\* looked up.
OpenPostpaid(w, ref, id) ==
    /\ GenerateTransactionID(id)
    /\ Begin(w, [op |-> "InsertTrx", reads |-> {}, writes |-> {"trx"}, kind |-> "postpaid",
                 ref |-> ref, id |-> id, number |-> served + 1])
    /\ UNCHANGED <<blind, orders>>

\* Any conflict of a prepaid INSERT is called a duplicate reference id.
InsertTrx(w) ==
    LET r == job[w]
        taken == HasRef(trxs, r.ref) \/ HasId(trxs, r.id)
    IN /\ r.op = "InsertTrx"
       /\ \/ /\ Insertable(taken)
             /\ trxs' = trxs \cup {Order(r, r.id)}
             /\ Answer(w, "created", r.id)
          \/ /\ ~Insertable(taken)
             /\ Answer(w, IF r.kind = "prepaid" THEN "duplicate" ELSE "error", None)
             /\ UNCHANGED trxs
       /\ Done(w)
       /\ UNCHANGED pays

-----------------------------------------------------------------------------
\* CreatePayment with a reference that has a row is answered with that row.
RepeatPayment(w, ref) ==
    /\ Free(w) /\ served' = served + 1
    /\ \E o \in pays :
         /\ o.ref = ref
         /\ answers' = answers \cup {[ref |-> ref, kind |-> "payment", result |-> "existing", id |-> o.id]}
    /\ UNCHANGED <<job, crossed, blind, constrained, trxs, pays>>

OpenPaymentAgain(w, ref) ==  \* mutant: the reference is not looked up
    /\ Begin(w, [op |-> "InsertPay", reads |-> {}, writes |-> {"pay"}, kind |-> "payment",
                 ref |-> ref, number |-> served + 1, draws |-> 0])
    /\ UNCHANGED <<blind, orders>>

OpenPayment(w, ref) ==
    /\ ~HasRef(pays, ref)
    /\ Begin(w, [op |-> "InsertPay", reads |-> {}, writes |-> {"pay"}, kind |-> "payment",
                 ref |-> ref, number |-> served + 1, draws |-> 0])
    /\ UNCHANGED <<blind, orders>>

\* createPaymentWithGeneratedID: every conflict, of the id or of the reference,
\* is answered by another draw; after the last one the client gets an error.
InsertPay(w, id) ==
    LET r == job[w]
        taken == HasRef(pays, r.ref) \/ HasId(pays, id)
    IN /\ r.op = "InsertPay"
       /\ \/ /\ Insertable(taken)
             /\ pays' = pays \cup {Order(r, id)}
             /\ Answer(w, "created", id)
             /\ Done(w)
          \/ /\ ~Insertable(taken) /\ r.draws + 1 < Draws
             /\ job' = [job EXCEPT ![w].draws = @ + 1]
             /\ UNCHANGED <<served, crossed, blind, constrained, pays, answers>>
          \/ /\ ~Insertable(taken) /\ r.draws + 1 = Draws
             /\ Answer(w, "error", None)
             /\ Done(w)
             /\ UNCHANGED pays
       /\ UNCHANGED trxs

\* The INSERT fails for another reason.
OrdersFail(w) ==
    /\ job[w].op \in {"InsertTrx", "InsertPay"}
    /\ Done(w)
    /\ UNCHANGED orders

OrdersNext ==
    \E w \in Worker :
      \/ \E ref \in Reference : RepeatPayment(w, ref) \/ OpenPayment(w, ref)
      \/ \E ref \in Reference, id \in PublicId : OpenPrepaid(w, ref, id) \/ OpenPostpaid(w, ref, id)
      \/ InsertTrx(w)
      \/ \E id \in PublicId : InsertPay(w, id)
      \/ OrdersFail(w)

-----------------------------------------------------------------------------
(***************************************************************************)
(* Properties.                                                             *)
(***************************************************************************)

Apart(table, key(_)) == \A o, p \in table : key(o) = key(p) => o = p
RefOf(o) == o.ref
IdOf(o) == o.id

\* One reference is one order, and the client can name the order.  Payments:
\* every answer to a reference that names a payment names the same one, however
\* often the request is repeated, unless two inserts met in a database without
\* constraints.  Transactions: the look-ups alone keep the references of
\* prepaid purchases and all ids apart as long as no two inserts meet and no
\* look-up fails; a purchase is called a duplicate only where its reference has
\* a row, or the id it drew was taken while it ran.
OneOrderPerReference ==
    LET \* the conditions under which a table is kept in order
        InOrder(place) == constrained \/ place \notin crossed
        Prepaid == {o \in trxs : o.kind = "prepaid"}
        Named == {a \in answers : a.kind = "payment" /\ a.id # None}
    IN /\ InOrder("pay") => Apart(pays, RefOf) /\ \A a, b \in Named : a.ref = b.ref => a.id = b.id
       /\ InOrder("trx") => Apart(trxs, IdOf)
       /\ InOrder("trx") /\ (constrained \/ "ref" \notin blind) => Apart(Prepaid, RefOf)
       /\ \A a \in answers : a.result = "duplicate" => HasRef(trxs, a.ref) \/ "trx" \in crossed
=============================================================================
