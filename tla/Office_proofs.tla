--------------------------- MODULE Office_proofs ---------------------------
(***************************************************************************)
(* What holds in every office: any number of goroutines, rows, names,      *)
(* providers and keys, and any desks open together.                        *)
(*                                                                         *)
(* The invariant has one part for each group of tables and one for the     *)
(* requests: a place that is not crossed has one request writing it at     *)
(* most, so what that request read is still so.  A step of one group       *)
(* leaves the requests of the others alone (Serves).                       *)
(***************************************************************************)
EXTENDS Office, FiniteSetTheorems, WellFoundedInduction, TLAPS

-----------------------------------------------------------------------------
(***************************************************************************)
(* Requests.  Where two of them are in progress, what one writes and the   *)
(* other reads or writes is crossed: a place that is not crossed has been  *)
(* left alone since the request that writes it read it.                    *)
(***************************************************************************)

Met == \A v, w \in Worker :
          v # w => job[v].writes \cap (job[w].reads \cup job[w].writes) \subseteq crossed

RequestInv == job = [w \in Worker |-> job[w]] /\ served \in Nat /\ Met

\* What every step leaves behind; what was crossed, or not read, stays so.
Later == /\ crossed \subseteq crossed' /\ blind \subseteq blind'
         /\ UNCHANGED constrained

\* The goroutine w goes on to the request r.
Takes(w, r) == job'[w] = r /\ \A v \in Worker \ {w} : job'[v] = job[v]

LEMMA BeginTakes ==
    ASSUME RequestInv, NEW w \in Worker, NEW r, Begin(w, r), blind \subseteq blind'
    PROVE  RequestInv' /\ Later /\ Takes(w, r) /\ job[w] = Idle /\ served' = served + 1
<1>1. job'[w] = r /\ \A v \in Worker \ {w} : job'[v] = job[v]
  BY DEF RequestInv, Begin
<1>2. job' = [v \in Worker |-> job'[v]] /\ served' \in Nat
  BY DEF RequestInv, Begin
<1>3. crossed' = crossed \cup Crossings(w, r) /\ UNCHANGED constrained /\ job[w] = Idle
      /\ served' = served + 1
  BY DEF Begin, Free
<1>4. \A v \in Worker \ {w} :
         /\ r.writes \cap (job[v].reads \cup job[v].writes) \subseteq crossed'
         /\ job[v].writes \cap (r.reads \cup r.writes) \subseteq crossed'
  BY <1>3 DEF Crossings
<1>5. Met'
  BY <1>1, <1>3, <1>4 DEF Met, RequestInv
<1> QED
  BY <1>1, <1>2, <1>3, <1>5 DEF RequestInv, Later, Takes

\* A request that goes on with what it has read.
LEMMA GoesOn ==
    ASSUME RequestInv, NEW w \in Worker, NEW r, job' = [job EXCEPT ![w] = r],
           r.reads \subseteq job[w].reads, r.writes \subseteq job[w].writes,
           UNCHANGED <<served, crossed, blind, constrained>>
    PROVE  RequestInv' /\ Later /\ Takes(w, r)
<1>1. job'[w] = r /\ \A v \in Worker \ {w} : job'[v] = job[v]
  BY DEF RequestInv
<1>2. job' = [v \in Worker |-> job'[v]]
  BY DEF RequestInv
<1>3. Met'
  BY <1>1 DEF Met, RequestInv
<1> QED
  BY <1>1, <1>2, <1>3 DEF RequestInv, Later, Takes

LEMMA DoneTakes ==
    ASSUME RequestInv, NEW w \in Worker, Done(w)
    PROVE  RequestInv' /\ Later /\ Takes(w, Idle)
<1>1. Idle.reads = {} /\ Idle.writes = {}
  BY DEF Idle
<1> QED
  BY <1>1, GoesOn DEF Done

LEMMA AtOnceTakes ==
    ASSUME RequestInv, NEW r, AtOnce(r)
    PROVE  RequestInv' /\ Later /\ job' = job
<1>1. job' = job /\ crossed \subseteq crossed' /\ served' \in Nat /\ UNCHANGED <<blind, constrained>>
  BY DEF AtOnce, RequestInv
<1> QED
  BY <1>1 DEF RequestInv, Met, Later

\* A check that is passed has found nothing, or is noted.
LEMMA Checked ==
    ASSUME NEW found \in BOOLEAN, NEW tag, NothingFound(found, tag)
    PROVE  blind \subseteq blind' /\ (~found \/ tag \in blind') /\ (found => blind' # {})
  BY DEF NothingFound

LEMMA IdleIsIdle == Idle.op = "idle" /\ Idle.reads = {} /\ Idle.writes = {}
BY DEF Idle

\* Who alone writes a place that is not crossed.
LEMMA Alone ==
    ASSUME RequestInv, NEW v \in Worker, NEW w \in Worker, NEW place,
           place \in job[v].writes, place \in job[w].reads \cup job[w].writes, place \notin crossed
    PROVE  v = w
  BY DEF RequestInv, Met

\* A step of one desk; the requests of the others do not move.
Serves(ops) ==
    /\ RequestInv' /\ Later
    /\ \A v \in Worker : job'[v] = job[v] \/ {job[v].op, job'[v].op} \subseteq ops \cup {"idle"}

LEMMA TakesServes ==
    ASSUME RequestInv', Later, NEW w \in Worker, NEW r, Takes(w, r),
           NEW ops, {job[w].op, r.op} \subseteq ops \cup {"idle"}
    PROVE  Serves(ops)
  BY DEF Serves, Takes

-----------------------------------------------------------------------------
(***************************************************************************)
(* Orders.                                                                 *)
(***************************************************************************)
OrderOps == {"InsertTrx", "InsertPay"}

\* A place where the tables keep order, or no two requests met.
InOrder(place) == constrained \/ place \notin crossed

Prepaid == {o \in trxs : o.kind = "prepaid"}

OrderJob(r) ==
    /\ r.op = "InsertTrx" => r.writes = {"trx"} /\ r.kind # "payment"
    /\ r.op = "InsertPay" =>
         r \in [op : {"InsertPay"}, reads : {{}}, writes : {{"pay"}}, kind : {"payment"},
                ref : Reference, number : Nat, draws : Nat]

\* What the look-ups have found is still so, where nobody else inserts.
LookedUp(r) ==
    /\ r.op = "InsertTrx" /\ "trx" \notin crossed =>
         /\ ~HasId(trxs, r.id)
         /\ r.kind = "prepaid" /\ "ref" \notin blind => ~HasRef(trxs, r.ref)
    /\ r.op = "InsertPay" /\ "pay" \notin crossed => ~HasRef(pays, r.ref)

RowsApart ==
    /\ InOrder("pay") => Apart(pays, RefOf)
    /\ InOrder("trx") => Apart(trxs, IdOf)
    /\ InOrder("trx") /\ (constrained \/ "ref" \notin blind) => Apart(Prepaid, RefOf)

AnswersKnown ==
    \A a \in answers :
        /\ a.kind = "payment" /\ a.id # None => \E o \in pays : o.ref = a.ref /\ o.id = a.id
        /\ a.result = "duplicate" => HasRef(trxs, a.ref) \/ "trx" \in crossed

OrderInv ==
    /\ \A w \in Worker : OrderJob(job[w]) /\ LookedUp(job[w])
    /\ RowsApart /\ AnswersKnown

\* The requests of other desks are no orders.
LEMMA OrdersKept ==
    ASSUME RequestInv, OrderInv, NEW ops, Serves(ops), ops \cap OrderOps = {}, UNCHANGED orders
    PROVE  OrderInv'
<1>1. UNCHANGED <<trxs, pays, answers>> /\ Later
  BY DEF orders, Serves
<1>2. ASSUME NEW w \in Worker PROVE OrderJob(job[w])' /\ LookedUp(job[w])'
  <2>1. job'[w] = job[w] \/ job'[w].op \notin OrderOps
    BY IdleIsIdle DEF Serves, OrderOps
  <2>2. PICK r : r = job'[w]
    OBVIOUS
  <2>3. OrderJob(r) /\ LookedUp(r)'
    BY <1>1, <2>1, <2>2 DEF OrderInv, OrderJob, LookedUp, OrderOps, HasId, HasRef, Later
  <2> QED
    BY <2>2, <2>3 DEF OrderJob, LookedUp
<1>3. RowsApart'
  BY <1>1 DEF OrderInv, RowsApart, InOrder, Apart, IdOf, RefOf, Prepaid, Later
<1>4. AnswersKnown'
  BY <1>1 DEF OrderInv, AnswersKnown, HasRef, Later
<1> QED
  BY <1>2, <1>3, <1>4 DEF OrderInv

\* A step of one order: what is to be shown of its rows and answers.
LEMMA OrderStep ==
    ASSUME OrderInv, NEW w \in Worker, NEW r, RequestInv', Later, Takes(w, r),
           {job[w].op, r.op} \subseteq OrderOps \cup {"idle"}, OrderJob(r), LookedUp(r)',
           \A v \in Worker \ {w} : LookedUp(job[v])',
           RowsApart', AnswersKnown'
    PROVE  OrderInv' /\ Serves(OrderOps)
<1>1. job'[w] = r /\ \A v \in Worker \ {w} : job'[v] = job[v]
  BY DEF Takes
<1>2. ASSUME NEW v \in Worker PROVE OrderJob(job[v])' /\ LookedUp(job[v])'
  BY <1>1 DEF OrderInv, OrderJob, LookedUp
<1> QED
  BY <1>2, TakesServes DEF OrderInv

\* A step that inserts nothing.
LEMMA NoInsert ==
    ASSUME RequestInv, OrderInv, NEW w \in Worker, NEW r, RequestInv', Later, Takes(w, r),
           {job[w].op, r.op} \subseteq OrderOps \cup {"idle"}, OrderJob(r), LookedUp(r)',
           UNCHANGED <<trxs, pays>>, AnswersKnown'
    PROVE  OrderInv' /\ Serves(OrderOps)
<1>1. RowsApart'
  BY DEF OrderInv, RowsApart, InOrder, Apart, IdOf, RefOf, Prepaid, Later
<1>2. ASSUME NEW v \in Worker PROVE LookedUp(job[v])'
  <2>1. v # w => job'[v] = job[v]
    BY DEF Takes
  <2>2. v = w => job'[v] = r
    BY DEF Takes
  <2>3. PICK k : k = job'[v]
    OBVIOUS
  <2>4. LookedUp(k)'
    BY <2>1, <2>2, <2>3 DEF OrderInv, LookedUp, HasId, HasRef, Later
  <2> QED
    BY <2>3, <2>4 DEF LookedUp
<1>3. \A v \in Worker \ {w} : job'[v] = job[v]
  BY DEF Takes
<1>4. ASSUME NEW v \in Worker \ {w} PROVE LookedUp(job[v])'
  BY <1>2
<1> QED
  BY <1>1, <1>4, OrderStep

\* A step that begins an order.
LEMMA OpenOrder ==
    ASSUME RequestInv, OrderInv, NEW w \in Worker, NEW r, Begin(w, r), blind \subseteq blind',
           r.op \in OrderOps, OrderJob(r), LookedUp(r)', UNCHANGED orders
    PROVE  OrderInv' /\ Serves(OrderOps)
<1>1. RequestInv' /\ Later /\ Takes(w, r) /\ job[w].op = "idle"
  BY BeginTakes, IdleIsIdle
<1>2. UNCHANGED <<trxs, pays, answers>>
  BY DEF orders
<1>3. AnswersKnown'
  BY <1>1, <1>2 DEF OrderInv, AnswersKnown, HasRef, Later
<1> QED
  BY <1>1, <1>2, <1>3, NoInsert

LEMMA OpenPrepaidStep ==
    ASSUME RequestInv, OrderInv, NEW w \in Worker, NEW ref \in Reference, NEW id \in PublicId,
           OpenPrepaid(w, ref, id)
    PROVE  OrderInv' /\ Serves(OrderOps)
<1> PICK r : r = [op |-> "InsertTrx", reads |-> {}, writes |-> {"trx"}, kind |-> "prepaid",
                  ref |-> ref, id |-> id, number |-> served + 1]
  OBVIOUS
<1>1. Begin(w, r) /\ NothingFound(HasRef(trxs, ref), "ref") /\ UNCHANGED orders /\ ~HasId(trxs, id)
  BY DEF OpenPrepaid, GenerateTransactionID
<1>2. r.op = "InsertTrx" /\ r.writes = {"trx"} /\ r.kind # "payment" /\ r.ref = ref /\ r.id = id
  OBVIOUS
<1>3. HasRef(trxs, ref) \in BOOLEAN
  BY DEF HasRef
<1>4. blind \subseteq blind' /\ (~HasRef(trxs, ref) \/ "ref" \in blind')
  BY <1>1, <1>3, Checked
<1>5. LookedUp(r)'
  BY <1>1, <1>2, <1>4 DEF LookedUp, HasId, HasRef, orders
<1> QED
  BY <1>1, <1>2, <1>4, <1>5, OpenOrder DEF OrderJob, OrderOps

LEMMA OpenPostpaidStep ==
    ASSUME RequestInv, OrderInv, NEW w \in Worker, NEW ref \in Reference, NEW id \in PublicId,
           OpenPostpaid(w, ref, id)
    PROVE  OrderInv' /\ Serves(OrderOps)
<1> PICK r : r = [op |-> "InsertTrx", reads |-> {}, writes |-> {"trx"}, kind |-> "postpaid",
                  ref |-> ref, id |-> id, number |-> served + 1]
  OBVIOUS
<1>1. Begin(w, r) /\ UNCHANGED <<blind, orders>> /\ ~HasId(trxs, id)
  BY DEF OpenPostpaid, GenerateTransactionID
<1>2. r.op = "InsertTrx" /\ r.writes = {"trx"} /\ r.kind = "postpaid" /\ r.kind # "payment" /\ r.id = id
  OBVIOUS
<1>3. LookedUp(r)'
  BY <1>1, <1>2 DEF LookedUp, HasId, orders
<1> QED
  BY <1>1, <1>2, <1>3, OpenOrder DEF OrderJob, OrderOps

LEMMA OpenPaymentStep ==
    ASSUME RequestInv, OrderInv, NEW w \in Worker, NEW ref \in Reference, OpenPayment(w, ref)
    PROVE  OrderInv' /\ Serves(OrderOps)
<1> PICK r : r = [op |-> "InsertPay", reads |-> {}, writes |-> {"pay"}, kind |-> "payment",
                  ref |-> ref, number |-> served + 1, draws |-> 0]
  OBVIOUS
<1>1. Begin(w, r) /\ UNCHANGED <<blind, orders>> /\ ~HasRef(pays, ref)
  BY DEF OpenPayment
<1>2. /\ r \in [op : {"InsertPay"}, reads : {{}}, writes : {{"pay"}}, kind : {"payment"},
                ref : Reference, number : Nat, draws : Nat]
      /\ r.op = "InsertPay" /\ r.ref = ref
  BY DEF RequestInv
<1>3. LookedUp(r)'
  BY <1>1, <1>2 DEF LookedUp, HasRef, orders
<1> QED
  BY <1>1, <1>2, <1>3, OpenOrder DEF OrderJob, OrderOps

LEMMA RepeatPaymentStep ==
    ASSUME RequestInv, OrderInv, NEW w \in Worker, NEW ref \in Reference, RepeatPayment(w, ref)
    PROVE  OrderInv' /\ Serves(OrderOps)
<1>1. UNCHANGED <<job, crossed, blind, constrained, trxs, pays>> /\ served' = served + 1
  BY DEF RepeatPayment
<1>2. RequestInv' /\ Later
  BY <1>1 DEF RequestInv, Met, Later
<1>3. PICK o \in pays : /\ o.ref = ref
                        /\ answers' = answers \cup {[ref |-> ref, kind |-> "payment",
                                                     result |-> "existing", id |-> o.id]}
  BY DEF RepeatPayment
<1>4. AnswersKnown'
  BY <1>1, <1>3 DEF OrderInv, AnswersKnown, HasRef
<1>5. \A v \in Worker : OrderJob(job[v])' /\ LookedUp(job[v])'
  BY <1>1 DEF OrderInv, OrderJob, LookedUp, HasId, HasRef
<1>6. RowsApart'
  BY <1>1 DEF OrderInv, RowsApart, InOrder, Apart, IdOf, RefOf, Prepaid
<1> QED
  BY <1>1, <1>2, <1>4, <1>5, <1>6 DEF OrderInv, Serves

LEMMA OrdersFailStep ==
    ASSUME RequestInv, OrderInv, NEW w \in Worker, OrdersFail(w)
    PROVE  OrderInv' /\ Serves(OrderOps)
<1>1. RequestInv' /\ Later /\ Takes(w, Idle) /\ UNCHANGED <<trxs, pays, answers>>
  BY DoneTakes DEF OrdersFail, orders
<1>2. AnswersKnown'
  BY <1>1 DEF OrderInv, AnswersKnown, HasRef, Later
<1>3. OrderJob(Idle) /\ LookedUp(Idle)' /\ job[w].op \in OrderOps
  BY IdleIsIdle DEF OrderJob, LookedUp, Idle, OrderOps, OrdersFail
<1> QED
  BY <1>1, <1>2, <1>3, IdleIsIdle, NoInsert

\* A new row of an order, in a table that is still in order, differs from the
\* others.
LEMMA InsertTrxStep ==
    ASSUME RequestInv, OrderInv, NEW w \in Worker, InsertTrx(w)
    PROVE  OrderInv' /\ Serves(OrderOps)
<1> PICK r : r = job[w]
  OBVIOUS
<1>1. r.op = "InsertTrx" /\ r.writes = {"trx"} /\ r.kind # "payment" /\ UNCHANGED pays
  BY DEF InsertTrx, OrderInv, OrderJob
<1>2. RequestInv' /\ Later /\ Takes(w, Idle) /\ UNCHANGED <<crossed, blind, constrained>>
  BY DoneTakes DEF InsertTrx, Done
<1>3. LookedUp(r)
  BY DEF OrderInv
<1>4. OrderJob(Idle) /\ LookedUp(Idle)' /\ {job[w].op, Idle.op} \subseteq OrderOps \cup {"idle"}
  BY <1>1, IdleIsIdle DEF OrderJob, LookedUp, Idle, OrderOps
<1>5. CASE /\ Insertable(HasRef(trxs, r.ref) \/ HasId(trxs, r.id))
           /\ trxs' = trxs \cup {Order(r, r.id)} /\ Answer(w, "created", r.id)
  <2> PICK o : o = Order(r, r.id)
    OBVIOUS
  <2>1. o.ref = r.ref /\ o.id = r.id /\ o.kind = r.kind
    BY DEF Order
  <2>2. trxs' = trxs \cup {o}
    BY <1>5
  <2>3. constrained => ~HasRef(trxs, o.ref) /\ ~HasId(trxs, o.id)
    BY <1>5, <2>1 DEF Insertable
  <2>4. "trx" \notin crossed =>
          /\ ~HasId(trxs, o.id)
          /\ o.kind = "prepaid" /\ "ref" \notin blind => ~HasRef(trxs, o.ref)
    BY <1>1, <1>3, <2>1 DEF LookedUp
  <2>5. RowsApart'
    <3>1. InOrder("trx") => Apart(trxs', IdOf)
      BY <2>2, <2>3, <2>4 DEF OrderInv, RowsApart, InOrder, Apart, IdOf, HasId
    <3>2. Prepaid' = Prepaid \cup (IF o.kind = "prepaid" THEN {o} ELSE {})
      BY <2>2 DEF Prepaid
    <3>3. InOrder("trx") /\ (constrained \/ "ref" \notin blind) => Apart(Prepaid', RefOf)
      BY <2>3, <2>4, <3>2 DEF OrderInv, RowsApart, InOrder, Apart, RefOf, HasRef, Prepaid
    <3> QED
      BY <1>1, <1>2, <3>1, <3>3 DEF OrderInv, RowsApart, InOrder, Apart, RefOf, IdOf
  <2>6. AnswersKnown'
    <3>1. PICK a : a = [ref |-> r.ref, kind |-> r.kind, result |-> "created", id |-> r.id]
      OBVIOUS
    <3>2. answers' = answers \cup {a} /\ a.result = "created" /\ a.kind = r.kind
      BY <1>5, <3>1 DEF Answer
    <3>3. r.kind # "payment"
      BY <1>1
    <3> QED
      BY <1>1, <1>2, <2>2, <3>2, <3>3 DEF OrderInv, AnswersKnown, HasRef
  <2>7. ASSUME NEW v \in Worker \ {w} PROVE LookedUp(job[v])'
    <3>1. PICK k : k = job[v]
      OBVIOUS
    <3>2. job'[v] = k /\ LookedUp(k) /\ OrderJob(k)
      BY <1>2, <3>1 DEF Takes, OrderInv
    <3>3. k.op = "InsertTrx" => "trx" \in crossed
      BY <1>1, <3>1, <3>2, Alone DEF OrderJob
    <3>4. LookedUp(k)'
      BY <1>1, <1>2, <3>2, <3>3 DEF LookedUp
    <3> QED
      BY <3>2, <3>4 DEF LookedUp
  <2> QED
    BY <1>2, <1>4, <2>5, <2>6, <2>7, OrderStep
<1>6. CASE /\ ~Insertable(HasRef(trxs, r.ref) \/ HasId(trxs, r.id)) /\ UNCHANGED trxs
           /\ Answer(w, IF r.kind = "prepaid" THEN "duplicate" ELSE "error", None)
  <2>1. PICK result : answers' = answers \cup {[ref |-> r.ref, kind |-> r.kind, result |-> result, id |-> None]}
    BY <1>6 DEF Answer
  <2>2. HasRef(trxs, r.ref) \/ "trx" \in crossed
    BY <1>1, <1>3, <1>6 DEF Insertable, LookedUp
  <2>3. AnswersKnown'
    BY <1>1, <1>2, <1>6, <2>1, <2>2 DEF OrderInv, AnswersKnown, HasRef
  <2> QED
    BY <1>1, <1>2, <1>4, <1>6, <2>3, NoInsert
<1> QED
  BY <1>5, <1>6 DEF InsertTrx

LEMMA InsertPayStep ==
    ASSUME RequestInv, OrderInv, NEW w \in Worker, NEW id \in PublicId, InsertPay(w, id)
    PROVE  OrderInv' /\ Serves(OrderOps)
<1> PICK r : r = job[w]
  OBVIOUS
<1>1. /\ r.op = "InsertPay" /\ r.reads = {} /\ r.writes = {"pay"} /\ r.kind = "payment"
      /\ r \in [op : {"InsertPay"}, reads : {{}}, writes : {{"pay"}}, kind : {"payment"},
                ref : Reference, number : Nat, draws : Nat]
      /\ LookedUp(r) /\ UNCHANGED trxs
  BY DEF InsertPay, OrderInv, OrderJob
<1>2. OrderJob(Idle) /\ LookedUp(Idle)' /\ {job[w].op, Idle.op} \subseteq OrderOps \cup {"idle"}
  BY <1>1, IdleIsIdle DEF OrderJob, LookedUp, Idle, OrderOps
<1>3. CASE /\ Insertable(HasRef(pays, r.ref) \/ HasId(pays, id))
           /\ pays' = pays \cup {Order(r, id)} /\ Answer(w, "created", id) /\ Done(w)
  <2> PICK o : o = Order(r, id)
    OBVIOUS
  <2>1. o.ref = r.ref /\ o.id = id /\ pays' = pays \cup {o}
    BY <1>3 DEF Order
  <2>2. RequestInv' /\ Later /\ Takes(w, Idle) /\ UNCHANGED <<crossed, blind, constrained>>
    BY <1>3, DoneTakes DEF Done
  <2>3. InOrder("pay") => ~HasRef(pays, o.ref)
    BY <1>1, <1>3, <2>1 DEF Insertable, InOrder, LookedUp
  <2>4. InOrder("pay") => Apart(pays', RefOf)
    BY <2>1, <2>3 DEF OrderInv, RowsApart, Apart, RefOf, HasRef
  <2>5. RowsApart'
    BY <1>1, <2>2, <2>4 DEF OrderInv, RowsApart, InOrder, Apart, RefOf, IdOf, Prepaid
  <2>6. PICK a : a = [ref |-> r.ref, kind |-> r.kind, result |-> "created", id |-> id]
    OBVIOUS
  <2>7. answers' = answers \cup {a} /\ a.result = "created" /\ a.id = id /\ a.ref = r.ref
    BY <1>3, <2>6 DEF Answer
  <2>8. AnswersKnown'
    BY <1>1, <2>1, <2>2, <2>7 DEF OrderInv, AnswersKnown, HasRef
  <2>9. ASSUME NEW v \in Worker \ {w} PROVE LookedUp(job[v])'
    <3>1. PICK k : k = job[v]
      OBVIOUS
    <3>2. job'[v] = k /\ LookedUp(k) /\ OrderJob(k)
      BY <2>2, <3>1 DEF Takes, OrderInv
    <3>3. k.op = "InsertPay" => "pay" \in crossed
      BY <1>1, <3>1, <3>2, Alone DEF OrderJob
    <3>4. LookedUp(k)'
      BY <1>1, <2>2, <3>2, <3>3 DEF LookedUp, HasRef, HasId
    <3> QED
      BY <3>2, <3>4 DEF LookedUp
  <2> QED
    BY <1>2, <2>2, <2>5, <2>8, <2>9, OrderStep
<1>4. CASE job' = [job EXCEPT ![w].draws = @ + 1] /\ UNCHANGED <<served, crossed, blind, constrained, pays, answers>>
  <2> PICK k : k = [r EXCEPT !.draws = @ + 1]
    OBVIOUS
  <2>1. /\ k.op = "InsertPay" /\ k.reads = {} /\ k.writes = {"pay"} /\ k.ref = r.ref
        /\ k \in [op : {"InsertPay"}, reads : {{}}, writes : {{"pay"}}, kind : {"payment"},
                  ref : Reference, number : Nat, draws : Nat]
    BY <1>1
  <2>2. job' = [job EXCEPT ![w] = k]
    BY <1>4
  <2>3. k.reads \subseteq job[w].reads /\ k.writes \subseteq job[w].writes
    BY <1>1, <2>1
  <2>4. RequestInv' /\ Later /\ Takes(w, k)
    BY <1>4, <2>2, <2>3, GoesOn
  <2>5. OrderJob(k) /\ {job[w].op, k.op} \subseteq OrderOps \cup {"idle"}
    BY <1>1, <2>1 DEF OrderJob, OrderOps
  <2>6. LookedUp(k)'
    BY <1>1, <1>4, <2>1 DEF LookedUp, HasRef
  <2>7. AnswersKnown'
    BY <1>1, <1>4 DEF OrderInv, AnswersKnown, HasRef
  <2> QED
    BY <1>1, <1>4, <2>4, <2>5, <2>6, <2>7, NoInsert
<1>5. CASE Answer(w, "error", None) /\ Done(w) /\ UNCHANGED pays
  <2>1. RequestInv' /\ Later /\ Takes(w, Idle) /\ UNCHANGED <<crossed, blind, constrained>>
    BY <1>5, DoneTakes DEF Done
  <2>2. PICK a : a = [ref |-> r.ref, kind |-> r.kind, result |-> "error", id |-> None]
    OBVIOUS
  <2>3. answers' = answers \cup {a} /\ a.result = "error" /\ a.id = None
    BY <1>5, <2>2 DEF Answer
  <2>4. AnswersKnown'
    BY <1>1, <1>5, <2>1, <2>3 DEF OrderInv, AnswersKnown, HasRef
  <2> QED
    BY <1>1, <1>2, <1>5, <2>1, <2>4, NoInsert
<1> QED
  BY <1>3, <1>4, <1>5 DEF InsertPay

LEMMA OrdersNextStep ==
    ASSUME RequestInv, OrderInv, OrdersNext
    PROVE  OrderInv' /\ Serves(OrderOps)
<1> PICK w \in Worker :
      \/ \E ref \in Reference : RepeatPayment(w, ref) \/ OpenPayment(w, ref)
      \/ \E ref \in Reference, id \in PublicId : OpenPrepaid(w, ref, id) \/ OpenPostpaid(w, ref, id)
      \/ InsertTrx(w)
      \/ \E id \in PublicId : InsertPay(w, id)
      \/ OrdersFail(w)
  BY DEF OrdersNext
<1> QED
  BY RepeatPaymentStep, OpenPaymentStep, OpenPrepaidStep, OpenPostpaidStep, InsertTrxStep,
     InsertPayStep, OrdersFailStep

LEMMA RequestInit ==
    ASSUME InitRequests
    PROVE  RequestInv /\ \A w \in Worker : job[w] = Idle
<1>1. job = [w \in Worker |-> Idle] /\ served = 0
  BY DEF InitRequests
<1>2. \A w \in Worker : job[w].reads = {} /\ job[w].writes = {}
  BY <1>1, IdleIsIdle
<1> QED
  BY <1>1, <1>2 DEF RequestInv, Met

LEMMA OrderInit ==
    ASSUME InitRequests, InitOrders
    PROVE  OrderInv
<1>1. trxs = {} /\ pays = {} /\ answers = {}
  BY DEF InitOrders
<1>2. ASSUME NEW w \in Worker PROVE OrderJob(job[w]) /\ LookedUp(job[w])
  BY <1>1, RequestInit, IdleIsIdle DEF OrderJob, LookedUp
<1> QED
  BY <1>1, <1>2 DEF OrderInv, RowsApart, Apart, AnswersKnown, Prepaid

LEMMA OrdersAnswer ==
    ASSUME OrderInv
    PROVE  OneOrderPerReference
<1>1. ASSUME InOrder("pay"), NEW a \in answers, NEW b \in answers,
             a.kind = "payment", a.id # None, b.kind = "payment", b.id # None, a.ref = b.ref
      PROVE  a.id = b.id
  <2>1. PICK o \in pays : o.ref = a.ref /\ o.id = a.id
    BY <1>1 DEF OrderInv, AnswersKnown
  <2>2. PICK p \in pays : p.ref = b.ref /\ p.id = b.id
    BY <1>1 DEF OrderInv, AnswersKnown
  <2> QED
    BY <1>1, <2>1, <2>2 DEF OrderInv, RowsApart, Apart, RefOf
<1>2. (constrained \/ "pay" \notin crossed) =>
         \A a, b \in {c \in answers : c.kind = "payment" /\ c.id # None} : a.ref = b.ref => a.id = b.id
  BY <1>1 DEF InOrder
<1>3. \A a \in answers : a.result = "duplicate" => HasRef(trxs, a.ref) \/ "trx" \in crossed
  BY DEF OrderInv, AnswersKnown
<1> QED
  BY <1>2, <1>3 DEF OneOrderPerReference, OrderInv, RowsApart, InOrder, Prepaid

-----------------------------------------------------------------------------
(***************************************************************************)
(* The catalog.                                                            *)
(***************************************************************************)
MasterOps == {"CreateMaster", "RenameMaster", "DeleteMaster"}
ProductOps == {"CreateProduct", "UpdateProduct", "DeleteProduct"}
SKUOps == {"CreateSKU", "UpdateSKU", "DeleteSKU"}
CatalogOps == MasterOps \cup ProductOps \cup SKUOps

CatalogTypes ==
    /\ master = [k \in Kind |-> [i \in Id |-> master[k][i]]]
    /\ \A k \in Kind, i \in Id : master[k][i] \in Name \cup {None}
    /\ products = [i \in Id |-> products[i]]
    /\ skus = [i \in Id |-> skus[i]]
    /\ \A i \in Rows(skus) : skus[i] = [product |-> skus[i].product, code |-> skus[i].code]
    /\ issued = [t \in Kind \cup {"products", "skus", "mapping"} |-> issued[t]]
    /\ \A t \in Kind : issued[t] \in Nat
    /\ \A k \in Kind, i \in Id : i > issued[k] => master[k][i] = None

\* What a request of the catalog carries, and where it reads and writes.
CatalogJob(r) ==
    /\ r.op \in MasterOps => r.kind \in Kind /\ r.writes = {r.kind}
    /\ r.op \in {"CreateMaster", "RenameMaster"} => r.name \in Name
    /\ r.op \in {"RenameMaster", "DeleteMaster"} => r.id \in Id
    /\ r.op \in ProductOps => r.writes = {"products"}
    /\ r.op \in {"CreateProduct", "UpdateProduct"} => r.reads = Kind
    /\ r.op \in {"UpdateProduct", "DeleteProduct"} => r.id \in Id
    /\ r.op \in SKUOps => r.writes = {"skus"}
    /\ r.op \in {"CreateSKU", "UpdateSKU"} => r.row = [product |-> r.row.product, code |-> r.row.code]
    /\ r.op \in {"UpdateSKU", "DeleteSKU"} => r.id \in Id

\* A place where the checks alone keep keys apart: nobody met there, and every
\* check was made.
Kept(place) == ~constrained /\ place \notin crossed /\ blind = {}

\* References that may be stale.
Excused(k, name) == <<k, name>> \in renamed \/ k \in crossed \/ k \in blind

MayBeStale(p) == \A k \in Stale(p) : Excused(k, p[k])

\* What a request has checked is still so when it writes.
CatalogChecked(r) ==
    /\ r.op = "CreateMaster" /\ Kept(r.kind) => r.name \notin Names(r.kind)
    /\ r.op = "RenameMaster" /\ Kept(r.kind) => \A j \in Id \ {r.id} : master[r.kind][j] # r.name
    /\ r.op = "DeleteMaster" =>
          \A p \in Rows(products) :
             Refers(products[p], r.kind, r.id) => r.kind \in crossed \/ r.kind \in blind
    /\ r.op \in {"CreateProduct", "UpdateProduct"} => MayBeStale(r.row)
    /\ r.op = "CreateProduct" /\ Kept("products") => ~CodeTaken(products, r.row.code, None)
    /\ r.op = "UpdateProduct" /\ Kept("products") => ~CodeTaken(products, r.row.code, r.id)
    /\ r.op = "CreateSKU" /\ Kept("skus") => ~CodeTaken(skus, r.row.code, None)
    /\ r.op = "UpdateSKU" /\ Kept("skus") => ~CodeTaken(skus, r.row.code, r.id)

Distinct(place, tab, key(_)) ==
    Kept(place) => \A i, j \in Rows(tab) : key(tab[i]) = key(tab[j]) => i = j

MastersDistinct == \A k \in Kind : Distinct(k, master[k], Itself)
CodesDistinct == Distinct("products", products, CodeOf) /\ Distinct("skus", skus, CodeOf)

CatalogInv ==
    /\ CatalogTypes
    /\ \A w \in Worker : CatalogJob(job[w]) /\ CatalogChecked(job[w])
    /\ \A p \in Rows(products) : MayBeStale(products[p])
    /\ MastersDistinct /\ CodesDistinct

\* What was excused stays so; what is kept was kept.
CatalogLater == Later /\ renamed \subseteq renamed'

LEMMA ExcusesStay ==
    ASSUME CatalogLater
    PROVE  /\ \A k, name : Excused(k, name) => Excused(k, name)'
           /\ \A place : Kept(place)' => Kept(place)
  BY DEF CatalogLater, Later, Excused, Kept

LEMMA MayStillBeStale ==
    ASSUME NEW p, MayBeStale(p), CatalogLater, UNCHANGED master
    PROVE  MayBeStale(p)'
<1>1. Stale(p)' = Stale(p)
  BY DEF Stale, Names, Rows
<1> QED
  BY <1>1, ExcusesStay DEF MayBeStale

\* Tables that nobody writes.
LEMMA CheckedStill ==
    ASSUME NEW r, CatalogChecked(r), CatalogLater, UNCHANGED <<master, products, skus>>
    PROVE  CatalogChecked(r)'
<1>1. r.op \in {"CreateProduct", "UpdateProduct"} => MayBeStale(r.row)'
  <2> PICK p : p = r.row
    OBVIOUS
  <2>1. MayBeStale(p) => MayBeStale(p)'
    BY MayStillBeStale
  <2> QED
    BY <2>1 DEF CatalogChecked
<1> QED
  BY <1>1, ExcusesStay
     DEF CatalogChecked, Names, Rows, CodeTaken, Refers, CatalogLater, Later

LEMMA ProductsStill ==
    ASSUME \A p \in Rows(products) : MayBeStale(products[p]), CatalogLater,
           UNCHANGED <<master, products>>
    PROVE  (\A p \in Rows(products) : MayBeStale(products[p]))'
<1>1. Rows(products') = Rows(products)
  BY DEF Rows
<1>2. ASSUME NEW i \in Rows(products) PROVE MayBeStale(products[i])'
  <2> PICK p : p = products[i]
    OBVIOUS
  <2>1. MayBeStale(p)'
    BY MayStillBeStale
  <2> QED
    BY <2>1 DEF MayBeStale, Stale
<1> QED
  BY <1>1, <1>2

LEMMA DistinctStill ==
    ASSUME MastersDistinct, CodesDistinct, CatalogLater, UNCHANGED <<master, products, skus>>
    PROVE  MastersDistinct' /\ CodesDistinct'
  BY ExcusesStay DEF MastersDistinct, CodesDistinct, Distinct, Rows, Itself, CodeOf

\* The requests of other desks leave the catalog alone.
LEMMA CatalogKept ==
    ASSUME RequestInv, CatalogInv, NEW ops, Serves(ops), ops \cap CatalogOps = {},
           UNCHANGED <<master, products, skus, renamed>>, CatalogTypes'
    PROVE  CatalogInv'
<1>1. CatalogLater
  BY DEF CatalogLater, Serves
<1>2. ASSUME NEW w \in Worker PROVE CatalogJob(job[w])' /\ CatalogChecked(job[w])'
  <2> PICK r : r = job'[w]
    OBVIOUS
  <2>1. r = job[w] \/ r.op \notin CatalogOps
    BY IdleIsIdle DEF Serves, CatalogOps, MasterOps, ProductOps, SKUOps
  <2>2. CatalogJob(r)
    BY <2>1 DEF CatalogInv, CatalogJob, CatalogOps, MasterOps, ProductOps, SKUOps
  <2>3. CASE r = job[w]
    <3>1. CatalogChecked(r)
      BY <2>3 DEF CatalogInv
    <3>2. CatalogChecked(r)'
      BY <1>1, <3>1, CheckedStill
    <3> QED
      BY <2>2, <3>2 DEF CatalogJob, CatalogChecked
  <2>4. CASE r.op \notin CatalogOps
    <3>1. CatalogChecked(r)'
      BY <2>4 DEF CatalogChecked, CatalogOps, MasterOps, ProductOps, SKUOps
    <3> QED
      BY <2>2, <3>1 DEF CatalogJob, CatalogChecked
  <2> QED
    BY <2>1, <2>3, <2>4
<1>3. (\A p \in Rows(products) : MayBeStale(products[p]))'
  BY <1>1, ProductsStill DEF CatalogInv
<1>4. MastersDistinct' /\ CodesDistinct'
  BY <1>1, DistinctStill DEF CatalogInv
<1> QED
  BY <1>2, <1>3, <1>4 DEF CatalogInv

\* A step of one request: what is to be shown of the tables and the others.
LEMMA CatalogStep ==
    ASSUME CatalogInv, NEW w \in Worker, NEW r, RequestInv', Later, Takes(w, r),
           {job[w].op, r.op} \subseteq CatalogOps \cup {"idle"}, CatalogJob(r), CatalogChecked(r)',
           \A v \in Worker \ {w} : CatalogChecked(job[v])',
           CatalogTypes', (\A p \in Rows(products) : MayBeStale(products[p]))',
           MastersDistinct', CodesDistinct'
    PROVE  CatalogInv' /\ Serves(CatalogOps)
<1>1. job'[w] = r /\ \A v \in Worker \ {w} : job'[v] = job[v]
  BY DEF Takes
<1>2. ASSUME NEW v \in Worker PROVE CatalogJob(job[v])' /\ CatalogChecked(job[v])'
  <2>1. CASE v = w
    BY <1>1, <2>1 DEF CatalogJob, CatalogChecked
  <2>2. CASE v # w
    <3>1. CatalogChecked(job[v])' /\ job'[v] = job[v] /\ CatalogJob(job[v])
      BY <1>1, <2>2 DEF CatalogInv
    <3> QED
      BY <3>1 DEF CatalogJob
  <2> QED
    BY <2>1, <2>2
<1> QED
  BY <1>2, TakesServes DEF CatalogInv

LEMMA NothingWritten ==
    ASSUME CatalogInv, NEW w \in Worker, NEW r, RequestInv', Later, Takes(w, r),
           {job[w].op, r.op} \subseteq CatalogOps \cup {"idle"}, CatalogJob(r), CatalogChecked(r)', UNCHANGED catalog
    PROVE  CatalogInv' /\ Serves(CatalogOps)
<1>1. UNCHANGED <<master, products, skus, issued, renamed>> /\ CatalogLater
  BY DEF catalog, CatalogLater
<1>3. ASSUME NEW v \in Worker \ {w} PROVE CatalogChecked(job[v])'
  <2> PICK k : k = job[v]
    OBVIOUS
  <2>1. CatalogChecked(k)
    BY DEF CatalogInv
  <2>2. CatalogChecked(k)'
    BY <1>1, <2>1, CheckedStill
  <2>3. job'[v] = k
    BY DEF Takes
  <2> QED
    BY <2>2, <2>3 DEF CatalogChecked
<1>4. CatalogTypes'
  BY <1>1 DEF CatalogInv, CatalogTypes, Rows
<1>5. (\A p \in Rows(products) : MayBeStale(products[p]))'
  BY <1>1, ProductsStill DEF CatalogInv
<1>6. MastersDistinct' /\ CodesDistinct'
  BY <1>1, DistinctStill DEF CatalogInv
<1> QED
  BY <1>3, <1>4, <1>5, <1>6, CatalogStep

LEMMA OpenCatalog ==
    ASSUME RequestInv, CatalogInv, NEW w \in Worker, NEW r, Begin(w, r), blind \subseteq blind',
           r.op \in CatalogOps, CatalogJob(r), CatalogChecked(r)', UNCHANGED catalog
    PROVE  CatalogInv' /\ Serves(CatalogOps)
<1>1. RequestInv' /\ Later /\ Takes(w, r) /\ job[w].op = "idle"
  BY BeginTakes, IdleIsIdle
<1> QED
  BY <1>1, NothingWritten

LEMMA OpenMaster ==
    ASSUME RequestInv, CatalogInv, NEW w \in Worker, NEW k \in Kind, NEW i \in Id, NEW n \in Name,
           CreateMaster(w, k, n) \/ RenameMaster(w, k, i, n) \/ DeleteMaster(w, k, i)
    PROVE  CatalogInv' /\ Serves(CatalogOps)
<1>1. CASE CreateMaster(w, k, n)
  <2> PICK r : r = [op |-> "CreateMaster", reads |-> {k}, writes |-> {k}, kind |-> k, name |-> n]
    OBVIOUS
  <2>1. r.op = "CreateMaster" /\ r.writes = {k} /\ r.kind = k /\ r.name = n
    OBVIOUS
  <2> DEFINE taken == n \in Names(k)
  <2>2. Begin(w, r) /\ NothingFound(taken, "name") /\ UNCHANGED catalog
    BY <1>1 DEF CreateMaster
  <2>3. blind \subseteq blind' /\ (taken => blind' # {})
    <3>1. taken \in BOOLEAN
      OBVIOUS
    <3> HIDE DEF taken
    <3> QED
      BY <2>2, <3>1, Checked
  <2>4. CatalogChecked(r)'
    BY <2>1, <2>2, <2>3 DEF CatalogChecked, Kept, Names, catalog
  <2> QED
    BY <2>1, <2>2, <2>3, <2>4, OpenCatalog
       DEF CatalogJob, CatalogOps, MasterOps, ProductOps, SKUOps
<1>2. CASE RenameMaster(w, k, i, n)
  <2> PICK r : r = [op |-> "RenameMaster", reads |-> {k}, writes |-> {k}, kind |-> k, id |-> i, name |-> n]
    OBVIOUS
  <2>1. r.op = "RenameMaster" /\ r.writes = {k} /\ r.kind = k /\ r.name = n /\ r.id = i
    OBVIOUS
  <2> DEFINE taken == \E j \in Id \ {i} : master[k][j] = n
  <2>2. Begin(w, r) /\ NothingFound(taken, "name") /\ UNCHANGED catalog
    BY <1>2 DEF RenameMaster
  <2>3. blind \subseteq blind' /\ (taken => blind' # {})
    <3>1. taken \in BOOLEAN
      OBVIOUS
    <3> HIDE DEF taken
    <3> QED
      BY <2>2, <3>1, Checked
  <2>4. CatalogChecked(r)'
    BY <2>1, <2>2, <2>3 DEF CatalogChecked, Kept, catalog
  <2> QED
    BY <2>1, <2>2, <2>3, <2>4, OpenCatalog
       DEF CatalogJob, CatalogOps, MasterOps, ProductOps, SKUOps
<1>3. CASE DeleteMaster(w, k, i)
  <2> PICK r : r = [op |-> "DeleteMaster", reads |-> {"products"}, writes |-> {k}, kind |-> k, id |-> i]
    OBVIOUS
  <2>1. r.op = "DeleteMaster" /\ r.writes = {k} /\ r.kind = k /\ r.id = i
    OBVIOUS
  <2> DEFINE found == \E p \in Rows(products) : Refers(products[p], k, i)
  <2>2. Begin(w, r) /\ NothingFound(found, k) /\ UNCHANGED catalog
    BY <1>3 DEF DeleteMaster
  <2>3. blind \subseteq blind' /\ (~found \/ k \in blind')
    <3>1. found \in BOOLEAN
      OBVIOUS
    <3> HIDE DEF found
    <3> QED
      BY <2>2, <3>1, Checked
  <2>4. CatalogChecked(r)'
    BY <2>1, <2>2, <2>3 DEF CatalogChecked, Kept, catalog, Refers, Rows
  <2> QED
    BY <2>1, <2>2, <2>3, <2>4, OpenCatalog
       DEF CatalogJob, CatalogOps, MasterOps, ProductOps, SKUOps
<1> QED
  BY <1>1, <1>2, <1>3

LEMMA OpenProduct ==
    ASSUME RequestInv, CatalogInv, NEW w \in Worker, NEW p, CreateProduct(w, p)
    PROVE  CatalogInv' /\ Serves(CatalogOps)
<1> PICK r : r = [op |-> "CreateProduct", reads |-> Kind, writes |-> {"products"}, row |-> p]
  OBVIOUS
<1>1. r.op = "CreateProduct" /\ r.reads = Kind /\ r.writes = {"products"} /\ r.row = p
  OBVIOUS
<1>2. Begin(w, r) /\ NothingFound(CodeTaken(products, p.code, None), "code") /\ UNCHANGED catalog
      /\ Valid(p.category, p.brand, p.variant)
  BY DEF CreateProduct
<1>3. CodeTaken(products, p.code, None) \in BOOLEAN
  BY DEF CodeTaken
<1>4. blind \subseteq blind' /\ (CodeTaken(products, p.code, None) => blind' # {})
  BY <1>2, <1>3, Checked
<1>5. Stale(p) = {}
  BY <1>2 DEF Valid, Stale
<1>6. MayBeStale(p)'
  BY <1>2, <1>5 DEF MayBeStale, Stale, Names, Rows, catalog
<1>7. CatalogChecked(r)'
  BY <1>1, <1>2, <1>4, <1>6 DEF CatalogChecked, Kept, CodeTaken, Rows, catalog, MayBeStale, Stale
<1> QED
  BY <1>1, <1>2, <1>4, <1>7, OpenCatalog
     DEF CatalogJob, CatalogOps, MasterOps, ProductOps, SKUOps

\* A row that is updated gets no references but those it had and those that
\* were found.
LEMMA UpdatedRefers ==
    ASSUME CatalogAssumption, NEW p, NEW ch, Accepts(p, ch)
    PROVE  /\ Updated(p, ch).code = Given(ch.code, p.code)
           /\ \A k \in Stale(Updated(p, ch)) : k \in Stale(p) /\ Updated(p, ch)[k] = p[k]
<1> PICK q : q = Updated(p, ch)
  OBVIOUS
<1>1. /\ q["category"] = Given(ch.category, p.category) /\ q["brand"] = Given(ch.brand, p.brand)
      /\ q["variant"] = IF ch.variant = 0 THEN None ELSE Given(ch.variant, p.variant)
      /\ q.code = Given(ch.code, p.code)
  BY DEF Updated
<1>2. ASSUME NEW k \in Stale(q) PROVE k \in Stale(p) /\ q[k] = p[k]
  <2>1. CASE k = "category"
    BY <1>1, <2>1, <1>2 DEF Stale, Accepts, Valid, Given
  <2>2. CASE k = "brand"
    BY <1>1, <2>2, <1>2 DEF Stale, Accepts, Valid, Given
  <2>3. CASE k = "variant"
    BY <1>1, <2>3, <1>2 DEF Stale, Accepts, Valid, Given
  <2> QED
    BY <2>1, <2>2, <2>3, <1>2 DEF Stale
<1> QED
  BY <1>1, <1>2

LEMMA ReviseProduct ==
    ASSUME CatalogAssumption, RequestInv, CatalogInv, NEW w \in Worker, NEW i \in Id, NEW ch,
           UpdateProduct(w, i, ch)
    PROVE  CatalogInv' /\ Serves(CatalogOps)
<1> PICK p : p = products[i]
  OBVIOUS
<1> PICK q : q = Updated(p, ch)
  OBVIOUS
<1> PICK r : r = [op |-> "UpdateProduct", reads |-> Kind, writes |-> {"products"}, id |-> i, row |-> q]
  OBVIOUS
<1>1. r.op = "UpdateProduct" /\ r.reads = Kind /\ r.writes = {"products"} /\ r.row = q /\ r.id = i
  OBVIOUS
<1> DEFINE taken == ch.code \notin {Keep, p.code} /\ CodeTaken(products, ch.code, i)
<1>2. Begin(w, r) /\ NothingFound(taken, "code") /\ UNCHANGED catalog
      /\ Accepts(p, ch) /\ i \in Rows(products)
  BY DEF UpdateProduct
<1>3. blind \subseteq blind' /\ (taken => blind' # {})
  <2>1. taken \in BOOLEAN
    OBVIOUS
  <2> HIDE DEF taken
  <2> QED
    BY <1>2, <2>1, Checked
<1>4. /\ q.code = Given(ch.code, p.code)
      /\ \A k \in Stale(q) : k \in Stale(p) /\ q[k] = p[k]
  BY <1>2, UpdatedRefers
<1>5. MayBeStale(q)
  BY <1>2, <1>4 DEF CatalogInv, MayBeStale
<1>6. CatalogLater
  BY <1>2, BeginTakes, <1>3 DEF CatalogLater, catalog
<1>7. MayBeStale(q)'
  BY <1>2, <1>5, <1>6, MayStillBeStale DEF catalog
<1>8. Kept("products")' => ~CodeTaken(products, q.code, i)
  <2>1. CASE q.code = p.code
    <3>1. Kept("products") => \A j \in Rows(products) : products[j].code = p.code => j = i
      BY <1>2 DEF CatalogInv, CodesDistinct, Distinct, CodeOf
    <3> QED
      BY <2>1, <3>1, <1>6, ExcusesStay DEF CodeTaken
  <2>2. CASE q.code # p.code
    <3>1. ch.code \notin {Keep, p.code} /\ q.code = ch.code
      BY <1>4, <2>2 DEF Given
    <3> QED
      BY <1>3, <3>1 DEF Kept
  <2> QED
    BY <2>1, <2>2
<1>9. CatalogChecked(r)'
  BY <1>1, <1>2, <1>7, <1>8 DEF CatalogChecked, Kept, CodeTaken, Rows, catalog, MayBeStale, Stale
<1> QED
  BY <1>1, <1>2, <1>3, <1>9, OpenCatalog
     DEF CatalogJob, CatalogOps, MasterOps, ProductOps, SKUOps

LEMMA OpenDeletion ==
    ASSUME RequestInv, CatalogInv, NEW w \in Worker, NEW i \in Id,
           DeleteProduct(w, i) \/ DeleteSKU(w, i)
    PROVE  CatalogInv' /\ Serves(CatalogOps)
<1> PICK r : r = IF DeleteProduct(w, i)
                 THEN [op |-> "DeleteProduct", reads |-> {}, writes |-> {"products"}, id |-> i]
                 ELSE [op |-> "DeleteSKU", reads |-> {}, writes |-> {"skus"}, id |-> i]
  OBVIOUS
<1>1. Begin(w, r) /\ UNCHANGED <<blind, catalog>>
  BY DEF DeleteProduct, DeleteSKU
<1>2. /\ r.id = i
      /\ \/ r.op = "DeleteProduct" /\ r.writes = {"products"}
         \/ r.op = "DeleteSKU" /\ r.writes = {"skus"}
  OBVIOUS
<1>3. CatalogJob(r) /\ CatalogChecked(r)' /\ r.op \in CatalogOps
  BY <1>2 DEF CatalogJob, CatalogChecked, CatalogOps, MasterOps, ProductOps, SKUOps
<1> QED
  BY <1>1, <1>3, OpenCatalog

LEMMA OpenSKU ==
    ASSUME RequestInv, CatalogInv, NEW w \in Worker, NEW p \in Id, NEW code, CreateSKU(w, p, code)
    PROVE  CatalogInv' /\ Serves(CatalogOps)
<1> PICK q : q = [product |-> p, code |-> code]
  OBVIOUS
<1> PICK r : r = [op |-> "CreateSKU", reads |-> {"products"}, writes |-> {"skus"}, row |-> q]
  OBVIOUS
<1>1. /\ r.op = "CreateSKU" /\ r.writes = {"skus"} /\ r.row = q /\ q.code = code
      /\ q = [product |-> q.product, code |-> q.code]
  OBVIOUS
<1>2. Begin(w, r) /\ NothingFound(CodeTaken(skus, code, None), "code") /\ UNCHANGED catalog
  BY DEF CreateSKU
<1>3. CodeTaken(skus, code, None) \in BOOLEAN
  BY DEF CodeTaken
<1>4. blind \subseteq blind' /\ (CodeTaken(skus, code, None) => blind' # {})
  BY <1>2, <1>3, Checked
<1>5. CatalogChecked(r)'
  BY <1>1, <1>2, <1>4 DEF CatalogChecked, Kept, CodeTaken, Rows, catalog
<1> QED
  BY <1>1, <1>2, <1>4, <1>5, OpenCatalog
     DEF CatalogJob, CatalogOps, MasterOps, ProductOps, SKUOps

LEMMA ReviseSKU ==
    ASSUME RequestInv, CatalogInv, NEW w \in Worker, NEW i \in Id, NEW code, UpdateSKU(w, i, code)
    PROVE  CatalogInv' /\ Serves(CatalogOps)
<1> PICK p : p = skus[i]
  OBVIOUS
<1> PICK q : q = [p EXCEPT !.code = Given(code, @)]
  OBVIOUS
<1> PICK r : r = [op |-> "UpdateSKU", reads |-> {}, writes |-> {"skus"}, id |-> i, row |-> q]
  OBVIOUS
<1> DEFINE taken == code \notin {Keep, p.code} /\ CodeTaken(skus, code, i)
<1>1. Begin(w, r) /\ NothingFound(taken, "code") /\ UNCHANGED catalog /\ i \in Rows(skus)
  BY DEF UpdateSKU
<1> PICK product : product = p.product
  OBVIOUS
<1> PICK old : old = p.code
  OBVIOUS
<1>2. p = [product |-> product, code |-> old]
  BY <1>1 DEF CatalogInv, CatalogTypes
<1>3. p.code = old
  BY <1>2
<1>4. q = [product |-> product, code |-> Given(code, old)]
  BY <1>2
<1>5. q.product = product /\ q.code = Given(code, old)
  BY <1>4
<1>6. q = [product |-> q.product, code |-> q.code]
  BY <1>4, <1>5
<1>7. r.op = "UpdateSKU" /\ r.writes = {"skus"} /\ r.row = q /\ r.id = i
  OBVIOUS
<1>8. blind \subseteq blind' /\ (taken => blind' # {})
  <2>1. taken \in BOOLEAN
    OBVIOUS
  <2> HIDE DEF taken
  <2> QED
    BY <1>1, <2>1, Checked
<1>9. CatalogLater
  BY <1>1, <1>8, BeginTakes DEF CatalogLater, catalog
<1>10. Kept("skus")' => ~CodeTaken(skus, q.code, i)
  <2>1. CASE q.code = p.code
    <3>1. Kept("skus") => \A j \in Rows(skus) : skus[j].code = p.code => j = i
      BY <1>1 DEF CatalogInv, CodesDistinct, Distinct, CodeOf
    <3> QED
      BY <2>1, <3>1, <1>9, ExcusesStay DEF CodeTaken
  <2>2. CASE q.code # p.code
    <3>1. code \notin {Keep, p.code} /\ q.code = code
      BY <1>3, <1>5, <2>2 DEF Given
    <3> QED
      BY <1>8, <3>1 DEF Kept
  <2> QED
    BY <2>1, <2>2
<1>11. CatalogChecked(r)'
  BY <1>1, <1>7, <1>10 DEF CatalogChecked, Kept, CodeTaken, Rows, catalog
<1> QED
  BY <1>1, <1>6, <1>7, <1>8, <1>11, OpenCatalog
     DEF CatalogJob, CatalogOps, MasterOps, ProductOps, SKUOps

LEMMA CatalogRequestStep ==
    ASSUME CatalogAssumption, RequestInv, CatalogInv, NEW w \in Worker, CatalogRequest(w)
    PROVE  CatalogInv' /\ Serves(CatalogOps)
<1>1. ASSUME NEW k \in Kind, NEW n \in Name, CreateMaster(w, k, n)
      PROVE  CatalogInv' /\ Serves(CatalogOps)
  BY <1>1, OpenMaster DEF CatalogAssumption
<1>2. ASSUME NEW k \in Kind, NEW i \in Id, NEW n \in Name, RenameMaster(w, k, i, n)
      PROVE  CatalogInv' /\ Serves(CatalogOps)
  BY <1>2, OpenMaster
<1>3. ASSUME NEW k \in Kind, NEW i \in Id, DeleteMaster(w, k, i)
      PROVE  CatalogInv' /\ Serves(CatalogOps)
  BY <1>3, OpenMaster DEF CatalogAssumption
<1>4. ASSUME NEW p, CreateProduct(w, p) PROVE CatalogInv' /\ Serves(CatalogOps)
  BY <1>4, OpenProduct
<1>5. ASSUME NEW i \in Id, NEW ch, UpdateProduct(w, i, ch) PROVE CatalogInv' /\ Serves(CatalogOps)
  BY <1>5, ReviseProduct
<1>6. ASSUME NEW i \in Id, DeleteProduct(w, i) \/ DeleteSKU(w, i)
      PROVE  CatalogInv' /\ Serves(CatalogOps)
  BY <1>6, OpenDeletion
<1>7. ASSUME NEW i \in Id, NEW code, CreateSKU(w, i, code) \/ UpdateSKU(w, i, code)
      PROVE  CatalogInv' /\ Serves(CatalogOps)
  BY <1>7, OpenSKU, ReviseSKU
<1> QED
  BY <1>1, <1>2, <1>3, <1>4, <1>5, <1>6, <1>7 DEF CatalogRequest

LEMMA CatalogFailsStep ==
    ASSUME RequestInv, CatalogInv, NEW w \in Worker, CatalogFails(w)
    PROVE  CatalogInv' /\ Serves(CatalogOps)
<1>1. RequestInv' /\ Later /\ Takes(w, Idle) /\ UNCHANGED catalog
  BY DoneTakes DEF CatalogFails
<1>2. CatalogJob(Idle) /\ CatalogChecked(Idle)' /\ job[w].op \in CatalogOps
  BY IdleIsIdle DEF CatalogJob, CatalogChecked, CatalogOps, MasterOps, ProductOps, SKUOps, Idle, CatalogFails
<1> QED
  BY <1>1, <1>2, IdleIsIdle, NothingWritten

\* A write to the list k changes one row of it.
Sets(k, i, n) ==
    /\ \A j \in Kind \ {k} : master'[j] = master[j]
    /\ \A j \in Id \ {i} : master'[k][j] = master[k][j]
    /\ master'[k][i] = n

LEMMA SetMasterSets ==
    ASSUME CatalogTypes, NEW k \in Kind, NEW i \in Id, NEW n \in Name \cup {None}, SetMaster(k, i, n)
    PROVE  /\ Sets(k, i, n)
           /\ master' = [j \in Kind |-> [m \in Id |-> master'[j][m]]]
           /\ \A j \in Kind, m \in Id : master'[j][m] \in Name \cup {None}
<1> PICK new : new = [master[k] EXCEPT ![i] = n]
  OBVIOUS
<1>1. master[k] = [m \in Id |-> master[k][m]]
  BY DEF CatalogTypes
<1>2. new = [m \in Id |-> new[m]] /\ new[i] = n /\ \A m \in Id \ {i} : new[m] = master[k][m]
  BY <1>1
<1>3. master' = [master EXCEPT ![k] = new]
  BY DEF SetMaster
<1>4. master' = [j \in Kind |-> IF j = k THEN new ELSE master[j]]
  BY <1>3 DEF CatalogTypes
<1>5. \A j \in Kind : master'[j] = IF j = k THEN new ELSE master[j]
  BY <1>4
<1>6. Sets(k, i, n)
  BY <1>2, <1>5 DEF Sets
<1>7. \A j \in Kind : master'[j] = [m \in Id |-> master'[j][m]]
  <2> TAKE j \in Kind
  <2>1. CASE j = k
    BY <1>2, <1>5, <2>1
  <2>2. CASE j # k
    BY <1>5, <2>2 DEF CatalogTypes
  <2> QED
    BY <2>1, <2>2
<1>8. master' = [j \in Kind |-> master'[j]]
  BY <1>4
<1>9. master' = [j \in Kind |-> [m \in Id |-> master'[j][m]]]
  BY <1>7, <1>8
<1>10. \A j \in Kind, m \in Id : master'[j][m] \in Name \cup {None}
  BY <1>2, <1>5 DEF CatalogTypes
<1> QED
  BY <1>6, <1>9, <1>10

\* What may be stale when the list k has changed.
LEMMA StaleFrame ==
    ASSUME NEW k \in Kind, NEW p, CatalogLater, MayBeStale(p),
           \A j \in Kind \ {k} : master'[j] = master[j],
           k \in Stale(p)' => k \in Stale(p) \/ Excused(k, p[k])'
    PROVE  MayBeStale(p)'
<1>1. ASSUME NEW j \in Stale(p)', j # k PROVE j \in Stale(p)
  <2>1. j \in Kind \ {k}
    BY <1>1 DEF Stale, Kind
  <2>2. Names(j)' = Names(j) /\ master'[j] = master[j]
    BY <2>1 DEF Names
  <2> QED
    BY <1>1, <2>2 DEF Stale, Rows
<1>2. ASSUME NEW j \in Stale(p)' PROVE Excused(j, p[j])'
  <2>1. CASE j = k
    BY <1>2, <2>1, ExcusesStay DEF MayBeStale
  <2>2. CASE j # k
    BY <1>1, <1>2, <2>2, ExcusesStay DEF MayBeStale
  <2> QED
    BY <2>1, <2>2
<1> QED
  BY <1>2 DEF MayBeStale

\* A write to a list, for the requests in progress.
LEMMA MasterWritten ==
    ASSUME RequestInv, CatalogInv, NEW w \in Worker, NEW k \in Kind, job[w].op \in MasterOps,
           job[w].kind = k, Done(w),
           \A j \in Kind \ {k} : master'[j] = master[j], renamed \subseteq renamed',
           UNCHANGED <<products, skus>>, CatalogTypes',
           \A p \in Rows(products) :
              k \in Stale(products[p])' => k \in Stale(products[p]) \/ Excused(k, products[p][k])',
           Distinct(k, master[k], Itself)'
    PROVE  CatalogInv' /\ Serves(CatalogOps)
<1>1. /\ RequestInv' /\ Later /\ Takes(w, Idle) /\ UNCHANGED <<crossed, blind, constrained>>
      /\ CatalogLater
  BY DoneTakes DEF Done, CatalogLater
<1>2. job[w].writes = {k}
  BY DEF CatalogInv, CatalogJob
<1>3. ASSUME NEW v \in Worker \ {w} PROVE CatalogChecked(job[v])'
  <2> PICK r : r = job[v]
    OBVIOUS
  <2>1. CatalogJob(r) /\ CatalogChecked(r) /\ job'[v] = r
    BY <1>1 DEF CatalogInv, Takes
  <2>2. r.op \in MasterOps /\ r.kind = k => k \in crossed
    BY <1>2, <2>1, Alone DEF CatalogJob
  <2>3. r.op \in {"CreateProduct", "UpdateProduct"} => k \in crossed
    BY <1>2, <2>1, Alone DEF CatalogJob
  <2>4. r.op \in MasterOps /\ r.kind # k => master'[r.kind] = master[r.kind]
    BY <2>1 DEF CatalogJob
  <2>5. r.op \in {"CreateProduct", "UpdateProduct"} => MayBeStale(r.row)'
    <3> PICK p : p = r.row
      OBVIOUS
    <3>1. r.op \in {"CreateProduct", "UpdateProduct"} => Excused(k, p[k])'
      BY <1>1, <2>3 DEF Excused
    <3>2. r.op \in {"CreateProduct", "UpdateProduct"} => MayBeStale(p)'
      BY <1>1, <2>1, <3>1, StaleFrame DEF CatalogChecked
    <3> QED
      BY <3>2 DEF MayBeStale, Stale
  <2>6. CatalogChecked(r)'
    <3>1. /\ r.op = "CreateMaster" /\ Kept(r.kind)' => r.name \notin Names(r.kind)'
          /\ r.op = "RenameMaster" /\ Kept(r.kind)' => \A j \in Id \ {r.id} : master'[r.kind][j] # r.name
      BY <1>1, <2>1, <2>2, <2>4 DEF CatalogChecked, MasterOps, Kept, Names
    <3>2. r.op = "DeleteMaster" =>
            \A p \in Rows(products) :
               Refers(products[p], r.kind, r.id)' => r.kind \in crossed \/ r.kind \in blind
      BY <1>1, <2>1, <2>2, <2>4 DEF CatalogChecked, MasterOps, Refers
    <3>3. /\ r.op = "CreateProduct" /\ Kept("products")' => ~CodeTaken(products, r.row.code, None)
          /\ r.op = "UpdateProduct" /\ Kept("products")' => ~CodeTaken(products, r.row.code, r.id)
          /\ r.op = "CreateSKU" /\ Kept("skus")' => ~CodeTaken(skus, r.row.code, None)
          /\ r.op = "UpdateSKU" /\ Kept("skus")' => ~CodeTaken(skus, r.row.code, r.id)
      BY <1>1, <2>1 DEF CatalogChecked, Kept
    <3> QED
      BY <1>1, <2>5, <3>1, <3>2, <3>3 DEF CatalogChecked, Refers, CodeTaken, Rows
  <2> QED
    BY <2>1, <2>6 DEF CatalogChecked
<1>4. (\A p \in Rows(products) : MayBeStale(products[p]))'
  <2>1. ASSUME NEW i \in Rows(products) PROVE MayBeStale(products[i])'
    <3> PICK p : p = products[i]
      OBVIOUS
    <3>1. MayBeStale(p)'
      BY <1>1, StaleFrame DEF CatalogInv
    <3> QED
      BY <3>1 DEF MayBeStale, Stale
  <2> QED
    BY <2>1 DEF Rows
<1>5. MastersDistinct'
  <2>1. ASSUME NEW j \in Kind \ {k} PROVE Distinct(j, master[j], Itself)'
    BY <1>1 DEF CatalogInv, MastersDistinct, Distinct, Kept, Rows, Itself
  <2> QED
    BY <2>1 DEF MastersDistinct
<1>6. CodesDistinct'
  BY <1>1 DEF CatalogInv, CodesDistinct, Distinct, Kept, Rows, CodeOf
<1>7. CatalogJob(Idle) /\ CatalogChecked(Idle)' /\ {job[w].op, Idle.op} \subseteq CatalogOps \cup {"idle"}
  BY IdleIsIdle DEF CatalogOps, CatalogJob, CatalogChecked, MasterOps, ProductOps, SKUOps, Idle
<1> QED
  BY <1>1, <1>3, <1>4, <1>5, <1>6, <1>7, CatalogStep

LEMMA WriteMasterStep ==
    ASSUME CatalogAssumption, RequestInv, CatalogInv, NEW w \in Worker, WriteMaster(w)
    PROVE  CatalogInv' /\ Serves(CatalogOps)
<1> PICK r : r = job[w]
  OBVIOUS
<1> PICK k : k = r.kind
  OBVIOUS
<1>1. Done(w) /\ UNCHANGED <<products, skus, crossed, blind, constrained>> /\ r.op \in MasterOps
  BY DEF WriteMaster, Done, MasterOps
<1>2. CatalogJob(r) /\ CatalogChecked(r) /\ k \in Kind
  BY <1>1 DEF CatalogInv, CatalogJob
<1>3. /\ \A j \in Kind, m \in Id : m > issued[j] => master[j][m] = None
      /\ \A j \in Kind : issued[j] \in Nat
      /\ issued = [t \in Kind \cup {"products", "skus", "mapping"} |-> issued[t]]
      /\ Id \subseteq Nat \ {0} /\ None \notin Name
  BY DEF CatalogInv, CatalogTypes, CatalogAssumption
<1>4. \A i \in Id : \A n \in Name \cup {None} : SetMaster(k, i, n) =>
         /\ Sets(k, i, n)
         /\ master' = [j \in Kind |-> [m \in Id |-> master'[j][m]]]
         /\ \A j \in Kind, m \in Id : master'[j][m] \in Name \cup {None}
  <2> TAKE i \in Id
  <2> TAKE n \in Name \cup {None}
  <2> HAVE SetMaster(k, i, n)
  <2> QED
    BY <1>2, SetMasterSets DEF CatalogInv
<1>5. CASE /\ r.op = "CreateMaster"
           /\ \E i \in Id : NextId(k, i) /\ SetMaster(k, i, r.name)
           /\ UNCHANGED renamed
  <2>1. PICK i \in Id : NextId(k, i) /\ SetMaster(k, i, r.name)
    BY <1>5
  <2>2. r.name \in Name
    BY <1>2, <1>5 DEF CatalogJob
  <2>3. /\ Sets(k, i, r.name)
        /\ master' = [j \in Kind |-> [m \in Id |-> master'[j][m]]]
        /\ \A j \in Kind, m \in Id : master'[j][m] \in Name \cup {None}
    BY <1>4, <2>1, <2>2
  <2>4. i = issued[k] + 1 /\ issued' = [issued EXCEPT ![k] = i]
    BY <2>1 DEF NextId
  <2>5. master[k][i] = None
    BY <1>2, <1>3, <2>4
  <2>6. /\ issued' = [t \in Kind \cup {"products", "skus", "mapping"} |-> issued'[t]]
        /\ issued'[k] = i /\ \A j \in Kind \ {k} : issued'[j] = issued[j]
    BY <1>2, <1>3, <2>4
  <2>7. ASSUME NEW j \in Kind, NEW m \in Id, m > issued'[j] PROVE master'[j][m] = None
    <3>1. CASE j # k
      BY <1>3, <2>3, <2>6, <2>7, <3>1 DEF Sets
    <3>2. CASE j = k
      <4>1. m > i /\ m \in Nat /\ issued[k] \in Nat
        BY <1>2, <1>3, <2>6, <2>7, <3>2
      <4>2. m # i /\ m > issued[k]
        BY <2>4, <4>1
      <4> QED
        BY <1>2, <1>3, <2>3, <3>2, <4>2 DEF Sets
    <3> QED
      BY <3>1, <3>2
  <2>8. CatalogTypes'
    BY <1>1, <1>2, <1>3, <2>3, <2>6, <2>7 DEF CatalogInv, CatalogTypes, Rows
  <2>9. Names(k) \subseteq Names(k)' /\ Rows(master[k]) \subseteq Rows(master'[k])
    BY <2>3, <2>5 DEF Names, Rows, Sets
  <2>10. \A p \in Rows(products) :
            k \in Stale(products[p])' => k \in Stale(products[p]) \/ Excused(k, products[p][k])'
    BY <1>1, <2>9 DEF Stale
  <2>11. Distinct(k, master[k], Itself)'
    <3>1. Kept(k)' => r.name \notin Names(k)
      BY <1>1, <1>2, <1>5 DEF CatalogChecked, Kept
    <3>2. Kept(k)' => \A a, b \in Rows(master[k]) : master[k][a] = master[k][b] => a = b
      BY <1>1, <1>2 DEF CatalogInv, MastersDistinct, Distinct, Kept, Itself
    <3> QED
      BY <1>3, <2>2, <2>3, <3>1, <3>2 DEF Distinct, Itself, Sets, Rows, Names
  <2> QED
    BY <1>1, <1>2, <1>5, <2>3, <2>8, <2>10, <2>11, MasterWritten DEF Sets
<1>6. CASE /\ r.op = "RenameMaster"
           /\ r.id \in Rows(master[k])
           /\ SetMaster(k, r.id, r.name)
           /\ renamed' = renamed \cup {<<k, master[k][r.id]>>}
           /\ UNCHANGED issued
  <2> PICK i \in Id : i = r.id
    BY <1>2, <1>6 DEF CatalogJob
  <2>1. r.name \in Name /\ master[k][i] # None
    BY <1>2, <1>6 DEF CatalogJob, Rows
  <2>2. /\ Sets(k, i, r.name)
        /\ master' = [j \in Kind |-> [m \in Id |-> master'[j][m]]]
        /\ \A j \in Kind, m \in Id : master'[j][m] \in Name \cup {None}
    BY <1>4, <1>6, <2>1
  <2>3. \A j \in Kind, m \in Id : m > issued'[j] => master'[j][m] = None
    BY <1>2, <1>3, <1>6, <2>1, <2>2 DEF Sets
  <2>4. CatalogTypes'
    BY <1>1, <1>6, <2>2, <2>3 DEF CatalogInv, CatalogTypes, Rows
  <2>5. Names(k) \subseteq Names(k)' \cup {master[k][i]} /\ Rows(master[k]) \subseteq Rows(master'[k])
    BY <1>3, <2>1, <2>2 DEF Names, Rows, Sets
  <2>6. ASSUME NEW p \in Rows(products), k \in Stale(products[p])'
        PROVE  k \in Stale(products[p]) \/ Excused(k, products[p][k])'
    <3> PICK q : q = products[p]
      OBVIOUS
    <3>1. k \in Stale(q)'
      BY <1>1, <2>6 DEF Stale
    <3>2. CASE k = "variant"
      BY <2>5, <3>1, <3>2 DEF Stale
    <3>3. CASE k # "variant" /\ q[k] \notin Names(k)
      BY <1>2, <3>3 DEF Stale, Kind
    <3>4. CASE k # "variant" /\ q[k] \in Names(k)
      <4>1. q[k] \notin Names(k)'
        BY <3>1, <3>4 DEF Stale
      <4>2. q[k] = master[k][i]
        BY <2>5, <3>4, <4>1
      <4> QED
        BY <1>1, <1>6, <4>2 DEF Excused
    <3> QED
      BY <3>2, <3>3, <3>4
  <2>7. Distinct(k, master[k], Itself)'
    <3>1. Kept(k)' => \A j \in Id \ {i} : master[k][j] # r.name
      BY <1>1, <1>2, <1>6 DEF CatalogChecked, Kept
    <3>2. Kept(k)' => \A a, b \in Rows(master[k]) : master[k][a] = master[k][b] => a = b
      BY <1>1, <1>2 DEF CatalogInv, MastersDistinct, Distinct, Kept, Itself
    <3> QED
      BY <2>1, <2>2, <3>1, <3>2 DEF Distinct, Itself, Sets, Rows
  <2> QED
    BY <1>1, <1>2, <1>6, <2>2, <2>4, <2>6, <2>7, MasterWritten DEF Sets
<1>7. CASE r.op = "DeleteMaster" /\ SetMaster(k, r.id, None) /\ UNCHANGED <<issued, renamed>>
  <2> PICK i \in Id : i = r.id
    BY <1>2, <1>7 DEF CatalogJob
  <2>1. /\ Sets(k, i, None)
        /\ master' = [j \in Kind |-> [m \in Id |-> master'[j][m]]]
        /\ \A j \in Kind, m \in Id : master'[j][m] \in Name \cup {None}
    BY <1>4, <1>7
  <2>2. \A j \in Kind, m \in Id : m > issued'[j] => master'[j][m] = None
    BY <1>2, <1>3, <1>7, <2>1 DEF Sets
  <2>3. CatalogTypes'
    BY <1>1, <1>7, <2>1, <2>2 DEF CatalogInv, CatalogTypes, Rows
  <2>4. Names(k) \subseteq Names(k)' \cup {master[k][i]} /\ Rows(master[k]) \subseteq Rows(master'[k]) \cup {i}
    BY <2>1 DEF Names, Rows, Sets
  <2>5. ASSUME NEW p \in Rows(products), k \in Stale(products[p])'
        PROVE  k \in Stale(products[p]) \/ Excused(k, products[p][k])'
    <3> PICK q : q = products[p]
      OBVIOUS
    <3>1. k \in Stale(q)'
      BY <1>1, <2>5 DEF Stale
    <3>2. Refers(q, k, i) => k \in crossed \/ k \in blind
      BY <1>2, <1>7 DEF CatalogChecked
    <3>3. CASE k = "variant"
      BY <1>1, <2>4, <3>1, <3>2, <3>3 DEF Stale, Refers, Excused
    <3>4. CASE k # "variant"
      <4>1. q[k] \notin Names(k)'
        BY <3>1, <3>4 DEF Stale
      <4>2. q[k] \in Names(k) => q[k] = master[k][i]
        BY <2>4, <4>1
      <4> QED
        BY <1>1, <1>2, <3>2, <3>4, <4>2 DEF Stale, Refers, Excused, Kind
    <3> QED
      BY <3>3, <3>4
  <2>6. Distinct(k, master[k], Itself)'
    <3>1. Kept(k)' => \A a, b \in Rows(master[k]) : master[k][a] = master[k][b] => a = b
      BY <1>1, <1>2 DEF CatalogInv, MastersDistinct, Distinct, Kept, Itself
    <3> QED
      BY <2>1, <3>1 DEF Distinct, Itself, Sets, Rows
  <2> QED
    BY <1>1, <1>2, <1>7, <2>1, <2>3, <2>5, <2>6, MasterWritten DEF Sets
<1> QED
  BY <1>5, <1>6, <1>7 DEF WriteMaster

\* A write to the products, for the requests in progress.
LEMMA ProductWritten ==
    ASSUME RequestInv, CatalogInv, NEW w \in Worker, job[w].op \in ProductOps, Done(w),
           UNCHANGED <<master, renamed>>, CatalogTypes',
           \A i \in Rows(skus') : i \in Rows(skus) /\ skus'[i] = skus[i],
           job[w].op = "DeleteProduct" =>
              \A i \in Rows(products') : i \in Rows(products) /\ products'[i] = products[i],
           \A i \in Rows(products') : MayBeStale(products'[i]),
           Distinct("products", products, CodeOf)'
    PROVE  CatalogInv' /\ Serves(CatalogOps)
<1>1. /\ RequestInv' /\ Later /\ Takes(w, Idle) /\ UNCHANGED <<crossed, blind, constrained>>
      /\ CatalogLater
  BY DoneTakes DEF Done, CatalogLater
<1>2. job[w].writes = {"products"} /\ (job[w].op # "DeleteProduct" => job[w].reads = Kind)
  BY DEF CatalogInv, CatalogJob, ProductOps
<1>3. ASSUME NEW v \in Worker \ {w} PROVE CatalogChecked(job[v])'
  <2> PICK r : r = job[v]
    OBVIOUS
  <2>1. CatalogJob(r) /\ CatalogChecked(r) /\ job'[v] = r
    BY <1>1 DEF CatalogInv, Takes
  <2>2. r.op \in ProductOps => "products" \in crossed
    BY <1>2, <2>1, Alone DEF CatalogJob
  <2>3. r.op = "DeleteMaster" /\ job[w].op # "DeleteProduct" => r.kind \in crossed
    BY <1>2, <2>1, Alone DEF CatalogJob, MasterOps
  <2>4. r.op \in {"CreateProduct", "UpdateProduct"} => MayBeStale(r.row)'
    <3> PICK p : p = r.row
      OBVIOUS
    <3>1. r.op \in {"CreateProduct", "UpdateProduct"} => MayBeStale(p)'
      BY <1>1, <2>1, MayStillBeStale DEF CatalogChecked
    <3> QED
      BY <3>1 DEF MayBeStale, Stale
  <2>5. /\ r.op = "CreateMaster" /\ Kept(r.kind)' => r.name \notin Names(r.kind)'
        /\ r.op = "RenameMaster" /\ Kept(r.kind)' => \A j \in Id \ {r.id} : master'[r.kind][j] # r.name
    BY <1>1, <2>1 DEF CatalogChecked, Kept, Names
  <2>6. r.op = "DeleteMaster" =>
          \A p \in Rows(products') :
             Refers(products[p], r.kind, r.id)' => r.kind \in crossed \/ r.kind \in blind
    BY <1>1, <2>1, <2>3 DEF CatalogChecked, Refers
  <2>7. /\ r.op = "CreateProduct" /\ Kept("products")' => ~CodeTaken(products, r.row.code, None)'
        /\ r.op = "UpdateProduct" /\ Kept("products")' => ~CodeTaken(products, r.row.code, r.id)'
    BY <1>1, <2>2 DEF Kept, ProductOps
  <2>8. /\ r.op = "CreateSKU" /\ Kept("skus")' => ~CodeTaken(skus, r.row.code, None)'
        /\ r.op = "UpdateSKU" /\ Kept("skus")' => ~CodeTaken(skus, r.row.code, r.id)'
    BY <1>1, <2>1 DEF CatalogChecked, Kept, CodeTaken
  <2>9. CatalogChecked(r)'
    BY <1>1, <2>4, <2>5, <2>6, <2>7, <2>8 DEF CatalogChecked, Refers, Rows
  <2> QED
    BY <2>1, <2>9 DEF CatalogChecked
<1>4. (\A p \in Rows(products) : MayBeStale(products[p]))'
  <2>1. ASSUME NEW i \in Rows(products') PROVE MayBeStale(products[i])'
    <3> PICK p : p = products'[i]
      OBVIOUS
    <3>1. MayBeStale(p)'
      BY <1>1, MayStillBeStale
    <3> QED
      BY <3>1 DEF MayBeStale, Stale
  <2> QED
    BY <2>1 DEF Rows
<1>5. MastersDistinct'
  BY <1>1 DEF CatalogInv, MastersDistinct, Distinct, Kept, Rows, Itself
<1>6. CodesDistinct'
  BY <1>1 DEF CatalogInv, CodesDistinct, Distinct, Kept, CodeOf
<1>7. CatalogJob(Idle) /\ CatalogChecked(Idle)' /\ {job[w].op, Idle.op} \subseteq CatalogOps \cup {"idle"}
  BY IdleIsIdle DEF CatalogOps, CatalogJob, CatalogChecked, MasterOps, ProductOps, SKUOps, Idle
<1> QED
  BY <1>1, <1>3, <1>4, <1>5, <1>6, <1>7, CatalogStep

LEMMA WriteProductStep ==
    ASSUME CatalogAssumption, RequestInv, CatalogInv, NEW w \in Worker, WriteProduct(w)
    PROVE  CatalogInv' /\ Serves(CatalogOps)
<1> PICK r : r = job[w]
  OBVIOUS
<1>1. Done(w) /\ UNCHANGED <<master, renamed, crossed, blind, constrained>> /\ r.op \in ProductOps
  BY DEF WriteProduct, Done, ProductOps
<1>2. CatalogJob(r) /\ CatalogChecked(r)
  BY DEF CatalogInv
<1>3. /\ CatalogTypes /\ None \notin Id
      /\ products = [i \in Id |-> products[i]] /\ skus = [i \in Id |-> skus[i]]
      /\ issued = [t \in Kind \cup {"products", "skus", "mapping"} |-> issued[t]]
      /\ \A p \in Rows(products) : MayBeStale(products[p])
      /\ Distinct("products", products, CodeOf)
  BY DEF CatalogInv, CatalogTypes, CodesDistinct, CatalogAssumption
<1>4. CASE /\ r.op = "CreateProduct"
           /\ \E i \in Id : NextId("products", i) /\ products' = [products EXCEPT ![i] = r.row]
           /\ UNCHANGED skus
  <2>1. PICK i \in Id : NextId("products", i) /\ products' = [products EXCEPT ![i] = r.row]
    BY <1>4
  <2>2. products'[i] = r.row /\ \A j \in Id \ {i} : products'[j] = products[j]
    BY <1>3, <2>1
  <2>3. products' = [j \in Id |-> products'[j]]
    BY <1>3, <2>1
  <2>4. /\ issued' = [t \in Kind \cup {"products", "skus", "mapping"} |-> issued'[t]]
        /\ \A t \in Kind : issued'[t] = issued[t]
    BY <1>3, <2>1 DEF NextId, Kind
  <2>5. CatalogTypes'
    BY <1>1, <1>3, <1>4, <2>3, <2>4 DEF CatalogTypes, Rows
  <2>6. MayBeStale(r.row)
    BY <1>2, <1>4 DEF CatalogChecked
  <2>7. \A j \in Rows(products') : MayBeStale(products'[j])
    BY <1>3, <2>2, <2>6 DEF Rows
  <2>8. Kept("products") => ~CodeTaken(products, r.row.code, None)
    BY <1>2, <1>4 DEF CatalogChecked
  <2>9. Distinct("products", products, CodeOf)'
    BY <1>1, <1>3, <2>2, <2>8 DEF Distinct, CodeTaken, CodeOf, Rows, Kept
  <2> QED
    BY <1>1, <1>4, <2>5, <2>7, <2>9, ProductWritten DEF Rows
<1>5. CASE /\ r.op = "UpdateProduct"
           /\ products' = [products EXCEPT ![r.id] = r.row]
           /\ UNCHANGED <<skus, issued>>
  <2> PICK i \in Id : i = r.id
    BY <1>2, <1>5 DEF CatalogJob
  <2>2. products'[i] = r.row /\ \A j \in Id \ {i} : products'[j] = products[j]
    BY <1>3, <1>5
  <2>3. products' = [j \in Id |-> products'[j]]
    BY <1>3, <1>5
  <2>5. CatalogTypes'
    BY <1>1, <1>3, <1>5, <2>3 DEF CatalogTypes, Rows
  <2>6. MayBeStale(r.row)
    BY <1>2, <1>5 DEF CatalogChecked
  <2>7. \A j \in Rows(products') : MayBeStale(products'[j])
    BY <1>3, <2>2, <2>6 DEF Rows
  <2>8. Kept("products") => ~CodeTaken(products, r.row.code, i)
    BY <1>2, <1>5 DEF CatalogChecked
  <2>9. Distinct("products", products, CodeOf)'
    BY <1>1, <1>3, <2>2, <2>8 DEF Distinct, CodeTaken, CodeOf, Rows, Kept
  <2> QED
    BY <1>1, <1>5, <2>5, <2>7, <2>9, ProductWritten DEF Rows
<1>6. CASE /\ r.op = "DeleteProduct"
           /\ products' = [products EXCEPT ![r.id] = None]
           /\ skus' \in {skus, [i \in Id |-> IF i \in Rows(skus) /\ skus[i].product = r.id
                                             THEN None ELSE skus[i]]}
           /\ UNCHANGED issued
  <2> PICK i \in Id : i = r.id
    BY <1>2, <1>6 DEF CatalogJob
  <2>2. products'[i] = None /\ \A j \in Id \ {i} : products'[j] = products[j]
    BY <1>3, <1>6
  <2>3. products' = [j \in Id |-> products'[j]]
    BY <1>3, <1>6
  <2>4. skus' = [j \in Id |-> skus'[j]] /\ \A j \in Id : skus'[j] = skus[j] \/ skus'[j] = None
    BY <1>3, <1>6
  <2>5. \A j \in Rows(skus') : j \in Rows(skus) /\ skus'[j] = skus[j]
    BY <2>4 DEF Rows
  <2>6. CatalogTypes'
    <3>1. \A j \in Rows(skus') : skus'[j] = [product |-> skus'[j].product, code |-> skus'[j].code]
      BY <1>3, <2>5 DEF CatalogTypes
    <3>2. UNCHANGED <<master, issued>>
      BY <1>1, <1>6
    <3> QED
      BY <1>3, <2>3, <2>4, <3>1, <3>2 DEF CatalogTypes, Rows
  <2>7. \A j \in Rows(products') : j \in Rows(products) /\ products'[j] = products[j]
    BY <2>2 DEF Rows
  <2>8. Distinct("products", products, CodeOf)'
    BY <1>1, <1>3, <2>7 DEF Distinct, CodeOf, Kept
  <2> QED
    BY <1>1, <1>3, <2>5, <2>6, <2>7, <2>8, ProductWritten
<1> QED
  BY <1>4, <1>5, <1>6 DEF WriteProduct

\* A write to the SKUs, for the requests in progress.
LEMMA SKUWritten ==
    ASSUME RequestInv, CatalogInv, NEW w \in Worker, job[w].op \in SKUOps, Done(w),
           UNCHANGED <<master, products, renamed>>, CatalogTypes', Distinct("skus", skus, CodeOf)'
    PROVE  CatalogInv' /\ Serves(CatalogOps)
<1>1. /\ RequestInv' /\ Later /\ Takes(w, Idle) /\ UNCHANGED <<crossed, blind, constrained>>
      /\ CatalogLater
  BY DoneTakes DEF Done, CatalogLater
<1>2. job[w].writes = {"skus"}
  BY DEF CatalogInv, CatalogJob
<1>3. ASSUME NEW v \in Worker \ {w} PROVE CatalogChecked(job[v])'
  <2> PICK r : r = job[v]
    OBVIOUS
  <2>1. CatalogJob(r) /\ CatalogChecked(r) /\ job'[v] = r
    BY <1>1 DEF CatalogInv, Takes
  <2>2. r.op \in SKUOps => "skus" \in crossed
    BY <1>2, <2>1, Alone DEF CatalogJob
  <2>3. r.op \in {"CreateProduct", "UpdateProduct"} => MayBeStale(r.row)'
    <3> PICK p : p = r.row
      OBVIOUS
    <3>1. r.op \in {"CreateProduct", "UpdateProduct"} => MayBeStale(p)'
      BY <1>1, <2>1, MayStillBeStale DEF CatalogChecked
    <3> QED
      BY <3>1 DEF MayBeStale, Stale
  <2>4. /\ r.op = "CreateSKU" /\ Kept("skus")' => ~CodeTaken(skus, r.row.code, None)'
        /\ r.op = "UpdateSKU" /\ Kept("skus")' => ~CodeTaken(skus, r.row.code, r.id)'
    BY <1>1, <2>2 DEF Kept, SKUOps
  <2>5. CatalogChecked(r)'
    BY <1>1, <2>1, <2>3, <2>4 DEF CatalogChecked, Kept, Names, Refers, Rows, CodeTaken
  <2> QED
    BY <2>1, <2>5 DEF CatalogChecked
<1>4. (\A p \in Rows(products) : MayBeStale(products[p]))'
  BY <1>1, ProductsStill DEF CatalogInv
<1>5. MastersDistinct'
  BY <1>1 DEF CatalogInv, MastersDistinct, Distinct, Kept, Rows, Itself
<1>6. CodesDistinct'
  BY <1>1 DEF CatalogInv, CodesDistinct, Distinct, Kept, Rows, CodeOf
<1>7. CatalogJob(Idle) /\ CatalogChecked(Idle)' /\ {job[w].op, Idle.op} \subseteq CatalogOps \cup {"idle"}
  BY IdleIsIdle DEF CatalogOps, CatalogJob, CatalogChecked, MasterOps, ProductOps, SKUOps, Idle
<1> QED
  BY <1>1, <1>3, <1>4, <1>5, <1>6, <1>7, CatalogStep

LEMMA WriteSKUStep ==
    ASSUME CatalogAssumption, RequestInv, CatalogInv, NEW w \in Worker, WriteSKU(w)
    PROVE  CatalogInv' /\ Serves(CatalogOps)
<1> PICK r : r = job[w]
  OBVIOUS
<1>1. Done(w) /\ UNCHANGED <<master, products, renamed, crossed, blind, constrained>> /\ r.op \in SKUOps
  BY DEF WriteSKU, Done, SKUOps
<1>2. CatalogJob(r) /\ CatalogChecked(r)
  BY DEF CatalogInv
<1>3. /\ CatalogTypes /\ None \notin Id /\ skus = [i \in Id |-> skus[i]]
      /\ \A i \in Rows(skus) : skus[i] = [product |-> skus[i].product, code |-> skus[i].code]
      /\ issued = [t \in Kind \cup {"products", "skus", "mapping"} |-> issued[t]]
      /\ Distinct("skus", skus, CodeOf)
  BY DEF CatalogInv, CatalogTypes, CodesDistinct, CatalogAssumption
<1>4. CASE r.op = "CreateSKU" /\ \E i \in Id : NextId("skus", i) /\ skus' = [skus EXCEPT ![i] = r.row]
  <2>1. PICK i \in Id : NextId("skus", i) /\ skus' = [skus EXCEPT ![i] = r.row]
    BY <1>4
  <2>2. skus'[i] = r.row /\ \A j \in Id \ {i} : skus'[j] = skus[j]
    BY <1>3, <2>1
  <2>3. skus' = [j \in Id |-> skus'[j]]
    BY <1>3, <2>1
  <2>4. /\ issued' = [t \in Kind \cup {"products", "skus", "mapping"} |-> issued'[t]]
        /\ \A t \in Kind : issued'[t] = issued[t]
    BY <1>3, <2>1 DEF NextId, Kind
  <2>5. r.row = [product |-> r.row.product, code |-> r.row.code]
    BY <1>2, <1>4 DEF CatalogJob
  <2>6. \A j \in Rows(skus') : skus'[j] = [product |-> skus'[j].product, code |-> skus'[j].code]
    BY <1>3, <2>2, <2>5 DEF Rows
  <2>7. CatalogTypes'
    BY <1>1, <1>3, <2>3, <2>4, <2>6 DEF CatalogTypes, Rows
  <2>8. Kept("skus") => ~CodeTaken(skus, r.row.code, None)
    BY <1>2, <1>4 DEF CatalogChecked
  <2>9. Distinct("skus", skus, CodeOf)'
    BY <1>1, <1>3, <2>2, <2>8 DEF Distinct, CodeTaken, CodeOf, Rows, Kept
  <2> QED
    BY <1>1, <2>7, <2>9, SKUWritten
<1>5. CASE r.op = "UpdateSKU" /\ skus' = [skus EXCEPT ![r.id] = r.row] /\ UNCHANGED issued
  <2> PICK i \in Id : i = r.id
    BY <1>2, <1>5 DEF CatalogJob
  <2>2. skus'[i] = r.row /\ \A j \in Id \ {i} : skus'[j] = skus[j]
    BY <1>3, <1>5
  <2>3. skus' = [j \in Id |-> skus'[j]]
    BY <1>3, <1>5
  <2>5. r.row = [product |-> r.row.product, code |-> r.row.code]
    BY <1>2, <1>5 DEF CatalogJob
  <2>6. \A j \in Rows(skus') : skus'[j] = [product |-> skus'[j].product, code |-> skus'[j].code]
    BY <1>3, <2>2, <2>5 DEF Rows
  <2>7. CatalogTypes'
    <3>1. UNCHANGED <<master, products, issued>>
      BY <1>1, <1>5
    <3> QED
      BY <1>3, <2>3, <2>6, <3>1 DEF CatalogTypes, Rows
  <2>8. Kept("skus") => ~CodeTaken(skus, r.row.code, i)
    BY <1>2, <1>5 DEF CatalogChecked
  <2>9. Distinct("skus", skus, CodeOf)'
    BY <1>1, <1>3, <2>2, <2>8 DEF Distinct, CodeTaken, CodeOf, Rows, Kept
  <2> QED
    BY <1>1, <2>7, <2>9, SKUWritten
<1>6. CASE r.op = "DeleteSKU" /\ skus' = [skus EXCEPT ![r.id] = None] /\ UNCHANGED issued
  <2> PICK i \in Id : i = r.id
    BY <1>2, <1>6 DEF CatalogJob
  <2>2. skus'[i] = None /\ \A j \in Id \ {i} : skus'[j] = skus[j]
    BY <1>3, <1>6
  <2>3. skus' = [j \in Id |-> skus'[j]]
    BY <1>3, <1>6
  <2>6. \A j \in Rows(skus') : skus'[j] = [product |-> skus'[j].product, code |-> skus'[j].code]
    BY <1>3, <2>2 DEF Rows
  <2>7. CatalogTypes'
    <3>1. UNCHANGED <<master, products, issued>>
      BY <1>1, <1>6
    <3> QED
      BY <1>3, <2>3, <2>6, <3>1 DEF CatalogTypes, Rows
  <2>9. Distinct("skus", skus, CodeOf)'
    BY <1>1, <1>3, <2>2 DEF Distinct, CodeOf, Rows, Kept
  <2> QED
    BY <1>1, <2>7, <2>9, SKUWritten
<1> QED
  BY <1>4, <1>5, <1>6 DEF WriteSKU

LEMMA CatalogInit ==
    ASSUME CatalogAssumption, InitRequests, InitCatalog
    PROVE  CatalogInv
<1> PICK name : name = CHOOSE n \in Name : TRUE
  OBVIOUS
<1> PICK code : code = CHOOSE c \in ProductCode : TRUE
  OBVIOUS
<1> PICK p : p = [code |-> code, category |-> name, brand |-> name, variant |-> 1]
  OBVIOUS
<1> PICK q : q = [product |-> 1, code |-> code]
  OBVIOUS
<1>1. name \in Name /\ name # None /\ 1 \in Id
  BY DEF CatalogAssumption
<1>2. /\ master = [k \in Kind |-> [i \in Id |-> IF i = 1 THEN name ELSE None]]
      /\ products = [i \in Id |-> IF i = 1 THEN p ELSE None]
      /\ skus = [i \in Id |-> IF i = 1 THEN q ELSE None]
      /\ renamed = {}
  BY DEF InitCatalog
<1>3. issued = [t \in Kind \cup {"products", "skus", "mapping"} |-> IF t = "mapping" THEN 0 ELSE 1]
  BY DEF InitCatalog
<1>6. /\ issued = [t \in Kind \cup {"products", "skus", "mapping"} |-> issued[t]]
      /\ \A k \in Kind : issued[k] = 1
  BY <1>3 DEF Kind
<1>7. q = [product |-> q.product, code |-> q.code]
  OBVIOUS
<1>8. CatalogTypes
  <2>1. \A k \in Kind, i \in Id : master[k][i] = IF i = 1 THEN name ELSE None
    BY <1>2
  <2>2. master = [k \in Kind |-> [i \in Id |-> master[k][i]]]
    BY <1>2
  <2>3. \A k \in Kind, i \in Id : i > issued[k] => master[k][i] = None
    BY <1>6, <2>1
  <2>4. \A i \in Rows(skus) : skus[i] = [product |-> skus[i].product, code |-> skus[i].code]
    BY <1>2, <1>7 DEF Rows
  <2> QED
    BY <1>1, <1>2, <1>6, <2>1, <2>2, <2>3, <2>4 DEF CatalogTypes
<1>9. Stale(p) = {}
  <2>1. \A k \in Kind : name \in Names(k) /\ 1 \in Rows(master[k])
    BY <1>1, <1>2 DEF Names, Rows
  <2>2. p["category"] = name /\ p["brand"] = name /\ p["variant"] = 1
    OBVIOUS
  <2> QED
    BY <2>1, <2>2 DEF Stale, Kind
<1>10. \A i \in Rows(products) : MayBeStale(products[i])
  BY <1>2, <1>9 DEF MayBeStale, Rows
<1>11. MastersDistinct /\ CodesDistinct
  BY <1>2 DEF MastersDistinct, CodesDistinct, Distinct, Rows
<1>12. ASSUME NEW w \in Worker PROVE CatalogJob(job[w]) /\ CatalogChecked(job[w])
  BY RequestInit, IdleIsIdle DEF CatalogJob, CatalogChecked, MasterOps, ProductOps, SKUOps
<1> QED
  BY <1>8, <1>10, <1>11, <1>12 DEF CatalogInv

LEMMA CatalogTrue ==
    ASSUME CatalogInv
    PROVE  CatalogConsistent
<1>1. MastersExist
  BY DEF CatalogInv, MayBeStale, Excused, MastersExist
<1>2. (\A k \in Kind : Unique(k, master[k], Itself))
  BY DEF CatalogInv, MastersDistinct, Distinct, Kept, Unique
<1>3. Unique("products", products, CodeOf) /\ Unique("skus", skus, CodeOf)
  BY DEF CatalogInv, CodesDistinct, Distinct, Kept, Unique
<1> QED
  BY <1>1, <1>2, <1>3 DEF CatalogConsistent

\* One stale reference can be mended, two cannot.
LEMMA Mending ==
    ASSUME CatalogAssumption, CatalogTypes
    PROVE  OneReferenceMends
<1>1. ASSUME NEW p, Stale(p) # {}
      PROVE  (\E ch \in References : Accepts(p, ch) /\ Cardinality(Stale(Updated(p, ch))) < Cardinality(Stale(p)))
             <=> (\E k \in Kind : Stale(p) = {k} /\ (k = "variant" \/ Names(k) # {}))
  <2>1. Cardinality(Stale(p)) \in Nat
    <3>1. IsFiniteSet({"category", "brand", "variant"})
      <4>1. IsFiniteSet({"category"}) /\ IsFiniteSet({"brand"}) /\ IsFiniteSet({"variant"})
        BY FS_Singleton
      <4>2. IsFiniteSet({"category"} \cup {"brand"})
        BY <4>1, FS_Union
      <4>3. IsFiniteSet(({"category"} \cup {"brand"}) \cup {"variant"})
        BY <4>1, <4>2, FS_Union
      <4>4. ({"category"} \cup {"brand"}) \cup {"variant"} = {"category", "brand", "variant"}
        OBVIOUS
      <4> QED
        BY <4>3, <4>4
    <3>2. Stale(p) \subseteq {"category", "brand", "variant"}
      BY DEF Stale
    <3> QED
      BY <3>1, <3>2, FS_Subset, FS_CardinalityType
  <2>2. ASSUME NEW ch \in References, Accepts(p, ch),
               Cardinality(Stale(Updated(p, ch))) < Cardinality(Stale(p))
        PROVE  \E k \in Kind : Stale(p) = {k} /\ (k = "variant" \/ Names(k) # {})
    <3>1. CASE ch.category # Keep
      <4>1. ch.category \in Names("category") /\ p.brand \in Names("brand")
            /\ p.variant \in {None, 0} \cup Rows(master["variant"])
        BY <2>2, <3>1 DEF Accepts, Valid
      <4>2. Stale(p) = {"category"}
        BY <1>1, <4>1 DEF Stale
      <4> QED
        BY <4>1, <4>2 DEF Kind
    <3>2. CASE ch.category = Keep /\ ch.brand # Keep
      <4>1. ch.brand \in Names("brand") /\ p.category \in Names("category")
            /\ p.variant \in {None, 0} \cup Rows(master["variant"])
        BY <2>2, <3>2 DEF Accepts, Valid, Given
      <4>2. Stale(p) = {"brand"}
        BY <1>1, <4>1 DEF Stale
      <4> QED
        BY <4>1, <4>2 DEF Kind
    <3>3. CASE ch.category = Keep /\ ch.brand = Keep /\ ch.variant # Keep
      <4>1. p.brand \in Names("brand") /\ p.category \in Names("category")
        BY <2>2, <3>3 DEF Accepts, Valid, Given
      <4>2. Stale(p) = {"variant"}
        BY <1>1, <4>1 DEF Stale
      <4> QED
        BY <4>2 DEF Kind
    <3>4. CASE ch.category = Keep /\ ch.brand = Keep /\ ch.variant = Keep
      <4> PICK q : q = Updated(p, ch)
        OBVIOUS
      <4>1. q["category"] = p.category /\ q["brand"] = p.brand /\ q["variant"] = p.variant
        BY <3>4 DEF Updated, Given, CatalogAssumption
      <4>2. Stale(q) = Stale(p)
        BY <4>1 DEF Stale
      <4> QED
        BY <2>1, <2>2, <4>2
    <3> QED
      BY <3>1, <3>2, <3>3, <3>4
  <2>3. ASSUME NEW k \in Kind, Stale(p) = {k}, k = "variant" \/ Names(k) # {}
        PROVE  \E ch \in References : Accepts(p, ch) /\ Cardinality(Stale(Updated(p, ch))) < Cardinality(Stale(p))
    <3>1. Cardinality(Stale(p)) = 1 /\ Cardinality({}) = 0
      BY <2>3, FS_Singleton, FS_EmptySet
    <3>2. \A j \in Kind : Names(j) \subseteq Name
      BY DEF CatalogTypes, Names
    <3>3. SUFFICES \E ch \in References : Accepts(p, ch) /\ Stale(Updated(p, ch)) = {}
      BY <3>1
    <3>4. CASE k = "variant"
      <4> PICK ch : ch = [code |-> Keep, category |-> Keep, brand |-> Keep, variant |-> 0]
        OBVIOUS
      <4> PICK q : q = Updated(p, ch)
        OBVIOUS
      <4>1. /\ ch \in References
            /\ ch.category = Keep /\ ch.brand = Keep /\ ch.variant = 0
        BY DEF References
      <4>2. p.category \in Names("category") /\ p.brand \in Names("brand")
        BY <2>3, <3>4 DEF Stale
      <4>3. Accepts(p, ch)
        BY <4>1, <4>2 DEF Accepts, Valid, Given
      <4>4. q["category"] = p.category /\ q["brand"] = p.brand /\ q["variant"] = None
        BY <4>1 DEF Updated, Given
      <4>5. Stale(q) = {}
        BY <4>2, <4>4 DEF Stale
      <4> QED
        BY <4>1, <4>3, <4>5
    <3>5. CASE k = "category"
      <4> PICK n \in Names("category") : TRUE
        BY <2>3, <3>5
      <4> PICK ch : ch = [code |-> Keep, category |-> n, brand |-> Keep, variant |-> Keep]
        OBVIOUS
      <4> PICK q : q = Updated(p, ch)
        OBVIOUS
      <4>1. /\ ch \in References /\ n # Keep
            /\ ch.category = n /\ ch.brand = Keep /\ ch.variant = Keep
        BY <3>2 DEF References, CatalogAssumption, Kind
      <4>2. p.variant \in {None, 0} \cup Rows(master["variant"]) /\ p.brand \in Names("brand")
        BY <2>3, <3>5 DEF Stale
      <4>3. Accepts(p, ch)
        BY <4>1, <4>2 DEF Accepts, Valid, Given
      <4>4. q["category"] = n /\ q["brand"] = p.brand /\ q["variant"] = p.variant
        BY <4>1 DEF Updated, Given, CatalogAssumption
      <4>5. Stale(q) = {}
        BY <4>2, <4>4 DEF Stale
      <4> QED
        BY <4>1, <4>3, <4>5
    <3>6. CASE k = "brand"
      <4> PICK n \in Names("brand") : TRUE
        BY <2>3, <3>6
      <4> PICK ch : ch = [code |-> Keep, category |-> Keep, brand |-> n, variant |-> Keep]
        OBVIOUS
      <4> PICK q : q = Updated(p, ch)
        OBVIOUS
      <4>1. /\ ch \in References /\ n # Keep
            /\ ch.category = Keep /\ ch.brand = n /\ ch.variant = Keep
        BY <3>2 DEF References, CatalogAssumption, Kind
      <4>2. p.variant \in {None, 0} \cup Rows(master["variant"]) /\ p.category \in Names("category")
        BY <2>3, <3>6 DEF Stale
      <4>3. Accepts(p, ch)
        BY <4>1, <4>2 DEF Accepts, Valid, Given
      <4>4. q["category"] = p.category /\ q["brand"] = n /\ q["variant"] = p.variant
        BY <4>1 DEF Updated, Given, CatalogAssumption
      <4>5. Stale(q) = {}
        BY <4>2, <4>4 DEF Stale
      <4> QED
        BY <4>1, <4>3, <4>5
    <3> QED
      BY <3>4, <3>5, <3>6 DEF Kind
  <2> QED
    BY <2>2, <2>3
<1> QED
  BY <1>1 DEF OneReferenceMends

-----------------------------------------------------------------------------
(***************************************************************************)
(* The prices of the providers.                                            *)
(***************************************************************************)
PriceOps == {"CreateProviderSKU", "UpdateProviderSKU"}

MappingRow == [provider : Provider, product : Id, price : Nat, fee : Int,
               active : BOOLEAN, available : BOOLEAN]

PriceJob(r) ==
    r.op \in PriceOps => r.writes = {"mapping"} /\ r.row \in MappingRow

SamePair(a, b) == a.provider = b.provider /\ a.product = b.product

\* The look-ups alone keep the mappings apart.
LookUpsHold == ~constrained /\ "mapping" \notin crossed

PriceChecked(r) ==
    LookUpsHold =>
      /\ r.op = "CreateProviderSKU" => ~Mapped(r.row.provider, r.row.product)
      /\ r.op = "UpdateProviderSKU" /\ r.id \in Rows(mapping) => SamePair(r.row, mapping[r.id])

PriceInv ==
    /\ mapping = [i \in Id |-> mapping[i]]
    /\ \A i \in Rows(mapping) : mapping[i] \in MappingRow
    /\ \A w \in Worker : PriceJob(job[w]) /\ PriceChecked(job[w])
    /\ LookUpsHold => \A i, j \in Rows(mapping) : SamePair(mapping[i], mapping[j]) => i = j

LEMMA PricesKept ==
    ASSUME RequestInv, PriceInv, NEW ops, Serves(ops), ops \cap PriceOps = {}, UNCHANGED mapping
    PROVE  PriceInv'
<1>1. ASSUME NEW w \in Worker PROVE PriceJob(job[w])' /\ PriceChecked(job[w])'
  <2> PICK r : r = job'[w]
    OBVIOUS
  <2>1. r = job[w] \/ r.op \notin PriceOps
    BY IdleIsIdle DEF Serves, PriceOps
  <2>2. PriceJob(r) /\ PriceChecked(r)'
    BY <2>1 DEF PriceInv, PriceJob, PriceChecked, LookUpsHold, PriceOps, Serves, Later, Mapped, Rows
  <2> QED
    BY <2>2 DEF PriceJob, PriceChecked
<1> QED
  BY <1>1 DEF PriceInv, LookUpsHold, Serves, Later, Rows

LEMMA PriceStep ==
    ASSUME PriceInv, NEW w \in Worker, NEW r, RequestInv', Later, Takes(w, r),
           {job[w].op, r.op} \subseteq PriceOps \cup {"idle"}, PriceJob(r), PriceChecked(r)',
           \A v \in Worker \ {w} : PriceChecked(job[v])',
           mapping' = [i \in Id |-> mapping'[i]], \A i \in Rows(mapping') : mapping'[i] \in MappingRow,
           LookUpsHold => \A i, j \in Rows(mapping') : SamePair(mapping'[i], mapping'[j]) => i = j
    PROVE  PriceInv' /\ Serves(PriceOps)
<1>1. job'[w] = r /\ \A v \in Worker \ {w} : job'[v] = job[v]
  BY DEF Takes
<1>2. ASSUME NEW v \in Worker PROVE PriceJob(job[v])' /\ PriceChecked(job[v])'
  <2>1. CASE v = w
    BY <1>1, <2>1 DEF PriceJob, PriceChecked
  <2>2. CASE v # w
    <3>1. PriceChecked(job[v])' /\ job'[v] = job[v] /\ PriceJob(job[v])
      BY <1>1, <2>2 DEF PriceInv
    <3> QED
      BY <3>1 DEF PriceJob
  <2> QED
    BY <2>1, <2>2
<1>3. LookUpsHold' => LookUpsHold
  BY DEF LookUpsHold, Later
<1>4. (\A i \in Rows(mapping) : mapping[i] \in MappingRow)'
  BY DEF Rows
<1>5. (LookUpsHold => \A i, j \in Rows(mapping) : SamePair(mapping[i], mapping[j]) => i = j)'
  BY <1>3 DEF Rows, SamePair
<1> QED
  BY <1>2, <1>4, <1>5, TakesServes DEF PriceInv

LEMMA OpenPrice ==
    ASSUME RequestInv, PriceInv, NEW w \in Worker, NEW r, Begin(w, r), UNCHANGED <<blind, mapping>>,
           r.op \in PriceOps, PriceJob(r), PriceChecked(r)
    PROVE  PriceInv' /\ Serves(PriceOps)
<1>1. RequestInv' /\ Later /\ Takes(w, r) /\ job[w].op = "idle"
  BY BeginTakes, IdleIsIdle
<1>2. \A k : PriceChecked(k) => PriceChecked(k)'
  BY <1>1 DEF PriceChecked, LookUpsHold, Later, Mapped, Rows
<1>3. ASSUME NEW v \in Worker \ {w} PROVE PriceChecked(job[v])'
  <2> PICK k : k = job[v]
    OBVIOUS
  <2>1. PriceChecked(k)' /\ job'[v] = k
    BY <1>1, <1>2 DEF PriceInv, Takes
  <2> QED
    BY <2>1 DEF PriceChecked
<1> QED
  BY <1>1, <1>2, <1>3, PriceStep DEF PriceInv, Rows

LEMMA OpenPriceSteps ==
    ASSUME CatalogAssumption, PriceAssumption, RequestInv, PriceInv,
           NEW w \in Worker, PricesRequest(w)
    PROVE  PriceInv' /\ Serves(PriceOps) /\ UNCHANGED catalog
<1>0. \A t \in Terms : t.price \in Nat /\ t.fee \in Int
  BY DEF PriceAssumption
<1>1. ASSUME NEW q \in Provider, NEW p \in Id, NEW t \in Terms, NEW a \in BOOLEAN,
             CreateProviderSKU(w, q, p, t, a)
      PROVE  PriceInv' /\ Serves(PriceOps) /\ UNCHANGED catalog
  <2> PICK m : m = [provider |-> q, product |-> p, price |-> t.price, fee |-> t.fee,
                  active |-> a, available |-> TRUE]
    OBVIOUS
  <2> PICK r : r = [op |-> "CreateProviderSKU", reads |-> {}, writes |-> {"mapping"}, row |-> m]
    OBVIOUS
  <2>1. r.op = "CreateProviderSKU" /\ r.writes = {"mapping"} /\ r.row = m
    OBVIOUS
  <2>2. m \in MappingRow /\ m.provider = q /\ m.product = p
    BY <1>0 DEF MappingRow
  <2>3. Begin(w, r) /\ UNCHANGED <<blind, prices, catalog>> /\ ~Mapped(q, p)
    BY <1>1 DEF CreateProviderSKU
  <2> QED
    BY <2>1, <2>2, <2>3, OpenPrice DEF PriceJob, PriceChecked, PriceOps, prices
<1>2. ASSUME NEW i \in Id, NEW t \in Terms, NEW a \in BOOLEAN, NEW b \in BOOLEAN,
             UpdateProviderSKU(w, i, t, a, b)
      PROVE  PriceInv' /\ Serves(PriceOps) /\ UNCHANGED catalog
  <2> PICK old : old = mapping[i]
    OBVIOUS
  <2> PICK m : m = [old EXCEPT !.price = t.price, !.fee = t.fee, !.active = a, !.available = b]
    OBVIOUS
  <2> PICK r : r = [op |-> "UpdateProviderSKU", reads |-> {}, writes |-> {"mapping"}, id |-> i, row |-> m]
    OBVIOUS
  <2>1. r.op = "UpdateProviderSKU" /\ r.writes = {"mapping"} /\ r.row = m /\ r.id = i
    OBVIOUS
  <2>2. Begin(w, r) /\ UNCHANGED <<blind, prices, catalog>> /\ i \in Rows(mapping)
    BY <1>2 DEF UpdateProviderSKU
  <2>3. m \in MappingRow /\ SamePair(m, old)
    <3>1. old \in MappingRow
      BY <2>2 DEF PriceInv
    <3> QED
      BY <1>0, <3>1 DEF MappingRow, SamePair
  <2> QED
    BY <2>1, <2>2, <2>3, OpenPrice DEF PriceJob, PriceChecked, PriceOps, prices
<1> QED
  BY <1>1, <1>2 DEF PricesRequest

LEMMA WritePriceStep ==
    ASSUME CatalogAssumption, RequestInv, PriceInv, NEW w \in Worker, WriteProviderSKU(w)
    PROVE  PriceInv' /\ Serves(PriceOps)
<1> PICK r : r = job[w]
  OBVIOUS
<1>1. /\ RequestInv' /\ Later /\ Takes(w, Idle) /\ UNCHANGED <<crossed, constrained>>
      /\ r.op \in PriceOps
  BY DoneTakes DEF WriteProviderSKU, Done, PriceOps
<1>2. PriceJob(r) /\ PriceChecked(r) /\ r.writes = {"mapping"} /\ r.row \in MappingRow
  BY <1>1 DEF PriceInv, PriceJob
<1>3. /\ mapping = [i \in Id |-> mapping[i]]
      /\ \A i \in Rows(mapping) : mapping[i] \in MappingRow
      /\ LookUpsHold => \A i, j \in Rows(mapping) : SamePair(mapping[i], mapping[j]) => i = j
  BY DEF PriceInv
<1>4. ASSUME NEW v \in Worker \ {w} PROVE PriceChecked(job[v])'
  <2> PICK k : k = job[v]
    OBVIOUS
  <2>1. PriceJob(k) /\ job'[v] = k
    BY <1>1 DEF PriceInv, Takes
  <2>2. k.op \in PriceOps => "mapping" \in crossed
    BY <1>2, <2>1, Alone DEF PriceJob
  <2>3. PriceChecked(k)'
    BY <1>1, <2>2 DEF PriceChecked, LookUpsHold, PriceOps
  <2> QED
    BY <2>1, <2>3 DEF PriceChecked
<1>5. PriceJob(Idle) /\ PriceChecked(Idle)' /\ {job[w].op, Idle.op} \subseteq PriceOps \cup {"idle"}
  BY <1>1, IdleIsIdle DEF PriceJob, PriceChecked, PriceOps, Idle
<1>6. CASE r.op = "CreateProviderSKU" /\ \E i \in Id : mapping' = [mapping EXCEPT ![i] = r.row]
  <2> PICK i \in Id : mapping' = [mapping EXCEPT ![i] = r.row]
    BY <1>6
  <2>1. mapping'[i] = r.row /\ \A j \in Id \ {i} : mapping'[j] = mapping[j]
    BY <1>3
  <2>2. mapping' = [j \in Id |-> mapping'[j]]
    BY <1>3
  <2>3. \A j \in Rows(mapping') : mapping'[j] \in MappingRow
    BY <1>2, <1>3, <2>1 DEF Rows
  <2>4. LookUpsHold => ~Mapped(r.row.provider, r.row.product)
    BY <1>2, <1>6 DEF PriceChecked
  <2>5. LookUpsHold => \A j, k \in Rows(mapping') : SamePair(mapping'[j], mapping'[k]) => j = k
    BY <1>3, <2>1, <2>4 DEF Rows, SamePair, Mapped
  <2> QED
    BY <1>1, <1>4, <1>5, <2>2, <2>3, <2>5, PriceStep
<1>7. CASE /\ r.op = "UpdateProviderSKU"
           /\ mapping' = [i \in Id |-> IF i = r.id /\ i \in Rows(mapping) THEN r.row ELSE mapping[i]]
  <2>1. \A i \in Id : mapping'[i] = IF i = r.id /\ i \in Rows(mapping) THEN r.row ELSE mapping[i]
    BY <1>7
  <2>2. mapping' = [j \in Id |-> mapping'[j]]
    BY <1>7
  <2>3. \A j \in Rows(mapping') : j \in Rows(mapping) /\ mapping'[j] \in MappingRow
    BY <1>2, <1>3, <2>1 DEF Rows
  <2>4. LookUpsHold => \A j \in Rows(mapping') : SamePair(mapping'[j], mapping[j])
    <3>1. LookUpsHold /\ r.id \in Rows(mapping) => SamePair(r.row, mapping[r.id])
      BY <1>2, <1>7 DEF PriceChecked
    <3>2. ASSUME LookUpsHold, NEW j \in Rows(mapping') PROVE SamePair(mapping'[j], mapping[j])
      <4>1. j \in Rows(mapping) /\ j \in Id
        BY <2>3 DEF Rows
      <4>2. CASE j = r.id
        BY <2>1, <3>1, <3>2, <4>1, <4>2
      <4>3. CASE j # r.id
        BY <2>1, <4>1, <4>3 DEF SamePair
      <4> QED
        BY <4>2, <4>3
    <3> QED
      BY <3>2
  <2>5. LookUpsHold => \A j, k \in Rows(mapping') : SamePair(mapping'[j], mapping'[k]) => j = k
    <3>1. ASSUME LookUpsHold, NEW j \in Rows(mapping'), NEW k \in Rows(mapping'),
                 SamePair(mapping'[j], mapping'[k])
          PROVE  j = k
      <4>1. SamePair(mapping'[j], mapping[j]) /\ SamePair(mapping'[k], mapping[k])
        BY <2>4, <3>1
      <4>2. SamePair(mapping[j], mapping[k])
        BY <3>1, <4>1 DEF SamePair
      <4> QED
        BY <1>3, <2>3, <3>1, <4>2
    <3> QED
      BY <3>1
  <2> QED
    BY <1>1, <1>4, <1>5, <2>2, <2>3, <2>5, PriceStep
<1> QED
  BY <1>6, <1>7 DEF WriteProviderSKU

LEMMA PricesFailStep ==
    ASSUME RequestInv, PriceInv, NEW w \in Worker, PricesFail(w)
    PROVE  PriceInv' /\ Serves(PriceOps)
<1>1. RequestInv' /\ Later /\ Takes(w, Idle) /\ UNCHANGED <<crossed, constrained, mapping>>
  BY DoneTakes DEF PricesFail, Done, prices
<1>2. ASSUME NEW v \in Worker \ {w} PROVE PriceChecked(job[v])'
  <2> PICK k : k = job[v]
    OBVIOUS
  <2>1. PriceChecked(k) /\ job'[v] = k
    BY <1>1 DEF PriceInv, Takes
  <2> QED
    BY <1>1, <2>1 DEF PriceChecked, LookUpsHold, Mapped, Rows
<1>3. PriceJob(Idle) /\ PriceChecked(Idle)' /\ {job[w].op, Idle.op} \subseteq PriceOps \cup {"idle"}
  BY IdleIsIdle DEF PriceJob, PriceChecked, PriceOps, Idle, PricesFail
<1> QED
  BY <1>1, <1>2, <1>3, PriceStep DEF PriceInv

\* One statement of SQL that changes mappings but not what they map.
LEMMA AtOncePrice ==
    ASSUME RequestInv, PriceInv, NEW r, AtOnce(r), mapping' = [i \in Id |-> mapping'[i]],
           \A i \in Rows(mapping') : /\ i \in Rows(mapping) /\ mapping'[i] \in MappingRow
                                     /\ SamePair(mapping'[i], mapping[i])
    PROVE  PriceInv' /\ Serves(PriceOps)
<1>1. RequestInv' /\ Later /\ job' = job
  BY AtOnceTakes
<1>2. LookUpsHold' => LookUpsHold
  BY <1>1 DEF LookUpsHold, Later
<1>3. ASSUME NEW v \in Worker PROVE PriceJob(job[v])' /\ PriceChecked(job[v])'
  <2> PICK k : k = job[v]
    OBVIOUS
  <2>1. PriceJob(k) /\ PriceChecked(k) /\ job'[v] = k
    BY <1>1 DEF PriceInv
  <2>2. PriceChecked(k)'
    BY <1>2, <2>1 DEF PriceChecked, Mapped, SamePair, Rows
  <2> QED
    BY <2>1, <2>2 DEF PriceChecked, PriceJob
<1>4. (\A i \in Rows(mapping) : mapping[i] \in MappingRow)'
  BY DEF Rows
<1>5. LookUpsHold' => \A i, j \in Rows(mapping') : SamePair(mapping'[i], mapping'[j]) => i = j
  BY <1>2 DEF PriceInv, SamePair
<1>6. (LookUpsHold => \A i, j \in Rows(mapping) : SamePair(mapping[i], mapping[j]) => i = j)'
  BY <1>5 DEF Rows, SamePair
<1> QED
  BY <1>1, <1>3, <1>4, <1>6 DEF PriceInv, Serves

LEMMA PricesNextStep ==
    ASSUME CatalogAssumption, PriceAssumption, RequestInv, PriceInv, CatalogInv, PricesNext
    PROVE  PriceInv' /\ Serves(PriceOps) /\ CatalogInv'
<1>1. PriceInv' /\ Serves(PriceOps)
  <2>1. ASSUME NEW w \in Worker, PricesRequest(w) \/ WriteProviderSKU(w) \/ PricesFail(w)
        PROVE  PriceInv' /\ Serves(PriceOps)
    BY <2>1, OpenPriceSteps, WritePriceStep, PricesFailStep
  <2>2. ASSUME NEW p \in Provider, NEW a \in BOOLEAN, UpdateProviderStatus(p, a)
        PROVE  PriceInv' /\ Serves(PriceOps)
    BY <2>2, AtOncePrice DEF UpdateProviderStatus, PriceInv, SamePair
  <2>3. ASSUME NEW i \in Id, DeleteProviderSKU(i)
        PROVE  PriceInv' /\ Serves(PriceOps)
    <3>1. mapping' = [mapping EXCEPT ![i] = None] /\ mapping = [j \in Id |-> mapping[j]]
      BY <2>3 DEF DeleteProviderSKU, PriceInv
    <3>2. mapping'[i] = None /\ \A j \in Id \ {i} : mapping'[j] = mapping[j]
      BY <3>1
    <3>3. mapping' = [j \in Id |-> mapping'[j]]
      BY <3>1
    <3>4. \A j \in Rows(mapping') : /\ j \in Rows(mapping) /\ mapping'[j] \in MappingRow
                                    /\ SamePair(mapping'[j], mapping[j])
      BY <3>2 DEF Rows, PriceInv, SamePair
    <3> QED
      BY <2>3, <3>3, <3>4, AtOncePrice DEF DeleteProviderSKU
  <2>4. ASSUME NEW i \in Id, NEW t \in Terms, NEW a \in BOOLEAN, SyncPrice(i, t, a)
        PROVE  PriceInv' /\ Serves(PriceOps)
    <3> PICK old : old = mapping[i]
      OBVIOUS
    <3> PICK m : m = [old EXCEPT !.price = t.price, !.fee = t.fee, !.available = a]
      OBVIOUS
    <3>1. i \in Rows(mapping) /\ old \in MappingRow /\ mapping = [j \in Id |-> mapping[j]]
      BY <2>4 DEF SyncPrice, PriceInv
    <3>2. m \in MappingRow /\ SamePair(m, old)
      BY <3>1 DEF MappingRow, SamePair, PriceAssumption
    <3>3. mapping' = [mapping EXCEPT ![i] = m]
      BY <2>4, <3>1 DEF SyncPrice
    <3>4. mapping'[i] = m /\ \A j \in Id \ {i} : mapping'[j] = mapping[j]
      BY <3>1, <3>3
    <3>5. mapping' = [j \in Id |-> mapping'[j]]
      BY <3>1, <3>3
    <3>6. \A j \in Rows(mapping') : /\ j \in Rows(mapping) /\ mapping'[j] \in MappingRow
                                    /\ SamePair(mapping'[j], mapping[j])
      BY <3>1, <3>2, <3>4 DEF Rows, PriceInv, SamePair
    <3> QED
      BY <2>4, <3>5, <3>6, AtOncePrice DEF SyncPrice
  <2> QED
    BY <2>1, <2>2, <2>3, <2>4 DEF PricesNext
<1>2. /\ UNCHANGED <<master, products, skus, renamed>>
      /\ UNCHANGED issued \/ \E i \in Id : NextId("mapping", i)
  BY DEF PricesNext, PricesRequest, CreateProviderSKU, UpdateProviderSKU, WriteProviderSKU,
         PricesFail, UpdateProviderStatus, DeleteProviderSKU, SyncPrice, catalog
<1>3. /\ issued' = [t \in Kind \cup {"products", "skus", "mapping"} |-> issued'[t]]
      /\ \A t \in Kind : issued'[t] = issued[t]
  BY <1>2 DEF CatalogInv, CatalogTypes, NextId, Kind
<1>4. CatalogTypes'
  BY <1>2, <1>3 DEF CatalogInv, CatalogTypes, Rows
<1>5. PriceOps \cap CatalogOps = {}
  BY DEF PriceOps, CatalogOps, MasterOps, ProductOps, SKUOps
<1> QED
  BY <1>1, <1>2, <1>4, <1>5, CatalogKept

LEMMA PriceInit ==
    ASSUME InitRequests, InitPrices
    PROVE  PriceInv
<1>1. \A w \in Worker : PriceJob(job[w]) /\ PriceChecked(job[w])
  BY RequestInit, IdleIsIdle DEF PriceJob, PriceChecked, PriceOps
<1>2. mapping = [i \in Id |-> None]
  BY DEF InitPrices
<1> QED
  BY <1>1, <1>2 DEF PriceInv, Rows

\* A set of prices has a least one.
LEMMA LeastPrice ==
    ASSUME NEW S \in SUBSET Nat, S # {}
    PROVE  \E p \in S : \A q \in S : p <= q
<1>1. PICK p \in S : \A q \in S : <<q, p>> \notin OpToRel(<, Nat)
  BY NatLessThanWellFounded, WFMin
<1>2. \A q \in S : ~(q < p)
  BY <1>1 DEF OpToRel
<1> QED
  BY <1>2

LEMMA PriceTrue ==
    ASSUME PriceAssumption, PriceInv
    PROVE  PriceShownIsPaid
<1>1. \/ constrained \/ "mapping" \in crossed
      \/ \A i, j \in Rows(mapping) :
           i # j => <<mapping[i].provider, mapping[i].product>>
                      # <<mapping[j].provider, mapping[j].product>>
  BY DEF PriceInv, LookUpsHold, SamePair
<1>2. ASSUME NEW product \in Id, NEW type \in {"prepaid", "postpaid"}, NEW i \in First(type, product)
      PROVE  LET m == mapping[i]
                 shown == BestPrice(product)
             IN /\ m.provider \in Reserve => shown = None
                /\ m.provider \notin Reserve /\ type = "prepaid" => shown = m.price
                /\ m.provider \notin Reserve /\ m.price > 0 => shown # None /\ shown <= m.price
  <2> DEFINE Seen == {j \in Id : /\ Offered(j, product)
                                 /\ mapping[j].provider \notin Reserve
                                 /\ mapping[j].price > 0}
             seen == {mapping[j].price : j \in Seen}
             best == CHOOSE p \in seen : \A q \in seen : p <= q
  <2>1. BestPrice(product) = IF seen = {} THEN None ELSE best
    BY DEF BestPrice
  <2>2. /\ i \in Routed(type, product) /\ \A j \in Routed(type, product) : ~Before(type, j, i)
        /\ \A j \in Seen : j \in Routed(type, product)
    BY DEF First, Routed
  <2>3. \A j \in Routed(type, product) : mapping[j].price \in Nat
    BY DEF Routed, Offered, PriceInv, MappingRow
  <2>4. CASE mapping[i].provider \in Reserve
    <3>1. \A j \in Seen : Before(type, j, i)
      BY <2>4 DEF Before
    <3>2. seen = {}
      BY <2>2, <3>1
    <3> QED
      BY <2>1, <2>4, <3>2
  <2>5. CASE mapping[i].provider \notin Reserve /\ mapping[i].price > 0
    <3>1. i \in Seen
      BY <2>2, <2>5 DEF Routed
    <3>2. mapping[i].price \in seen /\ seen \in SUBSET Nat
      BY <2>2, <2>3, <3>1
    <3>3. type = "prepaid" => \A j \in Seen : ~(mapping[j].price < mapping[i].price)
      BY <2>2, <2>5 DEF Before
    <3>4. type = "prepaid" => \A q \in seen : mapping[i].price <= q
      BY <2>2, <2>3, <3>1, <3>3
    <3> PICK price : price = mapping[i].price
      OBVIOUS
    <3> HIDE DEF seen, Seen
    <3>5. best \in seen /\ \A q \in seen : best <= q
      BY <3>2, LeastPrice
    <3>6. best \in Nat /\ price \in Nat /\ best <= price /\ (type = "prepaid" => price <= best)
      BY <3>2, <3>4, <3>5
    <3>7. BestPrice(product) = best /\ best # None
      BY <2>1, <3>2, <3>6 DEF PriceAssumption
    <3>8. type = "prepaid" => best = price
      BY <3>6
    <3> QED
      BY <2>5, <3>6, <3>7, <3>8
  <2>6. CASE mapping[i].provider \notin Reserve /\ ~(mapping[i].price > 0)
    BY <2>2, <2>6 DEF Routed
  <2> QED
    BY <2>4, <2>5, <2>6
<1> QED
  BY <1>1, <1>2 DEF PriceShownIsPaid

-----------------------------------------------------------------------------
(***************************************************************************)
(* The records.                                                            *)
(***************************************************************************)
RecordOps == {"Edit", "Create", "UpdateProviders"}

Bindings == "payment_method_providers"

FullRow == [Columns(table) -> Nat \cup Key \cup {None}]

\* Rows are made one after the other and never deleted; the bindings of a
\* method are all there.
RecordTypes ==
    /\ table \in Table
    /\ rows = [i \in Row |-> rows[i]] /\ last = [i \in Row |-> last[i]]
    /\ \A i \in Present : rows[i] \in FullRow /\ last[i] \in FullRow
    /\ rekeyed \in BOOLEAN
    /\ IF table = Bindings THEN Present = Row
       ELSE Cardinality(Present) \in Nat /\ Present = 1..Cardinality(Present)

RecordJob(r) ==
    /\ r.op = "Edit" => r.writes = {ToString(r.id)} /\ r.id \in Present /\ r.row \in FullRow
    /\ r.op = "Create" =>
         r.writes = {"key"} /\ r.key \in Key /\ r.edit \in Nat /\ table # Bindings
    /\ r.op = "UpdateProviders" =>
         /\ table = Bindings
         /\ r \in [op : {"UpdateProviders"}, reads : {{}}, writes : {r.writes},
                   todo : Seq(Row \cup {0}), wrote : SUBSET Row, edit : Nat]
         /\ \A n \in 1..Len(r.todo) : ToString(r.todo[n]) \in r.writes
         /\ \A i \in r.wrote : ToString(i) \in r.writes

\* The look-up of CreateClient alone keeps the ids of clients apart.
IdsKept ==
    /\ table = "clients" /\ ~constrained /\ ~rekeyed
    /\ "key" \notin crossed /\ blind = {}

IdTaken(key) == \E i \in Present : rows[i]["client_id"] = key

\* What a request has read is still so, where nobody else writes.
RecordRead(r) ==
    /\ r.op = "Edit" =>
         /\ ToString(r.id) \notin crossed =>
               \A c \in Columns(table) \ r.given : r.row[c] = rows[r.id][c]
         /\ IdsKept /\ "client_id" \notin r.given =>
               r.row["client_id"] = rows[r.id]["client_id"]
    /\ r.op = "Create" /\ IdsKept => ~IdTaken(r.key)
    /\ r.op = "UpdateProviders" =>
         \A i \in r.wrote : ToString(i) \in crossed \/ rows[i] = Values(table, r.edit, None)

\* A row holds what was answered, or is being written.
Stands(i) ==
    \/ ToString(i) \in crossed \/ i \in halfway \/ rows[i] = last[i]
    \/ \E w \in Worker : job[w].op = "UpdateProviders" /\ i \in job[w].wrote

IdsApart ==
    IdsKept => \A i, j \in Present : rows[i]["client_id"] = rows[j]["client_id"] => i = j

RecordInv ==
    /\ RecordTypes
    /\ \A w \in Worker : RecordJob(job[w]) /\ RecordRead(job[w])
    /\ \A i \in Present : Stands(i)
    /\ IdsApart

LEMMA ClientTable ==
    /\ "client_id" \in Columns("clients") /\ KeyColumn("clients") = "client_id"
    /\ KeyColumn(Bindings) = None /\ Bindings # "clients"
  BY DEF Columns, ClientColumns, KeyColumn, Bindings

LEMMA ValuesFill ==
    ASSUME NEW n \in Nat, NEW key \in Key \cup {None}
    PROVE  Values(table, n, key) \in FullRow
  BY DEF Values, FullRow

LEMMA NoneIsNoRow ==
    ASSUME table \in Table
    PROVE  None \notin FullRow
  BY RowAssumption DEF FullRow

\* The invariant of a row, with the row named.
LEMMA RecordsKept ==
    ASSUME RequestInv, RecordInv, NEW ops, Serves(ops), ops \cap RecordOps = {}, UNCHANGED records
    PROVE  RecordInv'
<1>1. UNCHANGED <<table, rows, last, halfway, rekeyed>> /\ Later
  BY DEF records, Serves
<1>2. IdsKept' => IdsKept
  BY <1>1 DEF IdsKept, Later
<1>3. Present' = Present
  BY <1>1 DEF Present
<1>4. ASSUME NEW w \in Worker PROVE RecordJob(job[w])' /\ RecordRead(job[w])'
  <2> PICK r : r = job'[w]
    OBVIOUS
  <2>1. r = job[w] \/ r.op \notin RecordOps
    BY IdleIsIdle DEF Serves, RecordOps
  <2>2. CASE r = job[w]
    <3>1. RecordJob(r) /\ RecordRead(r)
      BY <2>2 DEF RecordInv
    <3>2. RecordJob(r)'
      BY <1>1, <1>3, <3>1 DEF RecordJob, FullRow
    <3>3. RecordRead(r)'
      BY <1>1, <1>2, <1>3, <3>1 DEF RecordRead, Later, IdTaken
    <3> QED
      BY <3>2, <3>3 DEF RecordJob, RecordRead
  <2>3. CASE r.op \notin RecordOps
    <3>1. RecordJob(r)' /\ RecordRead(r)'
      BY <2>3 DEF RecordJob, RecordRead, RecordOps
    <3> QED
      BY <3>1 DEF RecordJob, RecordRead
  <2> QED
    BY <2>1, <2>2, <2>3
<1>5. RecordTypes'
  BY <1>1, <1>3 DEF RecordInv, RecordTypes, FullRow
<1>6. ASSUME NEW i \in Present PROVE Stands(i)'
  <2>1. Stands(i)
    BY DEF RecordInv
  <2>2. ASSUME NEW w \in Worker, job[w].op = "UpdateProviders" PROVE job'[w] = job[w]
    <3>1. "UpdateProviders" \notin ops \cup {"idle"}
      BY DEF RecordOps
    <3> QED
      BY <2>2, <3>1 DEF Serves
  <2> QED
    BY <1>1, <2>1, <2>2 DEF Stands, Later
<1>7. IdsApart'
  BY <1>1, <1>2, <1>3 DEF RecordInv, IdsApart
<1> QED
  BY <1>3, <1>4, <1>5, <1>6, <1>7 DEF RecordInv

\* A step of one request: what is to be shown of the rows and the others.
LEMMA RecordStep ==
    ASSUME RecordInv, NEW w \in Worker, NEW r, RequestInv', Later, Takes(w, r),
           {job[w].op, r.op} \subseteq RecordOps \cup {"idle"}, RecordJob(r)', RecordRead(r)',
           \A v \in Worker \ {w} : RecordJob(job[v])' /\ RecordRead(job[v])',
           RecordTypes', (\A i \in Present : Stands(i))', IdsApart'
    PROVE  RecordInv' /\ Serves(RecordOps)
<1>1. job'[w] = r
  BY DEF Takes
<1>2. ASSUME NEW v \in Worker PROVE RecordJob(job[v])' /\ RecordRead(job[v])'
  <2>1. CASE v = w
    BY <1>1, <2>1 DEF RecordJob, RecordRead
  <2>2. CASE v # w
    BY <2>2
  <2> QED
    BY <2>1, <2>2
<1> QED
  BY <1>2, TakesServes DEF RecordInv

\* A step that writes no row; only a request to UpdateProviders has written
\* rows that it must not leave.
LEMMA NoRowWritten ==
    ASSUME RecordInv, NEW w \in Worker, NEW r, RequestInv', Later, Takes(w, r),
           {job[w].op, r.op} \subseteq RecordOps \cup {"idle"}, RecordJob(r), RecordRead(r)',
           UNCHANGED <<table, rows, last, rekeyed>>, halfway \subseteq halfway',
           job[w].op = "UpdateProviders" => job[w].wrote \subseteq halfway'
    PROVE  RecordInv' /\ Serves(RecordOps)
<1>1. Present' = Present
  BY DEF Present
<1>2. IdsKept' => IdsKept
  BY DEF IdsKept, Later
<1>3. RecordTypes'
  BY <1>1 DEF RecordInv, RecordTypes, FullRow
<1>4. ASSUME NEW v \in Worker \ {w} PROVE RecordJob(job[v])' /\ RecordRead(job[v])'
  <2> PICK k : k = job[v]
    OBVIOUS
  <2>1. RecordJob(k) /\ RecordRead(k) /\ job'[v] = k
    BY DEF RecordInv, Takes
  <2>2. RecordJob(k)'
    BY <1>1, <2>1 DEF RecordJob, FullRow
  <2>3. RecordRead(k)'
    BY <1>1, <1>2, <2>1 DEF RecordRead, Later, IdTaken
  <2> QED
    BY <2>1, <2>2, <2>3 DEF RecordJob, RecordRead
<1>5. ASSUME NEW i \in Present' PROVE Stands(i)'
  <2>1. Stands(i)
    BY <1>1 DEF RecordInv
  <2>2. ASSUME NEW v \in Worker, job[v].op = "UpdateProviders", i \in job[v].wrote
        PROVE  i \in halfway' \/ (job'[v].op = "UpdateProviders" /\ i \in job'[v].wrote)
    BY <2>2 DEF Takes
  <2> QED
    BY <2>1, <2>2 DEF Stands, Later
<1>6. IdsApart'
  BY <1>1, <1>2 DEF RecordInv, IdsApart
<1>7. RecordJob(r)'
  BY <1>1 DEF RecordJob, FullRow
<1> QED
  BY <1>3, <1>4, <1>5, <1>6, <1>7, RecordStep

LEMMA OpenRecord ==
    ASSUME RequestInv, RecordInv, NEW w \in Worker, NEW r, Begin(w, r), blind \subseteq blind',
           r.op \in RecordOps, RecordJob(r), RecordRead(r)', UNCHANGED records
    PROVE  RecordInv' /\ Serves(RecordOps)
<1>1. RequestInv' /\ Later /\ Takes(w, r) /\ job[w].op = "idle"
  BY BeginTakes, IdleIsIdle
<1>2. UNCHANGED <<table, rows, last, halfway, rekeyed>>
  BY DEF records
<1> QED
  BY <1>1, <1>2, NoRowWritten

LEMMA PatchedFills ==
    ASSUME NEW row \in FullRow, NEW given, NEW key \in Key, served \in Nat
    PROVE  /\ Patched(row, given, key) \in FullRow
           /\ \A c \in Columns(table) \ given : Patched(row, given, key)[c] = row[c]
<1>1. served + 1 \in Nat
  OBVIOUS
<1>2. Values(table, served + 1, key) \in FullRow
  BY <1>1, ValuesFill
<1>3. Patched(row, given, key) =
        [c \in Columns(table) |-> IF c \in given THEN Values(table, served + 1, key)[c] ELSE row[c]]
  BY DEF Patched, FullRow
<1> PICK val : val = Values(table, served + 1, key)
  OBVIOUS
<1> QED
  BY <1>2, <1>3 DEF FullRow

LEMMA EditStep ==
    ASSUME RequestInv, RecordInv, NEW w \in Worker, NEW i \in Present, NEW given, NEW key \in Key,
           Edit(w, i, given, key)
    PROVE  RecordInv' /\ Serves(RecordOps)
<1> PICK row : row = rows[i]
  OBVIOUS
<1> PICK new : new = Patched(row, given, key)
  OBVIOUS
<1> PICK r : r = [op |-> "Edit", reads |-> {}, writes |-> {ToString(i)}, id |-> i, given |-> given,
                  row |-> new]
  OBVIOUS
<1>1. r.op = "Edit" /\ r.writes = {ToString(i)} /\ r.id = i /\ r.given = given /\ r.row = new
  OBVIOUS
<1>2. Begin(w, r) /\ UNCHANGED <<blind, records>>
  BY DEF Edit
<1>3. row \in FullRow
  BY DEF RecordInv, RecordTypes
<1>4. new \in FullRow /\ \A c \in Columns(table) \ given : new[c] = row[c]
  BY <1>3, PatchedFills DEF RequestInv
<1>5. table = "clients" => "client_id" \in Columns(table)
  BY ClientTable
<1>6. RecordJob(r)
  BY <1>1, <1>4 DEF RecordJob
<1>7. RecordRead(r)'
  BY <1>1, <1>2, <1>4, <1>5 DEF RecordRead, IdsKept, records
<1> QED
  BY <1>1, <1>2, <1>6, <1>7, OpenRecord DEF RecordOps

LEMMA CreateStep ==
    ASSUME RecordAssumption, RequestInv, RecordInv, NEW w \in Worker, NEW key \in Key, Create(w, key)
    PROVE  RecordInv' /\ Serves(RecordOps)
<1> PICK r : r = [op |-> "Create", reads |-> {}, writes |-> {"key"}, key |-> key, edit |-> served + 1]
  OBVIOUS
<1>1. r.op = "Create" /\ r.writes = {"key"} /\ r.key = key /\ r.edit = served + 1
  OBVIOUS
<1>2. Begin(w, r) /\ UNCHANGED records /\ KeyColumn(table) # None
  BY DEF Create
<1>3. blind \subseteq blind' /\ (table = "clients" /\ KeyTaken(key, None) => blind' # {})
  <2>1. CASE table = "clients"
    <3>1. KeyTaken(key, None) \in BOOLEAN
      BY DEF KeyTaken
    <3> QED
      BY <2>1, <3>1, Checked DEF Create
  <2>2. CASE table # "clients"
    BY <2>2 DEF Create
  <2> QED
    BY <2>1, <2>2
<1>4. table = "clients" /\ IdTaken(key) => KeyTaken(key, None)
  BY ClientTable DEF IdTaken, KeyTaken, Present, RecordAssumption
<1>5. RecordJob(r)
  BY <1>1, <1>2, ClientTable DEF RecordJob, RequestInv
<1>6. RecordRead(r)'
  BY <1>1, <1>2, <1>3, <1>4 DEF RecordRead, IdsKept, IdTaken, Present, records
<1> QED
  BY <1>1, <1>2, <1>3, <1>5, <1>6, OpenRecord DEF RecordOps

LEMMA UpdateProvidersStep ==
    ASSUME RequestInv, RecordInv, NEW w \in Worker, NEW n \in 1..2, NEW bindings \in [1..n -> Row \cup {0}],
           UpdateProviders(w, bindings)
    PROVE  RecordInv' /\ Serves(RecordOps)
<1> PICK places : places = {ToString(i) : i \in ToSet(bindings)}
  OBVIOUS
<1> PICK r : r = [op |-> "UpdateProviders", reads |-> {}, writes |-> places, todo |-> bindings,
                  wrote |-> {}, edit |-> served + 1]
  OBVIOUS
<1>1. /\ r.op = "UpdateProviders" /\ r.writes = places /\ r.todo = bindings /\ r.wrote = {}
  OBVIOUS
<1>2. Begin(w, r) /\ UNCHANGED <<blind, records>> /\ table = Bindings
  BY DEF UpdateProviders, Bindings
<1>3. bindings \in Seq(Row \cup {0})
  OBVIOUS
<1>4. r \in [op : {"UpdateProviders"}, reads : {{}}, writes : {r.writes},
             todo : Seq(Row \cup {0}), wrote : SUBSET Row, edit : Nat]
  BY <1>1, <1>3 DEF RequestInv
<1>5. \A m \in 1..Len(bindings) : ToString(bindings[m]) \in places
  BY <1>3 DEF ToSet
<1>6. RecordJob(r)
  BY <1>1, <1>2, <1>4, <1>5 DEF RecordJob
<1>7. RecordRead(r)'
  BY <1>1 DEF RecordRead
<1> QED
  BY <1>1, <1>2, <1>6, <1>7, OpenRecord DEF RecordOps

LEMMA RecordsFailStep ==
    ASSUME RequestInv, RecordInv, NEW w \in Worker, RecordsFail(w)
    PROVE  RecordInv' /\ Serves(RecordOps)
<1> PICK r : r = job[w]
  OBVIOUS
<1>1. /\ RequestInv' /\ Later /\ Takes(w, Idle) /\ UNCHANGED <<table, rows, last, rekeyed>>
      /\ r.op \in RecordOps
      /\ halfway' = halfway \cup (IF r.op = "UpdateProviders" THEN r.wrote ELSE {})
  BY DoneTakes DEF RecordsFail, RecordOps
<1>2. halfway \subseteq halfway' /\ (r.op = "UpdateProviders" => r.wrote \subseteq halfway')
  BY <1>1
<1>3. RecordJob(Idle) /\ RecordRead(Idle)'
  BY IdleIsIdle DEF RecordJob, RecordRead, Idle
<1> QED
  BY <1>1, <1>2, <1>3, IdleIsIdle, NoRowWritten

\* The next row of a table comes after those that are there.
LEMMA NextRow ==
    ASSUME NEW S, Cardinality(S) \in Nat, S = 1..Cardinality(S), NEW i, i = Cardinality(S) + 1
    PROVE  /\ i \notin S /\ Cardinality(S \cup {i}) \in Nat
           /\ S \cup {i} = 1..Cardinality(S \cup {i})
<1> PICK n \in Nat : n = Cardinality(S)
  OBVIOUS
<1>1. S \cup {i} = 1..n + 1 /\ i \notin S
  OBVIOUS
<1>2. Cardinality(1..n + 1) = n + 1
  BY FS_Interval
<1>3. Cardinality(S \cup {i}) = n + 1
  BY <1>1, <1>2
<1>4. S \cup {i} = 1..Cardinality(S \cup {i})
  BY <1>1, <1>3
<1>5. i \notin S /\ Cardinality(S \cup {i}) \in Nat
  BY <1>1, <1>3
<1> QED
  BY <1>4, <1>5

LEMMA InsertStep ==
    ASSUME RecordAssumption, RequestInv, RecordInv, NEW w \in Worker, Insert(w)
    PROVE  RecordInv' /\ Serves(RecordOps)
<1> PICK r : r = job[w]
  OBVIOUS
<1>1. /\ RequestInv' /\ Later /\ Takes(w, Idle)
      /\ UNCHANGED <<crossed, blind, constrained, table, halfway, rekeyed>> /\ r.op = "Create"
  BY DoneTakes DEF Insert, Done
<1>2. /\ RecordRead(r) /\ r.writes = {"key"} /\ r.key \in Key /\ r.edit \in Nat
      /\ table # Bindings /\ table \in Table
  BY <1>1 DEF RecordInv, RecordJob, RecordTypes
<1> PICK new : new = Values(table, r.edit, r.key)
  OBVIOUS
<1> PICK i \in Row : /\ i = Cardinality(Present) + 1
                     /\ rows' = [rows EXCEPT ![i] = new]
                     /\ last' = [last EXCEPT ![i] = rows'[i]]
  BY DEF Insert
<1>3. /\ rows = [j \in Row |-> rows[j]] /\ last = [j \in Row |-> last[j]]
      /\ \A j \in Present : rows[j] \in FullRow /\ last[j] \in FullRow
      /\ Cardinality(Present) \in Nat /\ Present = 1..Cardinality(Present) /\ rekeyed \in BOOLEAN
  BY <1>2 DEF RecordInv, RecordTypes
<1>4. /\ i \notin Present /\ Cardinality(Present \cup {i}) \in Nat
      /\ Present \cup {i} = 1..Cardinality(Present \cup {i})
  BY <1>3, NextRow
<1>5. /\ rows'[i] = new /\ last'[i] = new
      /\ \A j \in Row \ {i} : rows'[j] = rows[j] /\ last'[j] = last[j]
      /\ rows' = [j \in Row |-> rows'[j]] /\ last' = [j \in Row |-> last'[j]]
  BY <1>3
<1>6. new \in FullRow /\ new # None
  BY <1>2, ValuesFill, NoneIsNoRow
<1>7. Present' = Present \cup {i}
  BY <1>5, <1>6 DEF Present
<1>8. RecordTypes'
  <2>1. \A j \in Present' : rows'[j] \in FullRow /\ last'[j] \in FullRow
    BY <1>3, <1>4, <1>5, <1>6, <1>7 DEF Present
  <2> QED
    BY <1>1, <1>2, <1>3, <1>4, <1>5, <1>7, <2>1 DEF RecordTypes, FullRow
<1>9. IdsKept' => IdsKept /\ new["client_id"] = r.key
  BY <1>1, ClientTable DEF IdsKept, Values
<1>10. IdsApart'
  BY <1>1, <1>2, <1>4, <1>5, <1>7, <1>9 DEF RecordInv, IdsApart, RecordRead, IdTaken, Present
<1>11. \A j \in Present : j \in Row /\ j # i
  BY <1>4 DEF Present
<1>12. ASSUME NEW v \in Worker \ {w} PROVE RecordJob(job[v])' /\ RecordRead(job[v])'
  <2> PICK k : k = job[v]
    OBVIOUS
  <2>1. RecordJob(k) /\ RecordRead(k) /\ job'[v] = k
    BY <1>1 DEF RecordInv, Takes
  <2>2. k.op = "Create" => "key" \in crossed
    BY <1>2, <2>1, Alone DEF RecordJob
  <2>3. RecordJob(k)'
    BY <1>1, <1>7, <2>1 DEF RecordJob, FullRow
  <2>4. k.op = "Edit" => k.id \in Present /\ rows'[k.id] = rows[k.id]
    BY <1>5, <1>11, <2>1 DEF RecordJob
  <2>5. k.op # "UpdateProviders"
    BY <1>2, <2>1 DEF RecordJob
  <2>6. RecordRead(k)'
    BY <1>1, <1>9, <2>1, <2>2, <2>4, <2>5 DEF RecordRead, IdsKept
  <2> QED
    BY <2>1, <2>3, <2>6 DEF RecordJob, RecordRead
<1>13. ASSUME NEW j \in Present' PROVE Stands(j)'
  <2>1. CASE j = i
    BY <1>5, <2>1 DEF Stands
  <2>2. CASE j # i
    <3>1. Stands(j) /\ rows'[j] = rows[j] /\ last'[j] = last[j]
      BY <1>5, <1>7, <1>11, <2>2 DEF RecordInv
    <3>2. \A v \in Worker : job[v].op = "UpdateProviders" => job'[v] = job[v]
      BY <1>1 DEF Takes
    <3> QED
      BY <1>1, <3>1, <3>2 DEF Stands
  <2> QED
    BY <2>1, <2>2
<1>14. RecordJob(Idle)' /\ RecordRead(Idle)' /\ {job[w].op, Idle.op} \subseteq RecordOps \cup {"idle"}
  BY <1>1, IdleIsIdle DEF RecordJob, RecordRead, Idle, RecordOps
<1> QED
  BY <1>1, <1>8, <1>10, <1>12, <1>13, <1>14, RecordStep

LEMMA UpdateStep ==
    ASSUME RequestInv, RecordInv, NEW w \in Worker, Update(w)
    PROVE  RecordInv' /\ Serves(RecordOps)
<1> PICK r : r = job[w]
  OBVIOUS
<1> PICK i : i = r.id
  OBVIOUS
<1> PICK old : old = rows[i]
  OBVIOUS
<1> PICK said : said = last[i]
  OBVIOUS
<1>1. /\ RequestInv' /\ Later /\ Takes(w, Idle)
      /\ UNCHANGED <<crossed, blind, constrained, table, halfway>> /\ r.op = "Edit"
      /\ rekeyed' = (rekeyed \/ KeyColumn(table) \in r.given)
  BY DoneTakes DEF Update, Done
<1>2. /\ RecordRead(r) /\ r.writes = {ToString(i)} /\ i \in Present /\ r.row \in FullRow
      /\ table \in Table /\ i \in Row /\ old \in FullRow /\ said \in FullRow
      /\ rows = [j \in Row |-> rows[j]] /\ last = [j \in Row |-> last[j]]
  BY <1>1 DEF RecordInv, RecordJob, RecordTypes, Present
<1> PICK new : new = [c \in DOMAIN said |-> IF c \in r.given THEN r.row[c] ELSE said[c]]
  OBVIOUS
<1>3. rows' = [rows EXCEPT ![i] = r.row]
  <2>1. [c \in DOMAIN old |-> IF c \in Written(table) THEN r.row[c] ELSE rows[r.id][c]] = r.row
    BY <1>2 DEF FullRow, Written
  <2> QED
    BY <1>2, <2>1 DEF Update
<1>4. last' = [last EXCEPT ![i] = new]
  BY <1>2 DEF Update
<1>5. new \in FullRow /\ \A c \in Columns(table) : new[c] = IF c \in r.given THEN r.row[c] ELSE said[c]
  BY <1>2 DEF FullRow
<1>6. /\ rows'[i] = r.row /\ last'[i] = new
      /\ \A j \in Row \ {i} : rows'[j] = rows[j] /\ last'[j] = last[j]
      /\ rows' = [j \in Row |-> rows'[j]] /\ last' = [j \in Row |-> last'[j]]
  BY <1>2, <1>3, <1>4
<1>7. Present' = Present
  BY <1>2, <1>6, NoneIsNoRow DEF Present
<1>8. RecordTypes'
  <2>1. \A j \in Present' : rows'[j] \in FullRow /\ last'[j] \in FullRow
    BY <1>2, <1>5, <1>6, <1>7 DEF Present, RecordInv, RecordTypes
  <2>2. rekeyed' \in BOOLEAN
    BY <1>1
  <2> QED
    BY <1>1, <1>6, <1>7, <2>1, <2>2 DEF RecordInv, RecordTypes, FullRow
<1>9. IdsKept' => IdsKept /\ "client_id" \notin r.given
  BY <1>1, ClientTable DEF IdsKept
<1>10. IdsKept' => \A j \in Present : rows'[j]["client_id"] = rows[j]["client_id"]
  BY <1>1, <1>2, <1>6, <1>9 DEF RecordRead, Present
<1>11. IdsApart'
  BY <1>7, <1>9, <1>10 DEF RecordInv, IdsApart
<1>12. ASSUME NEW v \in Worker \ {w} PROVE RecordJob(job[v])' /\ RecordRead(job[v])'
  <2> PICK k : k = job[v]
    OBVIOUS
  <2>1. RecordJob(k) /\ RecordRead(k) /\ job'[v] = k
    BY <1>1 DEF RecordInv, Takes
  <2>2. RecordJob(k)'
    BY <1>1, <1>7, <2>1 DEF RecordJob, FullRow
  <2>3. k.op = "Edit" /\ k.id = i => ToString(i) \in crossed
    BY <1>2, <2>1, Alone DEF RecordJob
  <2>4. k.op = "Edit" => k.id \in Present
    BY <2>1 DEF RecordJob
  <2>5. k.op = "Edit" /\ k.id # i => rows'[k.id] = rows[k.id]
    BY <1>6, <2>4 DEF Present
  <2>6. k.op = "UpdateProviders" =>
          \A j \in k.wrote : ToString(j) \in crossed \/ rows'[j] = rows[j]
    <3>1. k.op = "UpdateProviders" /\ i \in k.wrote => ToString(i) \in crossed
      BY <1>2, <2>1, Alone DEF RecordJob
    <3>2. k.op = "UpdateProviders" => k.wrote \subseteq Row
      BY <2>1 DEF RecordJob
    <3> QED
      BY <1>6, <3>1, <3>2
  <2>7. IdsKept' /\ IdTaken(k.key)' => IdTaken(k.key)
    BY <1>7, <1>10 DEF IdTaken
  <2>8. RecordRead(k)'
    <3>1. k.op = "Edit" /\ ToString(k.id) \notin crossed' =>
             \A c \in Columns(table') \ k.given : k.row[c] = rows'[k.id][c]
      BY <1>1, <2>1, <2>3, <2>5 DEF RecordRead
    <3>2. k.op = "Edit" /\ IdsKept' /\ "client_id" \notin k.given =>
             k.row["client_id"] = rows'[k.id]["client_id"]
      BY <1>9, <1>10, <2>1, <2>4 DEF RecordRead
    <3>3. k.op = "Create" /\ IdsKept' => ~IdTaken(k.key)'
      BY <1>9, <2>1, <2>7 DEF RecordRead
    <3>4. k.op = "UpdateProviders" =>
             \A j \in k.wrote : ToString(j) \in crossed' \/ rows'[j] = Values(table', k.edit, None)
      BY <1>1, <2>1, <2>6 DEF RecordRead
    <3> QED
      BY <3>1, <3>2, <3>3, <3>4 DEF RecordRead, Values
  <2> QED
    BY <2>1, <2>2, <2>8 DEF RecordJob, RecordRead
<1>13. ASSUME NEW j \in Present' PROVE Stands(j)'
  <2>1. Stands(j) /\ j \in Row
    BY <1>7 DEF RecordInv, Present
  <2>2. CASE j = i
    <3>1. CASE ToString(i) \in crossed \/ i \in halfway
      BY <1>1, <2>2, <3>1 DEF Stands
    <3>2. CASE ToString(i) \notin crossed /\ i \notin halfway
      <4>1. \A v \in Worker : ~(job[v].op = "UpdateProviders" /\ i \in job[v].wrote)
        BY <1>1, <1>2, <3>2, Alone DEF RecordInv, RecordJob
      <4>2. said = old
        BY <2>1, <2>2, <3>2, <4>1 DEF Stands
      <4>3. \A c \in Columns(table) : new[c] = r.row[c]
        BY <1>1, <1>2, <1>5, <3>2, <4>2 DEF RecordRead
      <4>4. new = r.row
        BY <1>2, <1>5, <4>3 DEF FullRow
      <4> QED
        BY <1>6, <2>2, <4>4 DEF Stands
    <3> QED
      BY <3>1, <3>2
  <2>3. CASE j # i
    <3>1. rows'[j] = rows[j] /\ last'[j] = last[j]
      BY <1>6, <2>1, <2>3
    <3>2. \A v \in Worker : job[v].op = "UpdateProviders" => job'[v] = job[v]
      BY <1>1 DEF Takes
    <3> QED
      BY <1>1, <2>1, <3>1, <3>2 DEF Stands
  <2> QED
    BY <2>2, <2>3
<1>14. RecordJob(Idle)' /\ RecordRead(Idle)' /\ {job[w].op, Idle.op} \subseteq RecordOps \cup {"idle"}
  BY <1>1, IdleIsIdle DEF RecordJob, RecordRead, Idle, RecordOps
<1> QED
  BY <1>1, <1>8, <1>11, <1>12, <1>13, <1>14, RecordStep

LEMMA UpdateBindingStep ==
    ASSUME RequestInv, RecordInv, NEW w \in Worker, UpdateBinding(w)
    PROVE  RecordInv' /\ Serves(RecordOps)
<1> PICK r : r = job[w]
  OBVIOUS
<1> PICK h : h = Head(r.todo)
  OBVIOUS
<1> PICK new : new = Values(table, r.edit, None)
  OBVIOUS
<1> PICK rest : rest = Tail(r.todo)
  OBVIOUS
<1> PICK done : done = r.wrote \cup {h}
  OBVIOUS
<1> PICK q : q = [r EXCEPT !.todo = rest, !.wrote = done]
  OBVIOUS
<1>1. /\ r.op = "UpdateProviders" /\ r.todo # <<>> /\ h \in Row
      /\ rows' = [rows EXCEPT ![h] = new] /\ job' = [job EXCEPT ![w] = q]
      /\ UNCHANGED <<served, crossed, blind, constrained, table, last, halfway, rekeyed>>
  BY DEF UpdateBinding
<1>2. RecordJob(r) /\ RecordRead(r) /\ RecordTypes
  BY DEF RecordInv
<1>3. /\ table = Bindings
      /\ r \in [op : {"UpdateProviders"}, reads : {{}}, writes : {r.writes},
                todo : Seq(Row \cup {0}), wrote : SUBSET Row, edit : Nat]
      /\ \A n \in 1..Len(r.todo) : ToString(r.todo[n]) \in r.writes
      /\ \A i \in r.wrote : ToString(i) \in r.writes
  BY <1>1, <1>2 DEF RecordJob
<1>4. /\ r.todo \in Seq(Row \cup {0}) /\ r.edit \in Nat /\ r.wrote \subseteq Row /\ r.reads = {}
  BY <1>3
<1>5. /\ Len(r.todo) \in Nat \ {0} /\ h = r.todo[1] /\ Tail(r.todo) \in Seq(Row \cup {0})
      /\ Len(Tail(r.todo)) = Len(r.todo) - 1
      /\ \A n \in 1..Len(Tail(r.todo)) : Tail(r.todo)[n] = r.todo[n + 1]
  BY <1>1, <1>4
<1>6. ToString(h) \in r.writes
  BY <1>3, <1>5
<1>7. /\ q.op = "UpdateProviders" /\ q.reads = {} /\ q.writes = r.writes /\ q.todo = Tail(r.todo)
      /\ q.wrote = r.wrote \cup {h} /\ q.edit = r.edit
      /\ q \in [op : {"UpdateProviders"}, reads : {{}}, writes : {r.writes},
                todo : Seq(Row \cup {0}), wrote : SUBSET Row, edit : Nat]
  <2>1. rest \in Seq(Row \cup {0}) /\ done \in SUBSET Row
    BY <1>1, <1>4, <1>5
  <2>2. /\ q \in [op : {"UpdateProviders"}, reads : {{}}, writes : {r.writes},
                  todo : Seq(Row \cup {0}), wrote : SUBSET Row, edit : Nat]
        /\ q.todo = rest /\ q.wrote = done /\ q.edit = r.edit
    BY <1>3, <2>1
  <2> QED
    BY <2>2
<1>8. RequestInv' /\ Later /\ Takes(w, q)
  BY <1>1, <1>4, <1>7, GoesOn
<1>9. new \in FullRow /\ new # None
  BY <1>2, <1>4, ValuesFill, NoneIsNoRow DEF RecordTypes
<1>10. /\ rows'[h] = new /\ \A j \in Row \ {h} : rows'[j] = rows[j]
       /\ rows' = [j \in Row |-> rows'[j]]
  BY <1>1, <1>2 DEF RecordTypes
<1>11. Present = Row /\ Present' = Present
  BY <1>2, <1>3, <1>9, <1>10 DEF RecordTypes, Present
<1>12. RecordTypes'
  <2>1. \A j \in Present' : rows'[j] \in FullRow /\ last'[j] \in FullRow
    BY <1>1, <1>2, <1>9, <1>10, <1>11 DEF RecordTypes
  <2> QED
    BY <1>1, <1>2, <1>3, <1>10, <1>11, <2>1 DEF RecordTypes, FullRow
<1>13. ~IdsKept /\ ~IdsKept'
  BY <1>1, <1>3, ClientTable DEF IdsKept
<1>14. ASSUME NEW v \in Worker \ {w} PROVE RecordJob(job[v])' /\ RecordRead(job[v])'
  <2> PICK k : k = job[v]
    OBVIOUS
  <2>1. RecordJob(k) /\ RecordRead(k) /\ job'[v] = k
    BY <1>8 DEF RecordInv, Takes
  <2>2. RecordJob(k)'
    BY <1>1, <1>11, <2>1 DEF RecordJob, FullRow
  <2>3. k.op = "Edit" => k.id \in Row /\ (k.id = h => ToString(h) \in crossed)
    BY <1>6, <1>11, <2>1, Alone DEF RecordJob
  <2>4. k.op = "UpdateProviders" =>
          k.wrote \subseteq Row /\ (h \in k.wrote => ToString(h) \in crossed)
    BY <1>6, <2>1, Alone DEF RecordJob
  <2>5. RecordRead(k)'
    <3>1. k.op = "Edit" /\ ToString(k.id) \notin crossed' =>
             \A c \in Columns(table') \ k.given : k.row[c] = rows'[k.id][c]
      BY <1>1, <1>10, <2>1, <2>3 DEF RecordRead
    <3>2. k.op = "UpdateProviders" =>
             \A j \in k.wrote : ToString(j) \in crossed' \/ rows'[j] = Values(table', k.edit, None)
      BY <1>1, <1>10, <2>1, <2>4 DEF RecordRead
    <3> QED
      BY <1>13, <3>1, <3>2 DEF RecordRead, Values
  <2> QED
    BY <2>1, <2>2, <2>5 DEF RecordJob, RecordRead
<1>15. RecordJob(q)'
  <2>1. ASSUME NEW n \in 1..Len(q.todo) PROVE ToString(q.todo[n]) \in q.writes
    <3>1. q.todo[n] = r.todo[n + 1] /\ n + 1 \in 1..Len(r.todo)
      BY <1>5, <1>7
    <3> QED
      BY <1>3, <1>7, <3>1
  <2>2. \A i \in q.wrote : ToString(i) \in q.writes
    BY <1>3, <1>6, <1>7
  <2> QED
    BY <1>1, <1>3, <1>7, <2>1, <2>2 DEF RecordJob
<1>16. RecordRead(q)'
  <2>1. \A j \in q.wrote : ToString(j) \in crossed \/ rows'[j] = new
    BY <1>1, <1>2, <1>4, <1>7, <1>10 DEF RecordRead
  <2> QED
    BY <1>1, <1>7, <2>1 DEF RecordRead, Values
<1>17. ASSUME NEW j \in Present' PROVE Stands(j)'
  <2>1. Stands(j) /\ j \in Row
    BY <1>11 DEF RecordInv
  <2>2. CASE j = h
    <3>1. job'[w].op = "UpdateProviders" /\ j \in job'[w].wrote
      BY <1>7, <1>8, <2>2 DEF Takes
    <3> QED
      BY <3>1 DEF Stands
  <2>3. CASE j # h
    <3>1. rows'[j] = rows[j] /\ last'[j] = last[j]
      BY <1>1, <1>10, <2>1, <2>3
    <3>2. ASSUME NEW v \in Worker, job[v].op = "UpdateProviders", j \in job[v].wrote
          PROVE  job'[v].op = "UpdateProviders" /\ j \in job'[v].wrote
      BY <1>7, <1>8, <3>2 DEF Takes
    <3> QED
      BY <1>1, <2>1, <3>1, <3>2 DEF Stands
  <2> QED
    BY <2>2, <2>3
<1>18. IdsApart' /\ {job[w].op, q.op} \subseteq RecordOps \cup {"idle"}
  BY <1>1, <1>7, <1>13 DEF IdsApart, RecordOps
<1> QED
  BY <1>8, <1>12, <1>14, <1>15, <1>16, <1>17, <1>18, RecordStep

LEMMA AnswerProvidersStep ==
    ASSUME RequestInv, RecordInv, NEW w \in Worker, AnswerProviders(w)
    PROVE  RecordInv' /\ Serves(RecordOps)
<1> PICK r : r = job[w]
  OBVIOUS
<1> PICK new : new = Values(table, r.edit, None)
  OBVIOUS
<1>1. /\ RequestInv' /\ Later /\ Takes(w, Idle)
      /\ UNCHANGED <<crossed, blind, constrained, table, rows, halfway, rekeyed>>
      /\ r.op = "UpdateProviders"
      /\ last' = [i \in Row |-> IF i \in r.wrote THEN new ELSE last[i]]
  BY DoneTakes DEF AnswerProviders, Done
<1>2. RecordRead(r) /\ RecordTypes /\ r.edit \in Nat /\ r.wrote \subseteq Row /\ table = Bindings
  BY <1>1 DEF RecordInv, RecordJob
<1>3. new \in FullRow
  BY <1>2, ValuesFill
<1>4. Present' = Present /\ \A i \in Present : i \in Row
  BY <1>1 DEF Present
<1>5. RecordTypes'
  <2>1. \A j \in Present' : rows'[j] \in FullRow /\ last'[j] \in FullRow
    BY <1>1, <1>2, <1>3, <1>4 DEF RecordTypes
  <2>2. last' = [j \in Row |-> last'[j]]
    BY <1>1
  <2> QED
    BY <1>1, <1>2, <1>4, <2>1, <2>2 DEF RecordTypes, FullRow
<1>6. ~IdsKept'
  BY <1>1, <1>2, ClientTable DEF IdsKept
<1>7. ASSUME NEW v \in Worker \ {w} PROVE RecordJob(job[v])' /\ RecordRead(job[v])'
  <2> PICK k : k = job[v]
    OBVIOUS
  <2>1. RecordJob(k) /\ RecordRead(k) /\ job'[v] = k
    BY <1>1 DEF RecordInv, Takes
  <2>2. RecordJob(k)'
    BY <1>1, <1>4, <2>1 DEF RecordJob, FullRow
  <2>3. RecordRead(k)'
    BY <1>1, <1>6, <2>1 DEF RecordRead
  <2> QED
    BY <2>1, <2>2, <2>3 DEF RecordJob, RecordRead
<1>8. ASSUME NEW j \in Present' PROVE Stands(j)'
  <2>1. Stands(j) /\ j \in Row
    BY <1>4 DEF RecordInv
  <2>2. CASE j \in r.wrote
    <3>1. last'[j] = new
      BY <1>1, <2>1, <2>2
    <3>2. ToString(j) \in crossed \/ rows[j] = new
      BY <1>1, <1>2, <2>2 DEF RecordRead
    <3> QED
      BY <1>1, <3>1, <3>2 DEF Stands
  <2>3. CASE j \notin r.wrote
    <3>1. last'[j] = last[j]
      BY <1>1, <2>1, <2>3
    <3>2. ASSUME NEW v \in Worker, job[v].op = "UpdateProviders", j \in job[v].wrote
          PROVE  job'[v] = job[v]
      BY <1>1, <2>3, <3>2 DEF Takes
    <3> QED
      BY <1>1, <2>1, <3>1, <3>2 DEF Stands
  <2> QED
    BY <2>2, <2>3
<1>9. RecordJob(Idle)' /\ RecordRead(Idle)' /\ {job[w].op, Idle.op} \subseteq RecordOps \cup {"idle"}
  BY <1>1, IdleIsIdle DEF RecordJob, RecordRead, Idle, RecordOps
<1>10. IdsApart'
  BY <1>6 DEF IdsApart
<1> QED
  BY <1>1, <1>5, <1>7, <1>8, <1>9, <1>10, RecordStep

LEMMA RecordsNextStep ==
    ASSUME RecordAssumption, RequestInv, RecordInv, RecordsNext
    PROVE  RecordInv' /\ Serves(RecordOps)
<1> PICK w \in Worker :
      \/ RecordsRequest(w)
      \/ Insert(w) \/ Update(w) \/ UpdateBinding(w) \/ AnswerProviders(w) \/ RecordsFail(w)
  BY DEF RecordsNext
<1>1. ASSUME RecordsRequest(w) PROVE RecordInv' /\ Serves(RecordOps)
  <2>1. ASSUME NEW i \in Present, NEW key \in Key, NEW given, Edit(w, i, given, key)
        PROVE  RecordInv' /\ Serves(RecordOps)
    BY <2>1, EditStep
  <2>2. ASSUME NEW key \in Key, Create(w, key) PROVE RecordInv' /\ Serves(RecordOps)
    BY <2>2, CreateStep
  <2>3. ASSUME NEW n \in 1..2, NEW bindings \in [1..n -> Row \cup {0}], UpdateProviders(w, bindings)
        PROVE  RecordInv' /\ Serves(RecordOps)
    BY <2>3, UpdateProvidersStep
  <2> QED
    BY <1>1, <2>1, <2>2, <2>3 DEF RecordsRequest
<1> QED
  BY <1>1, InsertStep, UpdateStep, UpdateBindingStep, AnswerProvidersStep, RecordsFailStep

LEMMA RecordInit ==
    ASSUME RecordAssumption, InitRequests, InitRecords
    PROVE  RecordInv
<1> PICK key : key = CHOOSE k \in Key : TRUE
  OBVIOUS
<1> PICK base : base = Values(table, 0, key)
  OBVIOUS
<1>1. key \in Key /\ table \in Table
  BY DEF RecordAssumption, InitRecords
<1>2. base \in FullRow
  BY <1>1, ValuesFill
<1>3. PICK row : /\ row = base \/ row = [base EXCEPT !["merchant_name"] = None, !["merchant_city"] = None]
                 /\ rows = [i \in Row |-> IF i = 1 \/ table = Bindings THEN row ELSE None]
  BY DEF InitRecords, Bindings
<1>4. row \in FullRow /\ row # None
  <2>1. [base EXCEPT !["merchant_name"] = None, !["merchant_city"] = None] \in FullRow
    BY <1>2 DEF FullRow
  <2> QED
    BY <1>1, <1>2, <1>3, <2>1, NoneIsNoRow
<1>5. last = rows /\ halfway = {} /\ rekeyed = FALSE
  BY DEF InitRecords
<1>6. Present = IF table = Bindings THEN Row ELSE {1}
  BY <1>3, <1>4 DEF Present, RecordAssumption
<1>7. RecordTypes
  <2>1. \A i \in Present : rows[i] \in FullRow /\ last[i] \in FullRow
    BY <1>3, <1>4, <1>5, <1>6 DEF RecordAssumption
  <2>2. Cardinality({1}) = 1 /\ {1} = 1..1
    BY FS_Singleton
  <2>3. rows = [i \in Row |-> rows[i]]
    BY <1>3
  <2> QED
    BY <1>1, <1>5, <1>6, <2>1, <2>2, <2>3 DEF RecordTypes
<1>8. ASSUME NEW w \in Worker PROVE RecordJob(job[w]) /\ RecordRead(job[w])
  BY RequestInit, IdleIsIdle DEF RecordJob, RecordRead
<1>9. \A i \in Present : Stands(i)
  BY <1>5 DEF Stands
<1>10. IdsApart
  BY <1>6, ClientTable DEF IdsApart, IdsKept
<1> QED
  BY <1>7, <1>8, <1>9, <1>10 DEF RecordInv

LEMMA EditsTrue ==
    ASSUME RecordInv
    PROVE  EditsStand
<1>1. ASSUME NEW i \in Present
      PROVE  \/ ToString(i) \in crossed \/ i \in halfway
             \/ \E w \in Worker : ToString(i) \in job[w].writes
             \/ rows[i] = last[i]
  BY DEF RecordInv, Stands, RecordJob
<1>2. \/ constrained \/ rekeyed \/ "key" \in crossed \/ blind # {} \/ table # "clients"
      \/ \A i, j \in Present : rows[i]["client_id"] = rows[j]["client_id"] => i = j
  BY DEF RecordInv, IdsApart, IdsKept
<1> QED
  BY <1>1, <1>2 DEF EditsStand

-----------------------------------------------------------------------------
(***************************************************************************)
(* The desks together: one desk's step leaves the others' tables and       *)
(* requests alone.                                                         *)
(***************************************************************************)
OfficeInv == RequestInv /\ CatalogInv /\ PriceInv /\ RecordInv /\ OrderInv

LEMMA OfficeInit ==
    ASSUME CatalogAssumption, RecordAssumption, Init
    PROVE  OfficeInv
  BY RequestInit, CatalogInit, PriceInit, RecordInit, OrderInit DEF Init, OfficeInv

LEMMA OpsApart ==
    /\ CatalogOps \cap PriceOps = {} /\ CatalogOps \cap RecordOps = {} /\ CatalogOps \cap OrderOps = {}
    /\ PriceOps \cap CatalogOps = {} /\ PriceOps \cap RecordOps = {} /\ PriceOps \cap OrderOps = {}
    /\ RecordOps \cap CatalogOps = {} /\ RecordOps \cap PriceOps = {} /\ RecordOps \cap OrderOps = {}
    /\ OrderOps \cap CatalogOps = {} /\ OrderOps \cap PriceOps = {} /\ OrderOps \cap RecordOps = {}
  BY DEF CatalogOps, MasterOps, ProductOps, SKUOps, PriceOps, RecordOps, OrderOps

LEMMA CatalogStill ==
    ASSUME CatalogInv, UNCHANGED catalog
    PROVE  UNCHANGED <<master, products, skus, renamed>> /\ CatalogTypes'
  BY DEF catalog, CatalogInv, CatalogTypes, Rows

LEMMA OfficeStep ==
    ASSUME CatalogAssumption, RecordAssumption, OfficeInv, [Next]_vars
    PROVE  OfficeInv'
<1>1. RequestInv /\ CatalogInv /\ PriceInv /\ RecordInv /\ OrderInv
  BY DEF OfficeInv
<1>2. CASE AtCatalog
  <2>1. UNCHANGED <<prices, records, orders>> /\ UNCHANGED mapping
    BY <1>2 DEF AtCatalog, prices
  <2>2. PICK w \in Worker : CatalogRequest(w) \/ CatalogWrite(w) \/ CatalogFails(w)
    BY <1>2 DEF AtCatalog
  <2>3. CatalogInv' /\ Serves(CatalogOps)
    BY <1>1, <2>2, CatalogRequestStep, WriteMasterStep, WriteProductStep, WriteSKUStep,
       CatalogFailsStep DEF CatalogWrite
  <2>4. PriceInv'
    BY <1>1, <2>1, <2>3, OpsApart, PricesKept
  <2>5. RecordInv'
    BY <1>1, <2>1, <2>3, OpsApart, RecordsKept
  <2>6. OrderInv'
    BY <1>1, <2>1, <2>3, OpsApart, OrdersKept
  <2> QED
    BY <2>3, <2>4, <2>5, <2>6 DEF OfficeInv, Serves
<1>3. CASE AtPrices
  <2>1. UNCHANGED <<records, orders>> /\ PricesNext
    BY <1>3 DEF AtPrices
  <2>2. PriceInv' /\ Serves(PriceOps) /\ CatalogInv'
    BY <1>1, <2>1, PriceAssumption, PricesNextStep
  <2>3. RecordInv'
    BY <1>1, <2>1, <2>2, OpsApart, RecordsKept
  <2>4. OrderInv'
    BY <1>1, <2>1, <2>2, OpsApart, OrdersKept
  <2> QED
    BY <2>2, <2>3, <2>4 DEF OfficeInv, Serves
<1>4. CASE AtRecords
  <2>1. UNCHANGED <<catalog, prices, orders>> /\ UNCHANGED mapping /\ RecordsNext
    BY <1>4 DEF AtRecords, prices
  <2>2. RecordInv' /\ Serves(RecordOps)
    BY <1>1, <2>1, RecordsNextStep
  <2>3. CatalogInv'
    BY <1>1, <2>1, <2>2, OpsApart, CatalogStill, CatalogKept
  <2>4. PriceInv'
    BY <1>1, <2>1, <2>2, OpsApart, PricesKept
  <2>5. OrderInv'
    BY <1>1, <2>1, <2>2, OpsApart, OrdersKept
  <2> QED
    BY <2>2, <2>3, <2>4, <2>5 DEF OfficeInv, Serves
<1>5. CASE AtOrders
  <2>1. UNCHANGED <<catalog, prices, records>> /\ UNCHANGED mapping /\ OrdersNext
    BY <1>5 DEF AtOrders, prices
  <2>2. OrderInv' /\ Serves(OrderOps)
    BY <1>1, <2>1, OrdersNextStep
  <2>3. CatalogInv'
    BY <1>1, <2>1, <2>2, OpsApart, CatalogStill, CatalogKept
  <2>4. PriceInv'
    BY <1>1, <2>1, <2>2, OpsApart, PricesKept
  <2>5. RecordInv'
    BY <1>1, <2>1, <2>2, OpsApart, RecordsKept
  <2> QED
    BY <2>2, <2>3, <2>4, <2>5 DEF OfficeInv, Serves
<1>6. CASE UNCHANGED vars
  <2>1. /\ UNCHANGED <<job, served, crossed, blind, constrained>>
        /\ UNCHANGED <<catalog, records, orders, mapping>>
    BY <1>6 DEF vars, requests, prices
  <2>2. Serves({})
    BY <1>1, <2>1 DEF Serves, RequestInv, Met, Later
  <2>3. \A ops : {} \cap ops = {}
    OBVIOUS
  <2>4. CatalogInv'
    BY <1>1, <2>1, <2>2, <2>3, CatalogStill, CatalogKept
  <2>5. PriceInv'
    BY <1>1, <2>1, <2>2, <2>3, PricesKept
  <2>6. RecordInv'
    BY <1>1, <2>1, <2>2, <2>3, RecordsKept
  <2>7. OrderInv'
    BY <1>1, <2>1, <2>2, <2>3, OrdersKept
  <2> QED
    BY <2>2, <2>4, <2>5, <2>6, <2>7 DEF OfficeInv, Serves
<1> QED
  BY <1>2, <1>3, <1>4, <1>5, <1>6 DEF Next

\* Every table is in the order that its requests rely on: what a request has
\* read and checked is still so when it writes, unless somebody else wrote there
\* meanwhile.  (The requests of ProductMasterService, ProductManagementService,
\* PPOBProviderHandler, of the admin services and of the intake of orders.)
THEOREM OfficeHolds == Spec => []OfficeInv
<1>1. Init => OfficeInv
  BY OfficeInit, CatalogAssumption, RecordAssumption
<1>2. OfficeInv /\ [Next]_vars => OfficeInv'
  BY OfficeStep, CatalogAssumption, RecordAssumption
<1> QED
  BY <1>1, <1>2, PTL DEF Spec

\* The master lists, the products and the SKUs stay in step: a product refers to
\* nothing that is gone, names and codes are unique, up to renamed entries,
\* requests that met and checks whose read failed.
THEOREM CatalogStaysConsistent == Spec => []CatalogConsistent
<1>1. OfficeInv => CatalogConsistent
  BY CatalogTrue DEF OfficeInv
<1> QED
  BY <1>1, OfficeHolds, PTL

\* UpdateProduct can mend a product with one stale reference and none with two:
\* the check of one field reads the other as it was.
THEOREM MendableOneByOne == Spec => []OneReferenceMends
<1>1. OfficeInv => OneReferenceMends
  BY Mending, CatalogAssumption DEF OfficeInv, CatalogInv
<1> QED
  BY <1>1, OfficeHolds, PTL

\* The price that GetProductsWithBestPrice shows is the one of the option that
\* GetProvidersForProduct puts first, and no more than that of the option that
\* GetProvidersForProductPostpaid puts first if that one has a price; none is
\* shown if a backup comes first.  A provider has one mapping of a product unless
\* two were created at once.
THEOREM PricesShownArePaid == Spec => []PriceShownIsPaid
<1>1. OfficeInv => PriceShownIsPaid
  BY PriceTrue, PriceAssumption DEF OfficeInv
<1> QED
  BY <1>1, OfficeHolds, PTL

\* An edit that was answered with success stands: no other column is taken back,
\* unless edits of the row overlapped or UpdateProviders stopped half way; the
\* look-up of CreateClient keeps client ids apart.
THEOREM EditsStayMade == Spec => []EditsStand
<1>1. OfficeInv => EditsStand
  BY EditsTrue DEF OfficeInv
<1> QED
  BY <1>1, OfficeHolds, PTL

\* A reference id names one order: the look-ups of processPrepaid and
\* CreatePayment suffice where no two inserts meet, the constraints everywhere.
THEOREM OrdersHaveOneRow == Spec => []OneOrderPerReference
<1>1. OfficeInv => OneOrderPerReference
  BY OrdersAnswer DEF OfficeInv
<1> QED
  BY <1>1, OfficeHolds, PTL
=============================================================================
