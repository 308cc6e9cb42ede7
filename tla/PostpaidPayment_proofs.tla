----------------------- MODULE PostpaidPayment_proofs -----------------------
(***************************************************************************)
(* Theorems about PostpaidPayment, for any number of ids, providers and    *)
(* goroutines and any budget of faults.                                    *)
(***************************************************************************)
EXTENDS PostpaidPayment, TLAPS

RowStatus == {"none", "Processing", "Success", "Failed"}
Row == [status : RowStatus, ref : Id \cup {None}]
Quote == [ok : BOOLEAN, seller : Seller]
OrderState == {"none", "paid", "pending", "failed"}
InquiryPc == {"ask", "digiflazz", "primary", "secondary"}
PaymentPc == {"insert", "pay", "persist", "consume", "notify"}
CallbackPc == {"store", "pay", "persist", "notify"}

Job == [pc : {"idle"} \cup InquiryPc \cup PaymentPc \cup CallbackPc,
        kind : {"none", "payment", "callback"}, id : Id \cup {None}, todo : SUBSET Provider,
        inq : Quote \cup {None}, pay : Id \cup {None}, ref : Ref \cup {None}, mem : Row \cup {None}]

BillType ==
    /\ primary \in [Id -> Quote \cup {None}]
    /\ secondary \in Id \cup {None}
    /\ row \in [Id -> Row]
    /\ job \in [Worker -> Job]
    /\ drawn \in 0..MaxId
    /\ known \in SUBSET Id
    /\ order \in [Ref -> OrderState]
    /\ quoted \in [Id -> Seller \cup {None}]
    /\ cbs \in SUBSET Ref
    /\ inquiryOf \in [Id -> Id \cup {None}]
    /\ account \in [Id -> Seller \cup {None}]
    /\ unique \in BOOLEAN
    /\ used \in [FaultKind -> Nat]

\* What a goroutine is doing.
Inquiring(w) == job[w].pc \in InquiryPc
PayingNew(w) == job[w].pc \in PaymentPc /\ job[w].kind = "payment"
Calling(w) == job[w].pc \in CallbackPc /\ job[w].kind = "callback"

\* Ids are given out once: to an inquiry, or to a payment.
Owner(w) == Inquiring(w) \/ PayingNew(w)
OwnId(w) == IF Inquiring(w) THEN job[w].id ELSE job[w].pay

IsPayment(p) == inquiryOf[p] # None

\* The order a payment makes; another one, Own(p), may follow if that fails.
First(p) == <<account[p], inquiryOf[p]>>

\* What is told of orders is told of the payment that has made them: it is alone
\* with its reference, or nobody has changed the mode.
Sound == unique \/ used["switch"] = 0

IdInv ==
    /\ \A i \in known : i <= drawn /\ ~IsPayment(i)
    /\ secondary # None => secondary \in known
    /\ \A p \in Id : IsPayment(p) => p <= drawn /\ inquiryOf[p] \in known
    /\ \A p \in Id : row[p].status # "none" <=> IsPayment(p)
    /\ \A p \in Id : row[p].ref \in {None, inquiryOf[p], p}
    /\ \A p \in Id : IsPayment(p) \/ row[p].ref = None
    /\ \A p \in Id : IsPayment(p) => account[p] \in Seller
    /\ \A r \in Ref : order[r] # "none" => \E p \in Id : IsPayment(p) /\ r \in {First(p), Own(p)}
    /\ \A i \in Id : primary[i] # None => i <= drawn

OwnerInv ==
    /\ \A w \in Worker : Owner(w) =>
         OwnId(w) \in Id /\ OwnId(w) <= drawn /\ OwnId(w) \notin known
    /\ \A v, w \in Worker : Owner(v) /\ Owner(w) /\ v # w => OwnId(v) # OwnId(w)

\* An inquiry: nobody else uses its id before the client has it.
InquiryInv ==
    \A w \in Worker : Inquiring(w) =>
        /\ ~IsPayment(job[w].id)
        /\ job[w].pc \in {"ask", "digiflazz"} => primary[job[w].id] = None
        /\ job[w].pc \in {"primary", "secondary"} =>
             job[w].inq \in Quote /\ (job[w].inq.ok => job[w].inq.seller = quoted[job[w].id])

\* A payment: its row is as it was inserted until the answer is stored.
PaymentOk(w) ==
    LET j == job[w] IN
    /\ j.id \in known
    /\ j.inq \in Quote /\ j.inq.ok /\ j.inq.seller = quoted[j.id]
    /\ j.pc = "insert" => ~IsPayment(j.pay)
    /\ j.pc # "insert" => inquiryOf[j.pay] = j.id /\ j.ref = First(j.pay) /\ j.mem \in Row
    /\ j.pc \in {"pay", "persist"} => row[j.pay] = [status |-> "Processing", ref |-> None]
    /\ j.pc \in {"insert", "pay", "persist"} => \A s \in Seller : order[<<s, j.pay>>] = "none"
    /\ j.pc = "pay" => j.mem.status = "Processing"
    /\ j.pc \in {"consume", "notify"} => j.mem.status \in FinalStatus /\ row[j.pay] = j.mem
    /\ j.pc # "insert" => j.mem.status # "none" /\ j.mem.ref \in {None, j.id}
PaymentInv == \A w \in Worker : PayingNew(w) => PaymentOk(w)

\* The handling of a callback: of a payment whose answer is stored.
CallbackOk(w) ==
    LET j == job[w] IN
    /\ j.pay \in Id /\ IsPayment(j.pay) /\ j.id = inquiryOf[j.pay]
    /\ j.ref = Own(j.pay)
    /\ j.mem \in Row /\ j.mem.status # "none" /\ j.mem.ref \in {None, j.id, j.pay}
    /\ j.pc \in {"store", "pay"} => j.mem.status = "Processing"
    /\ j.pc = "notify" => j.mem.status \in FinalStatus
CallbackInv ==
    \A w \in Worker : Calling(w) =>
        CallbackOk(w) /\ \A v \in Worker : PayingNew(v) => job[v].pay # job[w].pay

\* Every job is idle, an inquiry, a payment or a callback.
PhaseInv == \A w \in Worker : job[w].pc = "idle" \/ Inquiring(w) \/ PayingNew(w) \/ Calling(w)

\* A callback under way means that of its order is no longer on its way; the
\* order of a payment's own id comes after the failure of its inquiry's.
Retrying(w, p) == Calling(w) /\ job[w].pay = p /\ job[w].pc \in {"store", "pay"}
OrdersInv ==
    /\ \A r \in cbs : order[r] \in {"paid", "failed"}
    /\ \A p \in Id : IsPayment(p) /\ Sound =>
         LET i == First(p) IN
         /\ order[Own(p)] # "none" => order[i] = "failed" /\ i \notin cbs
         /\ i \in cbs \/ order[i] \in {"none", "pending"} =>
              \A w \in Worker : Calling(w) => job[w].pay # p
         /\ \A w \in Worker : Retrying(w, p) => order[i] = "failed"

\* Nobody will ask for the payment p under its own id any more.
NoRetry(p) ==
    /\ \A w \in Worker : ~Retrying(w, p)
    /\ First(p) \in cbs => row[p].status \in FinalStatus \/ row[p].ref = None

Paid(p) == order[First(p)] = "paid" \/ order[Own(p)] = "paid"
Unpaid(p) ==
    /\ order[First(p)] = "failed"
    /\ order[Own(p)] = "failed" \/ (order[Own(p)] = "none" /\ NoRetry(p))
True(p, status) ==
    /\ Sound /\ status = "Success" => Paid(p)
    /\ Sound /\ status = "Failed" /\ used["net"] = 0 => Unpaid(p)

TruthInv ==
    /\ \A p \in Id : IsPayment(p) => True(p, row[p].status)
    /\ \A w \in Worker : (PayingNew(w) \/ Calling(w)) /\ job[w].pc \in {"persist", "consume", "notify"}
          => True(job[w].pay, job[w].mem.status)

\* A payment goes to who has quoted its bill, or has changed the mode.
AccountInv ==
    \A p \in Id : IsPayment(p) =>
        \/ account[p] = quoted[inquiryOf[p]]
        \/ account[p] \in Legacy /\ used["switch"] > 0

\* The quote in the cache is the seller's own.
QuoteInv ==
    /\ \A i \in Id : primary[i] # None /\ primary[i].ok => primary[i].seller = quoted[i]
    /\ AccountInv

\* Payments one after the other, answered at once.
Calm == \A k \in {"overlap", "pending", "net", "kios", "crash", "redis"} : used[k] = 0
CalmInv ==
    Calm =>
      /\ cbs = {} /\ \A r \in Ref : order[r] # "pending"
      /\ \A w \in Worker : ~Calling(w)
      /\ \A v, w \in Worker : PayingNew(v) /\ PayingNew(w) /\ job[v].id = job[w].id => v = w
      /\ \A w \in Worker : PayingNew(w) /\ job[w].pc = "consume" => job[w].mem.status = "Success"
      /\ \A p \in Id : row[p].status = "Success" =>
           /\ \A w \in Worker : PayingNew(w) /\ job[w].id = inquiryOf[p] =>
                 job[w].pay = p /\ job[w].pc \in {"consume", "notify"}
           /\ \/ primary[inquiryOf[p]] = None
              \/ \E w \in Worker : PayingNew(w) /\ job[w].pc = "consume" /\ job[w].id = inquiryOf[p]
      /\ \A p, q \in Id : row[p].status = "Success" /\ row[q].status = "Success"
            /\ inquiryOf[p] = inquiryOf[q] => p = q
UniqueInv == unique => \A p, q \in Id : row[p].status # "none" /\ row[q].status # "none" => p = q

-----------------------------------------------------------------------------
(***************************************************************************)
(* What each action does to the job of its goroutine, field by field.      *)
(***************************************************************************)

Same(w, j) == \* the job of w keeps what it is about
    /\ job'[w].kind = j.kind /\ job'[w].id = j.id /\ job'[w].pay = j.pay /\ job'[w].ref = j.ref
Others(w) == \A v \in Worker \ {w} : job'[v] = job[v]

Pcs == {"idle"} \cup InquiryPc \cup PaymentPc \cup CallbackPc

LEMMA OwnRef == ASSUME NEW p \in Id PROVE Own(p) \in Ref /\ Own(p)[2] = p
  BY DEF Own, Ref, Seller, Legacy

LEMMA IdleType == Idle \in Job /\ Idle.pc = "idle"
  BY DEF Idle, Job

LEMMA Becomes ==
    ASSUME BillType, NEW w \in Worker, NEW j \in Job, Become(w, j)
    PROVE  job' \in [Worker -> Job] /\ job'[w] = j /\ Others(w)
  BY DEF Become, BillType, Others

LEMMA EndsIdle ==
    ASSUME BillType, NEW w \in Worker, Become(w, Idle)
    PROVE  job' \in [Worker -> Job] /\ job'[w].pc = "idle" /\ Others(w)
  BY IdleType, Becomes

LEMMA WithPc ==
    ASSUME NEW j \in Job, NEW pc \in Pcs, NEW k, k = [j EXCEPT !.pc = pc]
    PROVE  k \in Job /\ k.pc = pc /\ k.kind = j.kind /\ k.id = j.id /\ k.todo = j.todo
           /\ k.inq = j.inq /\ k.pay = j.pay /\ k.ref = j.ref /\ k.mem = j.mem
  BY DEF Job, Pcs

LEMMA WithTodo ==
    ASSUME NEW j \in Job, NEW todo \in SUBSET Provider, NEW k, k = [j EXCEPT !.todo = todo]
    PROVE  k \in Job /\ k.pc = j.pc /\ k.kind = j.kind /\ k.id = j.id /\ k.todo = todo
           /\ k.inq = j.inq /\ k.pay = j.pay /\ k.ref = j.ref /\ k.mem = j.mem
  BY DEF Job

\* A row with another status.
LEMMA RowStatusOnly ==
    ASSUME NEW r \in Row, NEW s \in RowStatus, NEW k, k = [r EXCEPT !.status = s]
    PROVE  k \in Row /\ k.status = s /\ k.ref = r.ref
  BY DEF Row
LEMMA RowRefOnly ==
    ASSUME NEW r \in Row, NEW i \in Id, NEW k, k = [r EXCEPT !.ref = i]
    PROVE  k \in Row /\ k.status = r.status /\ k.ref = i
  BY DEF Row

\* Faults are only counted up.
LEMMA SpendUp ==
    ASSUME BillType, NEW k \in FaultKind, Spend(k)
    PROVE  used' \in [FaultKind -> Nat] /\ used'[k] > 0 /\ \A f \in FaultKind : used'[f] >= used[f]
<1>1. used' = [used EXCEPT ![k] = used[k] + 1]
  BY Zenon DEF Spend
<1> QED
  BY <1>1 DEF BillType

LEMMA SpendIfUp ==
    ASSUME BillType, NEW k \in FaultKind, NEW c \in BOOLEAN, SpendIf(c, k)
    PROVE  /\ used' \in [FaultKind -> Nat] /\ \A f \in FaultKind : used'[f] >= used[f]
           /\ c => used'[k] > 0
<1>1. CASE c
  BY <1>1, SpendUp DEF SpendIf
<1>2. CASE ~c
  BY <1>2 DEF SpendIf, BillType
<1> QED
  BY <1>1, <1>2

Up == used' \in [FaultKind -> Nat] /\ \A f \in FaultKind : used'[f] >= used[f]

LEMMA UsedSame == ASSUME BillType, used' = used PROVE Up
  BY DEF BillType, Up

Inquires(w) ==
    /\ job' \in [Worker -> Job] /\ Others(w) /\ drawn' = drawn + 1 /\ drawn' \in Id
    /\ job[w].pc = "idle"
    /\ job'[w].pc \in {"ask", "digiflazz"} /\ job'[w].id = drawn'
    /\ Up
    /\ UNCHANGED <<primary, secondary, row, known, order, quoted, cbs, inquiryOf, account, unique>>
LEMMA InquireShape ==
    ASSUME BillType, NEW w \in Worker, Inquire(w)
    PROVE  Inquires(w)
<1> USE DEF Inquires
<1>1. drawn' = drawn + 1 /\ drawn' \in Id
  BY ConstAssumption DEF Inquire, Id, BillType
<1>2. PICK available \in SUBSET Provider :
         Become(w, [Idle EXCEPT !.pc = IF available = {} THEN "digiflazz" ELSE "ask",
                                !.id = drawn', !.todo = available])
  BY DEF Inquire
<1> DEFINE pc == IF available = {} THEN "digiflazz" ELSE "ask"
           k == [Idle EXCEPT !.pc = pc, !.id = drawn', !.todo = available]
<1>3. k \in Job /\ k.pc = pc /\ k.id = drawn'
  <2>1. pc \in {"ask", "digiflazz"}
    OBVIOUS
  <2> HIDE DEF pc
  <2> QED
    BY <1>1, <2>1 DEF Idle, Job, InquiryPc
<1>4. job' \in [Worker -> Job] /\ job'[w] = k /\ Others(w)
  <2> HIDE DEF k
  <2> QED
    BY <1>2, <1>3, Becomes DEF k
<1>5. Hit \in BOOLEAN /\ "redis" \in FaultKind
  BY DEF Hit, FaultKind
<1>6. Up
  BY <1>5, SpendIfUp DEF Inquire, Up
<1>7. job[w].pc = "idle" /\ UNCHANGED <<primary, secondary, row, known, order, quoted, cbs, inquiryOf, account, unique>>
  BY DEF Inquire, cache, sellers, payments
<1> HIDE DEF k, pc
<1> QED
  BY <1>1, <1>3, <1>4, <1>6, <1>7 DEF pc

\* AskProvider and AskDigiflazz: a quote is noted, the next is asked, or the
\* inquiry ends without an answer.
Asks(w) ==
    /\ job' \in [Worker -> Job] /\ Others(w) /\ job[w].pc \in {"ask", "digiflazz"}
    /\ quoted' \in [Id -> Seller \cup {None}]
    /\ \A i \in Id : i # job[w].id => quoted'[i] = quoted[i]
    /\ \/ /\ job'[w].pc = "primary" /\ Same(w, job[w]) /\ job'[w].inq \in Quote
          /\ job[w].id \in Id /\ job'[w].inq.ok => job'[w].inq.seller = quoted'[job[w].id]
       \/ job'[w].pc = "ask" /\ Same(w, job[w])
       \/ job'[w].pc = "idle"
    /\ Up /\ UNCHANGED <<primary, secondary, row, drawn, known, order, cbs, inquiryOf, account, unique, used>>
LEMMA AskShape ==
    ASSUME BillType, NEW w \in Worker, AskProvider(w) \/ AskDigiflazz(w)
    PROVE  Asks(w)
<1> USE DEF Asks
<1> DEFINE j == job[w]
<1>j. j \in Job
  BY DEF BillType
<1>q. quoted \in [Id -> Seller \cup {None}]
  BY DEF BillType
<1>f. ASSUME NEW ok \in BOOLEAN, NEW s \in Seller, Become(w, Found(j, ok, s))
      PROVE  /\ job' \in [Worker -> Job] /\ Others(w) /\ job'[w].pc = "primary" /\ Same(w, j)
             /\ job'[w].inq \in Quote /\ job'[w].inq.ok = ok /\ job'[w].inq.seller = s
  <2> DEFINE k == Found(j, ok, s)
             q == [ok |-> ok, seller |-> s]
  <2>1. q \in Quote /\ q.ok = ok /\ q.seller = s
    BY DEF Quote
  <2>2. k = [j EXCEPT !.pc = "primary", !.inq = q]
    BY DEF Found
  <2> HIDE DEF q, k, j
  <2>3. "primary" \in Pcs
    BY DEF Pcs, InquiryPc
  <2>4. k \in Job /\ k.pc = "primary" /\ k.kind = j.kind /\ k.id = j.id /\ k.inq = q /\ k.pay = j.pay /\ k.ref = j.ref
    BY <1>j, <2>1, <2>2, <2>3 DEF Job, Pcs
  <2>5. job' \in [Worker -> Job] /\ job'[w] = k /\ Others(w)
    BY <1>f, <2>4, Becomes DEF k
  <2> QED
    BY <2>1, <2>4, <2>5 DEF Same
<1>u. Up /\ UNCHANGED <<primary, secondary, row, drawn, known, order, cbs, inquiryOf, account, unique, used>>
  BY UsedSame DEF AskProvider, AskDigiflazz, cache, payments
<1>1. CASE AskProvider(w)
  <2>1. PICK s \in j.todo :
         \/ quoted' = [quoted EXCEPT ![j.id] = s] /\ Become(w, Found(j, TRUE, s))
         \/ Become(w, Found(j, FALSE, s)) /\ UNCHANGED quoted
         \/ Become(w, IF j.todo = {s} THEN Found(j, FALSE, s) ELSE [j EXCEPT !.todo = @ \ {s}]) /\ UNCHANGED quoted
    BY <1>1 DEF AskProvider
  <2>2. s \in Provider /\ s \in Seller /\ j.todo \in SUBSET Provider /\ j.pc = "ask" /\ j.id \in Id \cup {None}
    BY <1>1, <1>j DEF AskProvider, Job, Seller
  <2>3. CASE quoted' = [quoted EXCEPT ![j.id] = s] /\ Become(w, Found(j, TRUE, s))
    <3>1. /\ job' \in [Worker -> Job] /\ Others(w) /\ job'[w].pc = "primary" /\ Same(w, j)
          /\ job'[w].inq \in Quote /\ job'[w].inq.ok = TRUE /\ job'[w].inq.seller = s
      BY <1>f, <2>2, <2>3
    <3>2. /\ quoted' \in [Id -> Seller \cup {None}]
          /\ \A i \in Id : i # j.id => quoted'[i] = quoted[i]
          /\ j.id \in Id => quoted'[j.id] = s
      BY <2>2, <2>3, <1>q
    <3> HIDE DEF j
    <3> QED
      BY <2>2, <3>1, <3>2, <1>u DEF j
  <2>4. CASE Become(w, Found(j, FALSE, s)) /\ UNCHANGED quoted
    <3>1. /\ job' \in [Worker -> Job] /\ Others(w) /\ job'[w].pc = "primary" /\ Same(w, j)
          /\ job'[w].inq \in Quote /\ job'[w].inq.ok = FALSE
      BY <1>f, <2>2, <2>4
    <3> QED
      BY <2>2, <2>4, <3>1, <1>q, <1>u
  <2>5. CASE j.todo # {s} /\ Become(w, [j EXCEPT !.todo = @ \ {s}]) /\ UNCHANGED quoted
    <3> DEFINE rest == j.todo \ {s}
               k == [j EXCEPT !.todo = rest]
    <3>1. Become(w, k) /\ rest \in SUBSET Provider
      BY <2>2, <2>5
    <3> HIDE DEF rest, j
    <3>2. k \in Job /\ k.pc = j.pc /\ k.kind = j.kind /\ k.id = j.id /\ k.pay = j.pay /\ k.ref = j.ref
      BY <1>j, <3>1, WithTodo
    <3> HIDE DEF k
    <3>3. job' \in [Worker -> Job] /\ job'[w] = k /\ Others(w)
      BY <3>1, <3>2, Becomes
    <3> QED
      BY <2>2, <2>5, <3>2, <3>3, <1>q, <1>u DEF Same, j
  <2> QED
    BY <2>1, <2>3, <2>4, <2>5
<1>2. CASE AskDigiflazz(w)
  <2>2. j.pc = "digiflazz" /\ j.id \in Id \cup {None}
    BY <1>2, <1>j DEF AskDigiflazz, Job
  <2>3. ASSUME NEW s \in Legacy, quoted' = [quoted EXCEPT ![j.id] = s], Become(w, Found(j, TRUE, s))
        PROVE  Asks(w)
    <3>0. s \in Seller
      BY DEF Seller
    <3>1. /\ job' \in [Worker -> Job] /\ Others(w) /\ job'[w].pc = "primary" /\ Same(w, j)
          /\ job'[w].inq \in Quote /\ job'[w].inq.ok = TRUE /\ job'[w].inq.seller = s
      BY <1>f, <2>3, <3>0
    <3>2. /\ quoted' \in [Id -> Seller \cup {None}]
          /\ \A i \in Id : i # j.id => quoted'[i] = quoted[i]
          /\ j.id \in Id => quoted'[j.id] = s
      BY <2>2, <2>3, <3>0, <1>q
    <3> HIDE DEF j
    <3> QED
      BY <2>2, <3>1, <3>2, <1>u DEF j
  <2>4. CASE Become(w, Idle) /\ UNCHANGED quoted
    BY <2>2, <2>4, <1>q, <1>u, EndsIdle
  <2> QED
    BY <1>2, <2>3, <2>4 DEF AskDigiflazz
<1> QED
  BY <1>1, <1>2

Caches(w) ==
    /\ job' \in [Worker -> Job] /\ Others(w) /\ job[w].pc \in {"primary", "secondary"}
    /\ Up
    /\ \/ primary' = primary
       \/ job[w].pc = "primary" /\ primary' = [primary EXCEPT ![job[w].id] = job[w].inq]
    /\ \/ /\ job'[w].pc = "secondary" /\ Same(w, job[w]) /\ job'[w].inq = job[w].inq
          /\ known' = known /\ secondary' = secondary
       \/ /\ job'[w].pc = "idle" /\ known' = known \cup {job[w].id}
          /\ secondary' \in {secondary, job[w].id}
    /\ UNCHANGED <<row, drawn, order, quoted, cbs, inquiryOf, account, unique>>
LEMMA CacheShape ==
    ASSUME BillType, NEW w \in Worker, CachePrimary(w) \/ CacheSecondary(w),
           job[w].id \in Id, job[w].inq \in Quote
    PROVE  Caches(w)
<1> USE DEF Caches
<1> DEFINE j == job[w]
<1>0. job[w] \in Job /\ "redis" \in FaultKind
  BY DEF BillType, FaultKind
<1>r. ASSUME Reply(w)
      PROVE  job' \in [Worker -> Job] /\ Others(w) /\ job'[w].pc = "idle" /\ known' = known \cup {job[w].id}
  BY <1>r, EndsIdle DEF Reply
<1>1. CASE CachePrimary(w)
  <2>0. /\ j.pc = "primary" /\ secondary' = secondary
        /\ UNCHANGED <<row, drawn, order, quoted, cbs, inquiryOf, account, unique>>
    BY <1>1 DEF CachePrimary, sellers, payments
  <2>1. \/ /\ primary' = [primary EXCEPT ![j.id] = j.inq] /\ used' = used
           /\ (Become(w, [j EXCEPT !.pc = "secondary"]) /\ known' = known) \/ Reply(w)
        \/ Spend("redis") /\ Reply(w) /\ primary' = primary
    BY <1>1 DEF CachePrimary
  <2>2. Up
    BY <2>1, <1>0, SpendUp, UsedSame DEF Up
  <2>3. CASE Become(w, [j EXCEPT !.pc = "secondary"]) /\ known' = known
    <3> DEFINE k == [j EXCEPT !.pc = "secondary"]
    <3> HIDE DEF j
    <3>1. k \in Job /\ k.pc = "secondary" /\ k.kind = j.kind /\ k.id = j.id /\ k.inq = j.inq /\ k.pay = j.pay /\ k.ref = j.ref
      BY <1>0, WithPc DEF j, Pcs, InquiryPc
    <3> HIDE DEF k
    <3>2. job' \in [Worker -> Job] /\ job'[w] = k /\ Others(w)
      BY <2>3, <3>1, Becomes DEF k
    <3>3. \/ primary' = primary
          \/ primary' = [primary EXCEPT ![job[w].id] = job[w].inq]
      BY <2>1 DEF j
    <3> QED
      BY <2>0, <2>2, <2>3, <3>1, <3>2, <3>3 DEF Same, j
  <2>4. CASE Reply(w)
    BY <2>0, <2>1, <2>2, <2>4, <1>r
  <2> QED
    BY <2>1, <2>3, <2>4
<1>2. CASE CacheSecondary(w)
  <2>1. /\ j.pc = "secondary" /\ primary' = primary /\ Reply(w)
        /\ UNCHANGED <<row, drawn, order, quoted, cbs, inquiryOf, account, unique>>
        /\ (secondary' = j.id /\ used' = used) \/ (Spend("redis") /\ secondary' = secondary)
    BY <1>2 DEF CacheSecondary, sellers, payments
  <2>2. Up
    BY <2>1, <1>0, SpendUp, UsedSame DEF Up
  <2> QED
    BY <2>1, <2>2, <1>r
<1> QED
  BY <1>1, <1>2

Opens(w, i) ==
    /\ job' \in [Worker -> Job] /\ Others(w) /\ drawn' = drawn + 1 /\ drawn' \in Id
    /\ job[w].pc = "idle" /\ i \in known
    /\ primary[i] # None /\ primary[i] \in Quote /\ primary[i].ok
    /\ job'[w].pc = "insert" /\ job'[w].kind = "payment" /\ job'[w].id = i
    /\ job'[w].inq = primary[i] /\ job'[w].pay = drawn' /\ job'[w].mem = None
    /\ Up
    /\ (\E v \in Worker : Paying(v) /\ job[v].id = i) => used'["overlap"] > 0
    /\ UNCHANGED <<primary, secondary, row, known, order, quoted, cbs, inquiryOf, account, unique>>
LEMMA OpenShape ==
    ASSUME BillType, NEW w \in Worker, NEW i \in Id, OpenPayment(w, i)
    PROVE  Opens(w, i)
<1> USE DEF Opens
<1>1. drawn' = drawn + 1 /\ drawn' \in Id
  BY ConstAssumption DEF OpenPayment, Id, BillType
<1>2. primary[i] # None /\ primary[i] \in Quote /\ primary[i].ok
  BY DEF OpenPayment, Payable, BillType
<1> DEFINE q == primary[i]
           k == [Idle EXCEPT !.pc = "insert", !.kind = "payment", !.id = i, !.inq = q, !.pay = drawn']
<1>3. /\ k \in Job /\ k.pc = "insert" /\ k.kind = "payment" /\ k.id = i /\ k.inq = q
      /\ k.pay = drawn' /\ k.mem = None
  <2> HIDE DEF q
  <2> QED
    BY <1>1, <1>2 DEF Idle, Job, PaymentPc, q
<1>4. Become(w, k)
  BY DEF OpenPayment
<1> HIDE DEF k
<1>5. job' \in [Worker -> Job] /\ job'[w] = k /\ Others(w)
  BY <1>3, <1>4, Becomes
<1> DEFINE c == \E v \in Worker : Paying(v) /\ job[v].id = i
<1>6. c \in BOOLEAN /\ "overlap" \in FaultKind /\ SpendIf(c, "overlap")
  BY DEF OpenPayment, FaultKind
<1> HIDE DEF c
<1>7. c => used'["overlap"] > 0
  BY <1>6, SpendIfUp DEF Up
<1>8. Up
  BY <1>6, SpendIfUp DEF Up
<1>9. job[w].pc = "idle" /\ i \in known
      /\ UNCHANGED <<primary, secondary, row, known, order, quoted, cbs, inquiryOf, account, unique>>
  BY DEF OpenPayment, cache, sellers, payments
<1> QED
  BY <1>1, <1>2, <1>3, <1>5, <1>7, <1>8, <1>9 DEF c

Inserts(w) ==
    /\ job' \in [Worker -> Job] /\ Others(w) /\ job[w].pc = "insert" /\ Up
    /\ \/ /\ ~(unique /\ \E q \in Id : row[q].status # "none")
          /\ row' \in [Id -> Row]
          /\ row'[job[w].pay].status = "Processing" /\ row'[job[w].pay].ref = row[job[w].pay].ref
          /\ \A q \in Id \ {job[w].pay} : row'[q] = row[q]
          /\ inquiryOf' = [inquiryOf EXCEPT ![job[w].pay] = job[w].id]
          /\ \E s \in Seller :
               /\ s = job[w].inq.seller \/ (s \in Legacy /\ used'["switch"] > 0)
               /\ account' = [account EXCEPT ![job[w].pay] = s]
               /\ job'[w].ref = <<s, job[w].id>> /\ job'[w].ref \in Ref
          /\ job'[w].pc = "pay" /\ job'[w].kind = job[w].kind /\ job'[w].id = job[w].id
          /\ job'[w].inq = job[w].inq /\ job'[w].pay = job[w].pay
          /\ job'[w].mem = row'[job[w].pay]
       \/ job'[w].pc = "idle" /\ row' = row /\ inquiryOf' = inquiryOf /\ account' = account
    /\ UNCHANGED <<primary, secondary, drawn, known, order, quoted, cbs, unique>>
LEMMA InsertShape ==
    ASSUME BillType, NEW w \in Worker, InsertPayment(w), job[w].pay \in Id, job[w].id \in Id,
           job[w].inq \in Quote
    PROVE  Inserts(w)
<1> USE DEF Inserts
<1> DEFINE j == job[w]
<1>0. /\ j.pc = "insert" /\ j \in Job /\ row \in [Id -> Row] /\ {"db", "switch"} \subseteq FaultKind
      /\ UNCHANGED <<primary, secondary, drawn, known, order, quoted, cbs, unique>>
  BY DEF InsertPayment, BillType, cache, sellers, FaultKind
<1>1. ASSUME NEW s \in Asked(j.inq),
             ~(unique /\ \E q \in Id : row[q].status # "none"),
             row' = [row EXCEPT ![j.pay].status = "Processing"],
             inquiryOf' = [inquiryOf EXCEPT ![j.pay] = j.id],
             SpendIf(s # j.inq.seller, "switch"),
             account' = [account EXCEPT ![j.pay] = s],
             Become(w, [j EXCEPT !.pc = "pay", !.mem = row'[j.pay], !.ref = <<s, j.id>>])
      PROVE  Inserts(w)
  <2> DEFINE m == [row[j.pay] EXCEPT !.status = "Processing"]
             r == <<s, j.id>>
  <2>1. m \in Row /\ m.status = "Processing" /\ m.ref = row[j.pay].ref
    <3>1. row[j.pay] \in Row /\ "Processing" \in RowStatus
      BY <1>0 DEF RowStatus
    <3> QED
      BY <3>1 DEF Row
  <2>2. row' = [row EXCEPT ![j.pay] = m]
    BY <1>1, Zenon
  <2> HIDE DEF m
  <2>3. row' \in [Id -> Row] /\ row'[j.pay] = m /\ \A q \in Id \ {j.pay} : row'[q] = row[q]
    BY <1>0, <2>1, <2>2
  <2>s. s \in Seller /\ (s = j.inq.seller \/ s \in Legacy) /\ r \in Ref
    BY DEF Asked, Quote, Seller, Ref
  <2> DEFINE k == [j EXCEPT !.pc = "pay", !.mem = m, !.ref = r]
  <2>4. Become(w, k)
    BY <1>1, <2>3
  <2> HIDE DEF r
  <2>5. /\ k \in Job /\ k.pc = "pay" /\ k.kind = j.kind /\ k.id = j.id /\ k.inq = j.inq
        /\ k.pay = j.pay /\ k.ref = r /\ k.mem = m
    <3> HIDE DEF j
    <3> QED
      BY <1>0, <2>1, <2>s DEF Job, PaymentPc, j
  <2> HIDE DEF k
  <2>6. job' \in [Worker -> Job] /\ job'[w] = k /\ Others(w)
    BY <2>4, <2>5, Becomes
  <2>7. Up /\ (s # j.inq.seller => used'["switch"] > 0)
    BY <1>0, <1>1, SpendIfUp DEF Up
  <2>8. \E t \in Seller :
          /\ t = j.inq.seller \/ (t \in Legacy /\ used'["switch"] > 0)
          /\ account' = [account EXCEPT ![j.pay] = t]
          /\ job'[w].ref = <<t, j.id>> /\ job'[w].ref \in Ref
    BY <1>1, <2>s, <2>5, <2>6, <2>7 DEF r
  <2> QED
    BY <1>0, <1>1, <2>1, <2>3, <2>5, <2>6, <2>7, <2>8
<1>2. CASE /\ SpendIf(~unique \/ \A q \in Id : row[q].status = "none", "db")
           /\ Become(w, Idle) /\ row' = row /\ inquiryOf' = inquiryOf /\ account' = account
  <2> DEFINE c == ~unique \/ \A q \in Id : row[q].status = "none"
  <2>1. c \in BOOLEAN /\ SpendIf(c, "db")
    BY <1>2
  <2> HIDE DEF c
  <2>2. Up
    BY <1>0, <2>1, SpendIfUp DEF Up
  <2> QED
    BY <1>0, <1>2, <2>2, EndsIdle
<1>3. \/ \E s \in Asked(j.inq) :
           /\ ~(unique /\ \E q \in Id : row[q].status # "none")
           /\ row' = [row EXCEPT ![j.pay].status = "Processing"]
           /\ inquiryOf' = [inquiryOf EXCEPT ![j.pay] = j.id]
           /\ SpendIf(s # j.inq.seller, "switch")
           /\ account' = [account EXCEPT ![j.pay] = s]
           /\ Become(w, [j EXCEPT !.pc = "pay", !.mem = row'[j.pay], !.ref = <<s, j.id>>])
      \/ /\ SpendIf(~unique \/ \A q \in Id : row[q].status = "none", "db")
         /\ Become(w, Idle) /\ row' = row /\ inquiryOf' = inquiryOf /\ account' = account
  BY Zenon DEF InsertPayment, payments
<1> QED
  BY <1>1, <1>2, <1>3, Zenon

\* A request to the seller, which may know its ref_id already.
Requested(r) ==
    \/ /\ order[r] = "none"
       /\ \E o \in {"paid", "pending", "failed"} :
            /\ order' = [order EXCEPT ![r] = o]
            /\ o = "pending" => used'["pending"] > 0 \/ used'["net"] > 0 \/ used'["kios"] > 0
    \/ order' = order

Pays(w) ==
    /\ job' \in [Worker -> Job] /\ Others(w) /\ job[w].pc = "pay" /\ Up
    /\ job'[w].pc = "persist" /\ Same(w, job[w]) /\ job'[w].inq = job[w].inq /\ job'[w].mem \in Row
    /\ Requested(job[w].ref)
    /\ \/ /\ order'[job[w].ref] # "none"
          /\ job'[w].mem.status = Status(order'[job[w].ref])
       \/ job'[w].mem.status = "Processing"
       \/ job'[w].mem.status = "Failed" /\ used'["net"] > 0
    /\ job'[w].mem.ref \in {job[w].mem.ref, job[w].ref[2]}
    /\ UNCHANGED <<primary, secondary, row, drawn, known, quoted, cbs, inquiryOf, account, unique>>
LEMMA PayShape ==
    ASSUME BillType, NEW w \in Worker, Pay(w) \/ PayLost(w),
           job[w].ref \in Ref, job[w].mem \in Row
    PROVE  Pays(w)
<1> USE DEF Pays
<1> DEFINE j == job[w]
<1>0. /\ j.pc = "pay" /\ j \in Job /\ j.ref \in Ref /\ j.ref[2] \in Id /\ j.mem \in Row
      /\ order \in [Ref -> OrderState]
      /\ {"net", "kios", "pending"} \subseteq FaultKind
      /\ UNCHANGED <<primary, secondary, row, drawn, known, quoted, cbs, inquiryOf, account, unique>>
  BY DEF Pay, PayLost, BillType, Ref, cache, payments, FaultKind
<1>m. ASSUME NEW m \in Row, NEW k, k = [j EXCEPT !.pc = "persist", !.mem = m], Become(w, k)
      PROVE  /\ job' \in [Worker -> Job] /\ Others(w)
             /\ job'[w].pc = "persist" /\ Same(w, j) /\ job'[w].inq = j.inq /\ job'[w].mem = m
  <2> HIDE DEF j
  <2>1. /\ k \in Job /\ k.pc = "persist" /\ k.kind = j.kind /\ k.id = j.id /\ k.inq = j.inq
        /\ k.pay = j.pay /\ k.ref = j.ref /\ k.mem = m
    BY <1>0, <1>m DEF Job, PaymentPc
  <2>2. job' \in [Worker -> Job] /\ job'[w] = k /\ Others(w)
    BY <1>m, <2>1, Becomes
  <2> QED
    BY <2>1, <2>2 DEF Same
<1>a. ASSUME NEW o \in {"paid", "pending", "failed"}, Become(w, Answered(j, o))
      PROVE  /\ job' \in [Worker -> Job] /\ Others(w)
             /\ job'[w].pc = "persist" /\ Same(w, j) /\ job'[w].inq = j.inq /\ job'[w].mem \in Row
             /\ job'[w].mem.status = Status(o) /\ job'[w].mem.ref \in {j.mem.ref, j.ref[2]}
  <2> DEFINE ref == IF j.ref[1] \in Legacy THEN j.ref[2] ELSE j.mem.ref
             m == [status |-> Status(o), ref |-> ref]
             k == [j EXCEPT !.pc = "persist", !.mem = m]
  <2>0. ref \in {j.mem.ref, j.ref[2]} /\ ref \in Id \cup {None}
    BY <1>0 DEF Row
  <2>1. m \in Row /\ m.status = Status(o) /\ m.ref = ref
    <3> HIDE DEF ref
    <3> QED
      BY <2>0 DEF Row, RowStatus, Status
  <2>2. Become(w, k)
    <3>1. Answered(j, o) = k
      BY <1>0, Zenon DEF Answered, Job
    <3> QED
      BY <1>a, <3>1
  <2> HIDE DEF m, ref, j
  <2>3. k = [j EXCEPT !.pc = "persist", !.mem = m]
    OBVIOUS
  <2> HIDE DEF k
  <2> QED
    BY <2>0, <2>1, <2>2, <2>3, <1>m
<1>1. CASE Pay(w)
  <2>1. CASE \E o \in {"paid", "pending", "failed"} :
                /\ Submit(j.ref, o)
                /\ SpendIf(o = "pending", "pending")
                /\ Become(w, Answered(j, o))
    <3>1. PICK o \in {"paid", "pending", "failed"} :
                /\ Submit(j.ref, o)
                /\ SpendIf(o = "pending", "pending")
                /\ Become(w, Answered(j, o))
      BY <2>1
    <3>2. Up /\ (o = "pending" => used'["pending"] > 0)
      BY <1>0, <3>1, SpendIfUp DEF Up
    <3>3. order[j.ref] = "none" /\ order' = [order EXCEPT ![j.ref] = o]
      BY <3>1 DEF Submit
    <3>4. Requested(j.ref)
      BY <3>2, <3>3 DEF Requested
    <3>5. order'[j.ref] = o
      BY <1>0, <3>3
    <3> HIDE DEF j
    <3> QED
      BY <1>0, <1>a, <3>1, <3>2, <3>4, <3>5 DEF j
  <2>2. CASE /\ order[j.ref] # "none"
             /\ Become(w, Answered(j, order[j.ref]))
             /\ UNCHANGED <<order, used>>
    <3>1. order[j.ref] \in {"paid", "pending", "failed"}
      BY <1>0, <2>2 DEF OrderState
    <3>2. Up
      BY <2>2, UsedSame
    <3> HIDE DEF j
    <3> QED
      BY <1>0, <1>a, <2>2, <3>1, <3>2 DEF Requested, j
  <2> QED
    BY <1>1, <2>1, <2>2 DEF Pay
<1>2. CASE PayLost(w)
  <2> DEFINE kind == IF j.ref[1] \in Kiosbank THEN "kios" ELSE "net"
             status == IF j.ref[1] \in Kiosbank THEN "Processing" ELSE "Failed"
             m == [j.mem EXCEPT !.status = status]
             k == [j EXCEPT !.pc = "persist", !.mem = m]
  <2>1. kind \in FaultKind /\ Spend(kind)
    BY <1>0, <1>2 DEF PayLost
  <2>2. Up /\ used'[kind] > 0
    BY <2>1, SpendUp DEF Up
  <2>3. Requested(j.ref)
    BY <1>2, <2>2 DEF PayLost, Submit, Requested
  <2>4. Become(w, k)
    <3>1. Unanswered(j) = k
      BY <1>0, Zenon DEF Unanswered, Job
    <3> QED
      BY <1>2, <3>1 DEF PayLost
  <2>5. status \in RowStatus /\ (status = "Processing" \/ (status = "Failed" /\ used'["net"] > 0))
    BY <2>2 DEF RowStatus
  <2> HIDE DEF status, kind
  <2>6. m \in Row /\ m.status = status /\ m.ref = j.mem.ref
    BY <1>0, <2>5, RowStatusOnly
  <2> HIDE DEF m, j
  <2>7. k = [j EXCEPT !.pc = "persist", !.mem = m]
    OBVIOUS
  <2> HIDE DEF k
  <2>8. /\ job' \in [Worker -> Job] /\ Others(w)
        /\ job'[w].pc = "persist" /\ Same(w, j) /\ job'[w].inq = j.inq /\ job'[w].mem = m
    BY <2>4, <2>6, <2>7, <1>m
  <2> QED
    BY <1>0, <2>2, <2>3, <2>5, <2>6, <2>8 DEF j
<1> QED
  BY <1>1, <1>2

Persists(w) ==
    /\ job' \in [Worker -> Job] /\ Others(w) /\ job[w].pc = "persist" /\ Up
    /\ \/ /\ row' = [row EXCEPT ![job[w].pay] = job[w].mem]
          /\ \/ job'[w].pc = "idle" /\ job[w].mem.status = "Processing"
             \/ /\ job'[w].pc \in {"consume", "notify"} /\ job[w].mem.status # "Processing"
                /\ job'[w].pc = "consume" => job[w].kind = "payment" /\ job[w].mem.status = "Success"
                /\ job[w].kind = "payment" /\ job[w].mem.status = "Success" => job'[w].pc = "consume"
                /\ Same(w, job[w]) /\ job'[w].inq = job[w].inq /\ job'[w].mem = job[w].mem
       \/ job'[w].pc = "idle" /\ row' = row
    /\ UNCHANGED <<primary, secondary, drawn, known, order, quoted, cbs, inquiryOf, account, unique>>
LEMMA PersistShape ==
    ASSUME BillType, NEW w \in Worker, Persist(w), job[w].pay \in Id, job[w].mem \in Row
    PROVE  Persists(w)
<1> USE DEF Persists
<1> DEFINE j == job[w]
<1>0. /\ j.pc = "persist" /\ j \in Job /\ "db" \in FaultKind
      /\ UNCHANGED <<primary, secondary, drawn, known, order, quoted, cbs, inquiryOf, account, unique>>
  BY DEF Persist, BillType, cache, sellers, payments, FaultKind
<1>k. ASSUME NEW pc \in {"consume", "notify"}, Become(w, [j EXCEPT !.pc = pc])
      PROVE  /\ job' \in [Worker -> Job] /\ Others(w) /\ job'[w].pc = pc
             /\ Same(w, j) /\ job'[w].inq = j.inq /\ job'[w].mem = j.mem
  <2> DEFINE k == [j EXCEPT !.pc = pc]
  <2> HIDE DEF j
  <2>1. /\ k \in Job /\ k.pc = pc /\ k.kind = j.kind /\ k.id = j.id /\ k.inq = j.inq
        /\ k.pay = j.pay /\ k.ref = j.ref /\ k.mem = j.mem
    BY <1>0, WithPc DEF Pcs, PaymentPc
  <2> HIDE DEF k
  <2>2. job' \in [Worker -> Job] /\ job'[w] = k /\ Others(w)
    BY <1>k, <2>1, Becomes DEF k
  <2> QED
    BY <2>1, <2>2 DEF Same
<1>1. CASE /\ row' = [row EXCEPT ![j.pay] = j.mem] /\ used' = used
           /\ Become(w, CASE j.mem.status = "Processing" -> Idle
                          [] j.mem.status = "Success" /\ j.kind = "payment" -> [j EXCEPT !.pc = "consume"]
                          [] OTHER -> [j EXCEPT !.pc = "notify"])
  <2>0. Up
    BY <1>1, UsedSame
  <2>1. CASE j.mem.status = "Processing"
    <3>1. Become(w, Idle)
      BY <1>1, <2>1
    <3> QED
      BY <1>0, <1>1, <2>0, <2>1, <3>1, EndsIdle
  <2>2. CASE j.mem.status = "Success" /\ j.kind = "payment"
    <3>1. Become(w, [j EXCEPT !.pc = "consume"])
      BY <1>1, <2>2
    <3> QED
      BY <1>0, <1>1, <1>k, <2>0, <2>2, <3>1
  <2>3. CASE j.mem.status # "Processing" /\ ~(j.mem.status = "Success" /\ j.kind = "payment")
    <3>1. Become(w, [j EXCEPT !.pc = "notify"])
      BY <1>1, <2>3
    <3> QED
      BY <1>0, <1>1, <1>k, <2>0, <2>3, <3>1
  <2> QED
    BY <2>1, <2>2, <2>3
<1>2. CASE Spend("db") /\ Become(w, Idle) /\ row' = row
  BY <1>0, <1>2, EndsIdle, SpendUp DEF Up
<1> QED
  BY <1>1, <1>2, Zenon DEF Persist

Consumes(w) ==
    /\ job' \in [Worker -> Job] /\ Others(w) /\ job[w].pc = "consume" /\ Up
    /\ job'[w].pc = "notify" /\ Same(w, job[w]) /\ job'[w].inq = job[w].inq /\ job'[w].mem = job[w].mem
    /\ \/ primary' = [primary EXCEPT ![job[w].id] = None] /\ secondary' = None
       \/ primary' = primary /\ secondary' = secondary /\ used'["redis"] > 0
    /\ UNCHANGED <<row, drawn, known, order, quoted, cbs, inquiryOf, account, unique>>
LEMMA ConsumeShape ==
    ASSUME BillType, NEW w \in Worker, Consume(w), job[w].id \in Id
    PROVE  Consumes(w)
<1> USE DEF Consumes
<1> DEFINE j == job[w]
           k == [j EXCEPT !.pc = "notify"]
<1>0. /\ j.pc = "consume" /\ j \in Job /\ "redis" \in FaultKind /\ Become(w, k)
      /\ UNCHANGED <<row, drawn, known, order, quoted, cbs, inquiryOf, account, unique>>
  BY DEF Consume, BillType, sellers, payments, FaultKind
<1>1. /\ k \in Job /\ k.pc = "notify" /\ k.kind = j.kind /\ k.id = j.id /\ k.inq = j.inq
      /\ k.pay = j.pay /\ k.ref = j.ref /\ k.mem = j.mem
  <2> HIDE DEF j
  <2> QED
    BY <1>0, WithPc DEF Pcs, PaymentPc
<1> HIDE DEF k
<1>2. job' \in [Worker -> Job] /\ job'[w] = k /\ Others(w)
  BY <1>0, <1>1, Becomes
<1>3. \/ primary' = [primary EXCEPT ![j.id] = None] /\ secondary' = None /\ used' = used
      \/ Spend("redis") /\ primary' = primary /\ secondary' = secondary
  BY DEF Consume, cache
<1>4. Up
  BY <1>0, <1>3, SpendUp, UsedSame DEF Up
<1>5. \/ primary' = [primary EXCEPT ![j.id] = None] /\ secondary' = None
      \/ primary' = primary /\ secondary' = secondary /\ used'["redis"] > 0
  BY <1>0, <1>3, SpendUp
<1> QED
  BY <1>0, <1>1, <1>2, <1>4, <1>5 DEF Same

Notifies(w) ==
    /\ job' \in [Worker -> Job] /\ Others(w) /\ job[w].pc = "notify" /\ Up
    /\ job'[w].pc = "idle"
    /\ row' = row \/ row' = [row EXCEPT ![job[w].pay] = job[w].mem]
    /\ UNCHANGED <<primary, secondary, drawn, known, order, quoted, cbs, inquiryOf, account, unique>>
LEMMA NotifyShape ==
    ASSUME BillType, NEW w \in Worker, Notify(w), job[w].pay \in Id, job[w].mem \in Row
    PROVE  Notifies(w)
  BY EndsIdle, UsedSame DEF Notifies, Notify, cache, sellers, payments

\* AdapterGone and Crash: the goroutine forgets what it did.
Goes(w) ==
    /\ job' \in [Worker -> Job] /\ Others(w) /\ Up /\ job'[w].pc = "idle"
    /\ job[w].pc = "consume" => used'["crash"] > 0
    /\ UNCHANGED <<primary, secondary, row, drawn, known, order, quoted, cbs, inquiryOf, account, unique>>
LEMMA GoneShape ==
    ASSUME BillType, NEW w \in Worker, AdapterGone(w) \/ Crash(w)
    PROVE  Goes(w)
<1> USE DEF Goes
<1>1. Become(w, Idle) /\ {"gone", "crash"} \subseteq FaultKind
      /\ UNCHANGED <<primary, secondary, row, drawn, known, order, quoted, cbs, inquiryOf, account, unique>>
  BY DEF AdapterGone, Crash, cache, sellers, payments, FaultKind
<1>2. Up
  BY <1>1, SpendUp DEF AdapterGone, Crash, Up
<1>3. job[w].pc = "consume" => used'["crash"] > 0
  BY <1>1, SpendUp DEF AdapterGone, Crash
<1> QED
  BY <1>1, <1>2, <1>3, EndsIdle

Stores(w) ==
    /\ job' \in [Worker -> Job] /\ Others(w) /\ job[w].pc = "store" /\ Up
    /\ job'[w].pc = "pay" /\ Same(w, job[w]) /\ job'[w].inq = job[w].inq
    /\ job'[w].mem \in Row /\ job'[w].mem.status = job[w].mem.status /\ job'[w].mem.ref = job[w].ref[2]
    /\ row' = row \/ row' = [row EXCEPT ![job[w].pay] = job'[w].mem]
    /\ UNCHANGED <<primary, secondary, drawn, known, order, quoted, cbs, inquiryOf, account, unique>>
LEMMA StoreShape ==
    ASSUME BillType, NEW w \in Worker, StoreRef(w),
           job[w].pay \in Id, job[w].mem \in Row, job[w].ref \in Ref
    PROVE  Stores(w)
<1> USE DEF Stores
<1> DEFINE j == job[w]
           m == [j.mem EXCEPT !.ref = j.ref[2]]
           k == [j EXCEPT !.pc = "pay", !.mem = m]
<1>0. /\ j.pc = "store" /\ j \in Job /\ "db" \in FaultKind /\ Become(w, k)
      /\ UNCHANGED <<primary, secondary, drawn, known, order, quoted, cbs, inquiryOf, account, unique>>
      /\ \/ row' = [row EXCEPT ![j.pay] = m] /\ used' = used
         \/ Spend("db") /\ row' = row
  BY DEF StoreRef, BillType, cache, sellers, payments, FaultKind
<1>1. m \in Row /\ m.status = j.mem.status /\ m.ref = j.ref[2]
  BY DEF Row, Ref
<1>2. /\ k \in Job /\ k.pc = "pay" /\ k.kind = j.kind /\ k.id = j.id /\ k.inq = j.inq
      /\ k.pay = j.pay /\ k.ref = j.ref /\ k.mem = m
  <2> HIDE DEF j, m
  <2> QED
    BY <1>0, <1>1 DEF Job, PaymentPc
<1> HIDE DEF k
<1>3. job' \in [Worker -> Job] /\ job'[w] = k /\ Others(w)
  BY <1>0, <1>2, Becomes
<1>4. Up
  BY <1>0, SpendUp, UsedSame DEF Up
<1>5. row' = row \/ row' = [row EXCEPT ![j.pay] = job'[w].mem]
  <2> HIDE DEF m, j
  <2> QED
    BY <1>0, <1>2, <1>3
<1> HIDE DEF m
<1> QED
  BY <1>0, <1>1, <1>2, <1>3, <1>4, <1>5 DEF Same

\* What a callback of the order r starts.
Hears(w, r) ==
    /\ job' \in [Worker -> Job] /\ Others(w) /\ job[w].pc = "idle" /\ Up
    /\ r \in cbs /\ cbs' = cbs \ {r}
    /\ \/ job'[w].pc = "idle"
       \/ \E p \in Targets(r) :
            /\ row[p].status \notin FinalStatus
            /\ job'[w].kind = "callback" /\ job'[w].id = inquiryOf[p] /\ job'[w].pay = p
            /\ job'[w].ref = Own(p)
            /\ job'[w].mem \in Row /\ job'[w].mem.ref = row[p].ref
            /\ \/ job'[w].pc = "persist" /\ job'[w].mem.status = Status(order[r])
               \/ /\ job'[w].pc = "store" /\ job'[w].mem.status = row[p].status
                  /\ order[r] = "failed" /\ order[Own(p)] = "none"
    /\ UNCHANGED <<primary, secondary, row, drawn, known, order, quoted, inquiryOf, account, unique>>
LEMMA CallbackShape ==
    ASSUME BillType, NEW w \in Worker, NEW r \in cbs, ReceiveCallback(w, r),
           order[r] \in {"paid", "failed"}
    PROVE  Hears(w, r)
<1> USE DEF Hears
<1>0. /\ job[w].pc = "idle" /\ r \in cbs /\ cbs' = cbs \ {r} /\ {"db", "early"} \subseteq FaultKind
      /\ UNCHANGED <<primary, secondary, row, drawn, known, order, quoted, inquiryOf, account, unique>>
  BY DEF ReceiveCallback, cache, payments, FaultKind
<1>s. ASSUME job' = job PROVE job' \in [Worker -> Job] /\ Others(w) /\ job'[w].pc = "idle"
  BY <1>s, <1>0 DEF BillType, Others
<1> DEFINE early == \E v \in Worker : Paying(v) /\ job[v].ref = r
<1>1. CASE /\ SpendIf(early, "early")
           /\ IF Targets(r) = {} THEN UNCHANGED job
              ELSE \E p \in Targets(r) : \E j \in AfterCallback(p, r) : Become(w, j)
  <2>1. Up
    <3>1. early \in BOOLEAN
      OBVIOUS
    <3> HIDE DEF early
    <3> QED
      BY <1>0, <1>1, <3>1, SpendIfUp DEF Up
  <2>2. CASE Targets(r) = {}
    BY <1>0, <1>1, <1>s, <2>1, <2>2
  <2>3. CASE Targets(r) # {}
    <3>1. PICK p \in Targets(r) : \E j \in AfterCallback(p, r) : Become(w, j)
      BY <1>1, <2>3
    <3>2. PICK k \in AfterCallback(p, r) : Become(w, k)
      BY <3>1
    <3>3. p \in Id /\ row[p] \in Row /\ inquiryOf[p] \in Id \cup {None}
      BY <3>1 DEF Targets, Named, BillType, Ref
    <3> DEFINE q == Own(p)
               j == [Idle EXCEPT !.kind = "callback", !.id = inquiryOf[p], !.pay = p, !.mem = row[p],
                                 !.ref = q]
               concluded == [j EXCEPT !.pc = "persist", !.mem.status = Status(order[r])]
               again == [j EXCEPT !.pc = "store"]
    <3>4. q \in Ref /\ q = Own(p)
      BY <3>3, OwnRef
    <3>5. \/ k = Idle
          \/ /\ row[p].status \notin FinalStatus
             /\ k = concluded \/ (k = again /\ order[r] = "failed" /\ order[Own(p)] = "none")
      BY <3>2 DEF AfterCallback
    <3>6. /\ j \in Job /\ j.kind = "callback" /\ j.id = inquiryOf[p] /\ j.pay = p /\ j.mem = row[p]
          /\ j.ref = q
      <4> HIDE DEF q
      <4> QED
        BY <3>3, <3>4 DEF Idle, Job
    <3>7. CASE k = Idle
      BY <1>0, <2>1, <3>2, <3>7, EndsIdle
    <3>8. CASE row[p].status \notin FinalStatus /\ k = concluded
      <4> DEFINE m == [row[p] EXCEPT !.status = Status(order[r])]
      <4>1. Status(order[r]) \in RowStatus
        BY DEF Status, RowStatus
      <4>2. m \in Row /\ m.status = Status(order[r]) /\ m.ref = row[p].ref
        BY <3>3, <4>1 DEF Row
      <4> HIDE DEF q
      <4>3. concluded = [j EXCEPT !.pc = "persist", !.mem = m]
        <5> HIDE DEF j
        <5> QED
          BY <3>6, Zenon DEF Job
      <4> HIDE DEF m, j
      <4>4. /\ k \in Job /\ k.pc = "persist" /\ k.kind = j.kind /\ k.id = j.id /\ k.inq = j.inq
            /\ k.pay = j.pay /\ k.ref = j.ref /\ k.mem = m
        BY <3>6, <3>8, <4>2, <4>3 DEF Job, CallbackPc
      <4>5. job' \in [Worker -> Job] /\ job'[w] = k /\ Others(w)
        BY <3>2, <4>4, Becomes
      <4> HIDE DEF concluded, again
      <4> QED
        BY <1>0, <2>1, <3>1, <3>4, <3>6, <3>8, <4>2, <4>4, <4>5
    <3>9. CASE row[p].status \notin FinalStatus /\ k = again /\ order[r] = "failed" /\ order[Own(p)] = "none"
      <4> HIDE DEF q, j
      <4>1. /\ k \in Job /\ k.pc = "store" /\ k.kind = j.kind /\ k.id = j.id /\ k.inq = j.inq
            /\ k.pay = j.pay /\ k.ref = j.ref /\ k.mem = j.mem
        BY <3>6, <3>9, WithPc DEF Pcs, CallbackPc
      <4>2. job' \in [Worker -> Job] /\ job'[w] = k /\ Others(w)
        BY <3>2, <4>1, Becomes
      <4> HIDE DEF concluded, again
      <4> QED
        BY <1>0, <2>1, <3>1, <3>3, <3>4, <3>6, <3>9, <4>1, <4>2
    <3> HIDE DEF concluded, again, j, q
    <3> QED
      BY <3>5, <3>7, <3>8, <3>9
  <2> QED
    BY <2>2, <2>3
<1>2. CASE order[r] = "failed" /\ Spend("db") /\ UNCHANGED job
  <2>1. Up
    BY <1>0, <1>2, SpendUp DEF Up
  <2> QED
    BY <1>0, <1>2, <1>s, <2>1
<1> QED
  BY <1>1, <1>2, Zenon DEF ReceiveCallback

Settles(r) ==
    /\ order[r] = "pending"
    /\ \E o \in {"paid", "failed"} : order' = [order EXCEPT ![r] = o]
    /\ cbs' \in {cbs, cbs \cup {r}} /\ Up
    /\ UNCHANGED <<primary, secondary, row, job, drawn, known, quoted, inquiryOf, account, unique, used>>
LEMMA SettleShape ==
    ASSUME BillType, NEW r \in Ref, Settle(r)
    PROVE  Settles(r)
  BY UsedSame DEF Settles, Settle, cache, payments

Expires(i) ==
    /\ primary' = [primary EXCEPT ![i] = None] /\ secondary' \in {None, secondary} /\ Up
    /\ UNCHANGED <<row, job, drawn, known, order, quoted, cbs, inquiryOf, account, unique, used>>
LEMMA ExpireShape ==
    ASSUME BillType, NEW i \in Id, Expire(i)
    PROVE  Expires(i)
  BY UsedSame DEF Expires, Expire, sellers, payments

-----------------------------------------------------------------------------
(***************************************************************************)
(* The inductive invariant.                                                *)
(***************************************************************************)

BillInv ==
    /\ BillType /\ IdInv /\ OwnerInv /\ InquiryInv /\ PaymentInv /\ CallbackInv /\ PhaseInv
    /\ OrdersInv /\ TruthInv /\ QuoteInv /\ CalmInv /\ UniqueInv

LEMMA FirstRef ==
    ASSUME BillInv, NEW p \in Id, IsPayment(p)
    PROVE  First(p) \in Ref /\ First(p)[2] = inquiryOf[p] /\ inquiryOf[p] \in Id /\ inquiryOf[p] \in known
           /\ ~IsPayment(inquiryOf[p]) /\ account[p] \in Seller
  BY DEF First, IsPayment, BillInv, BillType, IdInv, Ref

\* What the kind of a job says of its fields.
LEMMA JobFacts ==
    ASSUME BillInv, NEW w \in Worker
    PROVE  /\ job[w] \in Job
           /\ Inquiring(w) => job[w].id \in Id
           /\ job[w].pc \in {"primary", "secondary"} => job[w].inq \in Quote
           /\ PayingNew(w) => job[w].pay \in Id /\ job[w].id \in Id /\ job[w].inq \in Quote
           /\ PayingNew(w) /\ job[w].pc # "insert" => job[w].ref \in Ref /\ job[w].mem \in Row
           /\ Calling(w) => /\ job[w].pay \in Id /\ job[w].id \in Id
                            /\ job[w].ref \in Ref /\ job[w].mem \in Row
           /\ job[w].pc \in InquiryPc => Inquiring(w)
           /\ job[w].pc \in {"insert", "consume"} => PayingNew(w)
           /\ job[w].pc = "store" => Calling(w)
           /\ job[w].pc \in {"pay", "persist", "notify"} => PayingNew(w) \/ Calling(w)
<1>1. job[w] \in Job
  BY DEF BillInv, BillType
<1>2. Owner(w) => OwnId(w) \in Id
  BY DEF BillInv, OwnerInv
<1>3. Inquiring(w) => job[w].id \in Id /\ (job[w].pc \in {"primary", "secondary"} => job[w].inq \in Quote)
  BY <1>2 DEF Owner, OwnId, BillInv, InquiryInv
<1>4. PayingNew(w) => ~Inquiring(w)
  BY DEF PayingNew, Inquiring, PaymentPc, InquiryPc
<1>5. known \subseteq Id
  BY DEF BillInv, BillType
<1>6. PayingNew(w) => /\ job[w].pay \in Id /\ job[w].id \in Id /\ job[w].inq \in Quote
                      /\ job[w].pc # "insert" => job[w].ref \in Ref /\ job[w].mem \in Row
  <2>1. PayingNew(w) => /\ job[w].pay \in Id /\ job[w].id \in Id /\ job[w].inq \in Quote
                        /\ job[w].pc # "insert" => IsPayment(job[w].pay) /\ job[w].ref = First(job[w].pay) /\ job[w].mem \in Row
    BY <1>2, <1>4, <1>5, ConstAssumption DEF Owner, OwnId, BillInv, PaymentInv, PaymentOk, IsPayment
  <2> QED
    BY <2>1, FirstRef
<1>7. Calling(w) => /\ job[w].pay \in Id /\ job[w].id \in Id
                    /\ job[w].ref \in Ref /\ job[w].mem \in Row
  <2>1. inquiryOf \in [Id -> Id \cup {None}]
    BY DEF BillInv, BillType
  <2> QED
    BY <2>1, OwnRef DEF BillInv, CallbackInv, CallbackOk, IsPayment
<1>8. job[w].pc = "idle" \/ Inquiring(w) \/ PayingNew(w) \/ Calling(w)
  BY DEF BillInv, PhaseInv
<1>9. /\ job[w].pc \in InquiryPc => Inquiring(w)
      /\ job[w].pc \in {"insert", "consume"} => PayingNew(w)
      /\ job[w].pc = "store" => Calling(w)
      /\ job[w].pc \in {"pay", "persist", "notify"} => PayingNew(w) \/ Calling(w)
  BY <1>8 DEF Inquiring, PayingNew, Calling, InquiryPc, PaymentPc, CallbackPc
<1>10. job[w].pc \in {"primary", "secondary"} => job[w].inq \in Quote
  BY <1>3, <1>9 DEF InquiryPc
<1> QED
  BY <1>1, <1>3, <1>6, <1>7, <1>9, <1>10

WorkerEffect(w) ==
    \/ Inquires(w) \/ Asks(w) \/ Caches(w) \/ Goes(w)
    \/ \E i \in Id : Opens(w, i)
    \/ Inserts(w) /\ PayingNew(w)
    \/ Pays(w) /\ (PayingNew(w) \/ Calling(w))
    \/ Persists(w) /\ (PayingNew(w) \/ Calling(w))
    \/ Consumes(w) /\ PayingNew(w)
    \/ Notifies(w) /\ (PayingNew(w) \/ Calling(w))
    \/ Stores(w) /\ Calling(w)
    \/ \E r \in Ref : Hears(w, r) /\ order[r] \in {"paid", "failed"}

LEMMA Effects ==
    ASSUME BillInv, [Next]_vars
    PROVE  \/ UNCHANGED vars
           \/ \E w \in Worker : WorkerEffect(w)
           \/ (\E i \in Id : Expires(i)) \/ \E r \in Ref : Settles(r)
<1> DEFINE goal == \/ UNCHANGED vars
                   \/ \E w \in Worker : WorkerEffect(w)
                   \/ (\E i \in Id : Expires(i)) \/ \E r \in Ref : Settles(r)
<1> SUFFICES goal
  OBVIOUS
<1>t. BillType
  BY DEF BillInv
<1>1. ASSUME NEW i \in Id, Expire(i) PROVE goal
  BY <1>t, <1>1, ExpireShape
<1>15. ASSUME NEW r \in Ref, Settle(r) PROVE goal
  BY <1>t, <1>15, SettleShape
<1>2. ASSUME NEW w \in Worker, InquireAgain(w) PROVE goal
  <2>1. known' = known
    BY <1>2 DEF InquireAgain, Hit, BillInv, IdInv
  <2> QED
    BY <1>2, <2>1 DEF InquireAgain, vars, cache, sellers, payments
<1>3. ASSUME NEW w \in Worker, WorkerEffect(w) PROVE goal
  BY <1>3
<1> HIDE DEF goal
<1>4. ASSUME NEW w \in Worker, Inquire(w) \/ AskProvider(w) \/ AskDigiflazz(w) \/ AdapterGone(w) \/ Crash(w) PROVE goal
  BY <1>t, <1>3, <1>4, InquireShape, AskShape, GoneShape DEF WorkerEffect
<1>5. ASSUME NEW w \in Worker, CachePrimary(w) \/ CacheSecondary(w) PROVE goal
  <2>1. job[w].id \in Id /\ job[w].inq \in Quote
    BY <1>5, JobFacts DEF CachePrimary, CacheSecondary, InquiryPc
  <2> QED
    BY <1>t, <1>3, <1>5, <2>1, CacheShape DEF WorkerEffect
<1>6. ASSUME NEW w \in Worker, NEW i \in Id, OpenPayment(w, i) PROVE goal
  BY <1>t, <1>3, <1>6, OpenShape DEF WorkerEffect
<1>7. ASSUME NEW w \in Worker, InsertPayment(w) PROVE goal
  <2>1. PayingNew(w) /\ job[w].id \in Id /\ job[w].pay \in Id /\ job[w].inq \in Quote
    BY <1>7, JobFacts DEF InsertPayment
  <2> QED
    BY <1>t, <1>3, <1>7, <2>1, InsertShape DEF WorkerEffect
<1>8. ASSUME NEW w \in Worker, Pay(w) \/ PayLost(w) PROVE goal
  <2>1. (PayingNew(w) \/ Calling(w)) /\ job[w].pc = "pay"
    BY <1>8, JobFacts DEF Pay, PayLost
  <2>2. job[w].ref \in Ref /\ job[w].mem \in Row
    BY <2>1, JobFacts
  <2> QED
    BY <1>t, <1>3, <1>8, <2>1, <2>2, PayShape DEF WorkerEffect
<1>9. ASSUME NEW w \in Worker, Persist(w) PROVE goal
  <2>1. (PayingNew(w) \/ Calling(w)) /\ job[w].pc = "persist"
    BY <1>9, JobFacts DEF Persist
  <2>2. job[w].pay \in Id /\ job[w].mem \in Row
    BY <2>1, JobFacts
  <2> QED
    BY <1>t, <1>3, <1>9, <2>1, <2>2, PersistShape DEF WorkerEffect
<1>10. ASSUME NEW w \in Worker, Consume(w) PROVE goal
  <2>1. PayingNew(w) /\ job[w].id \in Id
    BY <1>10, JobFacts DEF Consume
  <2> QED
    BY <1>t, <1>3, <1>10, <2>1, ConsumeShape DEF WorkerEffect
<1>11. ASSUME NEW w \in Worker, Notify(w) PROVE goal
  <2>1. (PayingNew(w) \/ Calling(w)) /\ job[w].pc = "notify"
    BY <1>11, JobFacts DEF Notify
  <2>2. job[w].pay \in Id /\ job[w].mem \in Row
    BY <2>1, JobFacts
  <2> QED
    BY <1>t, <1>3, <1>11, <2>1, <2>2, NotifyShape DEF WorkerEffect
<1>12. ASSUME NEW w \in Worker, StoreRef(w) PROVE goal
  <2>1. Calling(w) /\ job[w].pay \in Id /\ job[w].mem \in Row /\ job[w].ref \in Ref
    BY <1>12, JobFacts DEF StoreRef
  <2> QED
    BY <1>t, <1>3, <1>12, <2>1, StoreShape DEF WorkerEffect
<1>13. ASSUME NEW w \in Worker, NEW r \in cbs, ReceiveCallback(w, r) PROVE goal
  <2>1. order[r] \in {"paid", "failed"} /\ r \in Ref
    BY <1>13, <1>t DEF BillInv, OrdersInv, BillType
  <2> QED
    BY <1>t, <1>3, <1>13, <2>1, CallbackShape DEF WorkerEffect
<1>14. ASSUME UNCHANGED vars PROVE goal
  BY <1>14 DEF goal
<1>16. Active \subseteq Worker
  BY DEF Active
<1> QED
  BY <1>1, <1>2, <1>4, <1>5, <1>6, <1>7, <1>8, <1>9, <1>10, <1>11, <1>12, <1>13, <1>14, <1>15, <1>16
     DEF Next, Step

LEMMA BillInit == Init => BillInv
<1> SUFFICES ASSUME Init PROVE BillInv
  OBVIOUS
<1> USE ConstAssumption
<1>1. BillType
  BY IdleType DEF Init, BillType, Row, RowStatus, OrderState, Id
<1>2. \A w \in Worker : job[w].pc = "idle"
  BY IdleType DEF Init
<1>3. \A w \in Worker : ~Inquiring(w) /\ ~PayingNew(w) /\ ~Calling(w)
  BY <1>2 DEF Inquiring, PayingNew, Calling, InquiryPc, PaymentPc, CallbackPc
<1>4. IdInv
  BY DEF Init, IdInv, IsPayment
<1>5. OwnerInv /\ InquiryInv /\ PaymentInv /\ CallbackInv /\ PhaseInv
  BY <1>2, <1>3 DEF OwnerInv, Owner, InquiryInv, PaymentInv, PaymentOk, CallbackInv, CallbackOk, PhaseInv
<1>6. OrdersInv /\ TruthInv
  BY <1>3 DEF Init, OrdersInv, TruthInv, IsPayment
<1>7. QuoteInv /\ UniqueInv
  BY DEF Init, QuoteInv, AccountInv, IsPayment, UniqueInv
<1>8. CalmInv
  BY <1>3 DEF Init, CalmInv
<1> QED
  BY <1>1, <1>4, <1>5, <1>6, <1>7, <1>8 DEF BillInv

LEMMA TypeStep == ASSUME BillInv, [Next]_vars PROVE BillType'
<1>t. BillType
  BY DEF BillInv
<1>1. CASE UNCHANGED vars
  BY <1>1, <1>t DEF vars, BillType
<1>2. ASSUME NEW r \in Ref, Settles(r) PROVE BillType'
  BY <1>t, <1>2 DEF Settles, BillType, Up, OrderState
<1>4. ASSUME NEW i \in Id, Expires(i) PROVE BillType'
  BY <1>t, <1>4 DEF Expires, BillType, Up
<1>3. ASSUME NEW w \in Worker, WorkerEffect(w) PROVE BillType'
  <2> USE <1>t DEF Up
  <2>1. CASE Inquires(w)
    BY <2>1 DEF Inquires, BillType, Id
  <2>2. CASE Asks(w)
    BY <2>2 DEF Asks, BillType
  <2>3. CASE Caches(w)
    <3>1. job[w].id \in Id /\ job[w].inq \in Quote
      BY <2>3, JobFacts DEF Caches, InquiryPc
    <3> HIDE DEF Up
    <3>2. primary' \in [Id -> Quote \cup {None}]
      BY <2>3, <3>1 DEF Caches, BillType
    <3>3. known' \in SUBSET Id /\ secondary' \in Id \cup {None}
      BY <2>3, <3>1 DEF Caches, BillType
    <3> QED
      BY <2>3, <3>2, <3>3 DEF Caches, BillType, Up
  <2>4. CASE Goes(w)
    BY <2>4 DEF Goes, BillType
  <2>5. ASSUME NEW i \in Id, Opens(w, i) PROVE BillType'
    BY <2>5 DEF Opens, BillType, Id
  <2>6. CASE Inserts(w) /\ PayingNew(w)
    <3>1. job[w].id \in Id /\ job[w].pay \in Id
      BY <2>6, JobFacts
    <3> QED
      BY <2>6, <3>1 DEF Inserts, BillType
  <2>7. CASE Pays(w) /\ (PayingNew(w) \/ Calling(w))
    <3>1. job[w].ref \in Ref
      BY <2>7, JobFacts DEF Pays
    <3> QED
      BY <2>7, <3>1 DEF Pays, Requested, BillType, OrderState
  <2>8. CASE (Persists(w) \/ Notifies(w) \/ Stores(w)) /\ (PayingNew(w) \/ Calling(w))
    <3>1. job[w].pay \in Id /\ (job[w].pc # "insert" => job[w].mem \in Row)
      BY <2>8, JobFacts
    <3> QED
      BY <2>8, <3>1 DEF Persists, Notifies, Stores, BillType
  <2>9. CASE Consumes(w) /\ PayingNew(w)
    <3>1. job[w].id \in Id
      BY <2>9, JobFacts
    <3> QED
      BY <2>9, <3>1 DEF Consumes, BillType
  <2>10. ASSUME NEW r \in Ref, Hears(w, r) PROVE BillType'
    BY <2>10 DEF Hears, BillType
  <2> QED
    BY <1>3, <2>1, <2>2, <2>3, <2>4, <2>5, <2>6, <2>7, <2>8, <2>9, <2>10 DEF WorkerEffect
<1> QED
  BY <1>1, <1>2, <1>3, <1>4, Effects

\* Whose row, and what it may become.
LEMMA IdStep == ASSUME BillInv, [Next]_vars PROVE IdInv'
<1>t. BillType /\ IdInv
  BY DEF BillInv
<1>1. CASE UNCHANGED vars
  BY <1>1, <1>t DEF vars, IdInv, IsPayment, First, Own
<1>2. ASSUME NEW i \in Id \cup Ref, Settles(i) \/ Expires(i) PROVE IdInv'
  <2>1. CASE Settles(i)
    BY <1>t, <2>1 DEF Settles, BillType, IdInv, IsPayment, First, Own
  <2>2. CASE Expires(i)
    BY <1>t, <2>2 DEF Expires, BillType, IdInv, IsPayment, First, Own
  <2> QED
    BY <1>2, <2>1, <2>2
<1>3. ASSUME NEW w \in Worker, WorkerEffect(w) PROVE IdInv'
  <2> USE <1>t
  <2>1. CASE Inquires(w)
    BY <2>1 DEF Inquires, BillType, IdInv, IsPayment, Id, First, Own
  <2>2. CASE Asks(w)
    BY <2>2 DEF Asks, IdInv, IsPayment, First, Own
  <2>3. CASE Caches(w)
    <3>1. Inquiring(w) /\ job[w].id \in Id /\ job[w].inq \in Quote
      BY <2>3, JobFacts DEF Caches, InquiryPc
    <3>2. job[w].id <= drawn /\ ~IsPayment(job[w].id)
      BY <3>1 DEF BillInv, OwnerInv, Owner, OwnId, InquiryInv
    <3>3. \A i \in Id : primary'[i] # None => i <= drawn
      BY <2>3, <3>1, <3>2 DEF Caches, BillType, IdInv
    <3>4. \A i \in known' : i <= drawn /\ ~IsPayment(i)
      BY <2>3, <3>1, <3>2 DEF Caches, BillType, IdInv
    <3>5. (secondary' # None => secondary' \in known') /\ known \subseteq known'
      BY <2>3, <3>1 DEF Caches, BillType, IdInv
    <3> QED
      BY <2>3, <3>3, <3>4, <3>5 DEF Caches, IdInv, IsPayment, First, Own
  <2>4. CASE Goes(w)
    BY <2>4 DEF Goes, IdInv, IsPayment, First, Own
  <2>5. ASSUME NEW i \in Id, Opens(w, i) PROVE IdInv'
    BY <2>5 DEF Opens, BillType, IdInv, IsPayment, Id, First, Own
  <2>6. CASE Inserts(w) /\ PayingNew(w)
    <3>p. PICK p \in Id, i \in Id : p = job[w].pay /\ i = job[w].id
      BY <2>6, JobFacts
    <3>1. i \in known /\ ~IsPayment(p) /\ p <= drawn /\ p \notin known
      <4>1. OwnId(w) = p /\ Owner(w)
        BY <2>6, <3>p DEF Inserts, PayingNew, OwnId, Owner, Inquiring, PaymentPc, InquiryPc
      <4> QED
        BY <4>1, <2>6, <3>p DEF BillInv, PaymentInv, PaymentOk, OwnerInv, Inserts
    <3>2. CASE /\ row'[p].status = "Processing" /\ row'[p].ref = row[p].ref
               /\ \A q \in Id \ {p} : row'[q] = row[q]
               /\ inquiryOf' = [inquiryOf EXCEPT ![p] = i]
               /\ \E s \in Seller : account' = [account EXCEPT ![p] = s]
      <4>a. account'[p] \in Seller /\ \A q \in Id \ {p} : account'[q] = account[q]
        BY <3>2 DEF BillType
      <4>o. ASSUME NEW r \in Ref, order'[r] # "none" PROVE \E q \in Id : IsPayment(q)' /\ r \in {First(q)', Own(q)'}
        <5>1. PICK q \in Id : IsPayment(q) /\ r \in {First(q), Own(q)}
          BY <2>6, <4>o DEF Inserts, IdInv
        <5>2. q # p
          BY <3>1, <5>1
        <5>3. inquiryOf'[q] = inquiryOf[q] /\ account'[q] = account[q]
          BY <3>2, <4>a, <5>2 DEF BillType
        <5> QED
          BY <5>1, <5>3 DEF IsPayment, First, Own
      <4>1. inquiryOf'[p] = i /\ i # None /\ \A q \in Id \ {p} : inquiryOf'[q] = inquiryOf[q]
        BY <3>1, <3>2, ConstAssumption DEF BillType
      <4>2. row'[p].ref = None
        BY <3>1, <3>2 DEF IdInv
      <4>3. UNCHANGED <<primary, secondary, drawn, known, order>>
        BY <2>6 DEF Inserts
      <4>4. \A q \in Id : IsPayment(q) => IsPayment(q)'
        BY <4>1 DEF IsPayment
      <4>5. \A q \in Id : q # p => (IsPayment(q) <=> IsPayment(q)')
        BY <4>1 DEF IsPayment
      <4>6. \A q \in known : q # p /\ q \in Id
        BY <3>1 DEF BillType
      <4>7. IsPayment(p)'
        BY <4>1 DEF IsPayment
      <4> QED
        BY <3>1, <3>2, <4>a, <4>o, <4>1, <4>2, <4>3, <4>4, <4>5, <4>6, <4>7 DEF IdInv
    <3>3. CASE row' = row /\ inquiryOf' = inquiryOf /\ account' = account
      BY <2>6, <3>3 DEF Inserts, IdInv, IsPayment, First, Own
    <3> QED
      BY <2>6, <3>p, <3>2, <3>3 DEF Inserts
  <2>7. CASE Pays(w) /\ (PayingNew(w) \/ Calling(w))
    <3>1. job[w].ref \in Ref /\ job[w].pay \in Id /\ IsPayment(job[w].pay)
          /\ job[w].ref \in {First(job[w].pay), Own(job[w].pay)}
      <4>1. known \subseteq Id /\ None \notin Id
        BY ConstAssumption DEF BillType
      <4> QED
        BY <2>7, <4>1, JobFacts DEF Pays, BillInv, PaymentInv, PaymentOk, CallbackInv, CallbackOk, IsPayment
    <3>2. UNCHANGED <<primary, secondary, row, drawn, known, inquiryOf, account>>
      BY <2>7 DEF Pays
    <3>3. \A r \in Ref : order'[r] # "none" => order[r] # "none" \/ r = job[w].ref
      BY <2>7, <3>1 DEF Pays, Requested, BillType
    <3>4. \A r \in Ref : order'[r] # "none" => \E p \in Id : IsPayment(p) /\ r \in {First(p), Own(p)}
      BY <3>1, <3>3 DEF IdInv
    <3> QED
      BY <3>2, <3>4 DEF IdInv, IsPayment, First, Own
  <2>8. CASE (Persists(w) \/ Notifies(w) \/ Stores(w)) /\ (PayingNew(w) \/ Calling(w))
    <3>p. PICK p \in Id : p = job[w].pay
      BY <2>8, JobFacts
    <3>1. p \in Id /\ IsPayment(p) /\ inquiryOf[p] = job[w].id /\ (Calling(w) => job[w].ref[2] = p)
      <4>1. known \subseteq Id /\ None \notin Id
        BY ConstAssumption DEF BillType
      <4>2. job[w].pc # "insert"
        BY <2>8 DEF Persists, Notifies, Stores
      <4> QED
        BY <2>8, <3>p, <4>1, <4>2, OwnRef DEF BillInv, PaymentInv, PaymentOk, CallbackInv, CallbackOk, IsPayment
    <3>2. PICK m \in Row : (row' = row \/ row' = [row EXCEPT ![p] = m]) /\ m.status # "none" /\ m.ref \in {None, inquiryOf[p], p}
      <4>1. CASE Persists(w) \/ Notifies(w)
        <5>1. job[w].mem \in Row /\ job[w].mem.status # "none" /\ job[w].mem.ref \in {None, inquiryOf[p], p}
          <6>1. job[w].mem \in Row /\ job[w].pc # "insert"
            BY <2>8, <4>1, JobFacts DEF Persists, Notifies
          <6> QED
            BY <2>8, <3>p, <3>1, <6>1 DEF BillInv, PaymentInv, PaymentOk, CallbackInv, CallbackOk
        <5> QED
          BY <3>p, <4>1, <5>1 DEF Persists, Notifies
      <4>2. CASE Stores(w)
        <5>1. Calling(w)
          BY <2>8, <4>2, JobFacts DEF Stores
        <5>2. job'[w].mem \in Row /\ job'[w].mem.status # "none" /\ job'[w].mem.ref = p
          BY <3>1, <4>2, <5>1 DEF Stores, BillInv, CallbackInv, CallbackOk
        <5> QED
          BY <3>p, <4>2, <5>2 DEF Stores
      <4> QED
        BY <2>8, <4>1, <4>2
    <3>3. UNCHANGED <<primary, secondary, drawn, known, order, inquiryOf, account>>
      BY <2>8 DEF Persists, Notifies, Stores
    <3>4. \A q \in Id : /\ (row'[q].status # "none") <=> IsPayment(q)
                        /\ row'[q].ref \in {None, inquiryOf[q], q}
                        /\ IsPayment(q) \/ row'[q].ref = None
      BY <3>1, <3>2 DEF IdInv, BillType
    <3> QED
      BY <3>3, <3>4 DEF IdInv, IsPayment, First, Own
  <2>9. CASE Consumes(w) /\ PayingNew(w)
    <3>1. job[w].id \in Id
      BY <2>9, JobFacts
    <3> QED
      BY <2>9, <3>1 DEF Consumes, BillType, IdInv, IsPayment, First, Own
  <2>10. ASSUME NEW r \in Ref, Hears(w, r) PROVE IdInv'
    BY <2>10 DEF Hears, IdInv, IsPayment, First, Own
  <2> QED
    BY <1>3, <2>1, <2>2, <2>3, <2>4, <2>5, <2>6, <2>7, <2>8, <2>9, <2>10 DEF WorkerEffect
<1> QED
  BY <1>1, <1>2, <1>3, Effects

\* Who uses an id, from one state to the next: it is kept, given up (to the
\* client, if it is that of an inquiry) or new.
LEMMA Ownership ==
    ASSUME BillInv, NEW w \in Worker, WorkerEffect(w)
    PROVE  /\ Others(w) /\ drawn' >= drawn /\ drawn' \in Nat
           /\ \/ ~Owner(w)' /\ known' \subseteq known \cup {i \in {job[w].id} : Inquiring(w)}
              \/ Owner(w) /\ Owner(w)' /\ OwnId(w)' = OwnId(w) /\ known' = known
              \/ Owner(w)' /\ OwnId(w)' = drawn' /\ drawn' = drawn + 1 /\ drawn' \in Id /\ known' = known
<1> DEFINE goal == /\ Others(w) /\ drawn' >= drawn /\ drawn' \in Nat
                   /\ \/ ~Owner(w)' /\ known' \subseteq known \cup {i \in {job[w].id} : Inquiring(w)}
                      \/ Owner(w) /\ Owner(w)' /\ OwnId(w)' = OwnId(w) /\ known' = known
                      \/ Owner(w)' /\ OwnId(w)' = drawn' /\ drawn' = drawn + 1 /\ drawn' \in Id /\ known' = known
<1> SUFFICES goal
  OBVIOUS
<1>d. drawn \in Nat /\ MaxId \in Nat /\ drawn >= drawn
  BY ConstAssumption DEF BillInv, BillType
<1> USE <1>d DEF Owner, OwnId, Inquiring, PayingNew, InquiryPc, PaymentPc
<1>1. CASE Inquires(w)
  BY <1>1 DEF Inquires
<1>2. CASE Asks(w)
  BY <1>2 DEF Asks, Same
<1>3. CASE Caches(w)
  BY <1>3 DEF Caches, Same
<1>4. CASE Goes(w)
  BY <1>4 DEF Goes
<1>5. ASSUME NEW i \in Id, Opens(w, i) PROVE goal
  BY <1>5 DEF Opens
<1>6. CASE Inserts(w) /\ PayingNew(w)
  BY <1>6 DEF Inserts
<1>7. CASE Pays(w) /\ (PayingNew(w) \/ Calling(w))
  BY <1>7 DEF Pays, Same, Calling
<1>8. CASE Persists(w) /\ (PayingNew(w) \/ Calling(w))
  BY <1>8 DEF Persists, Same, Calling
<1>9. CASE Consumes(w) /\ PayingNew(w)
  BY <1>9 DEF Consumes, Same
<1>10. CASE Notifies(w) \/ (Stores(w) /\ Calling(w))
  BY <1>10 DEF Notifies, Stores, Same, Calling
<1>11. ASSUME NEW r \in Ref, Hears(w, r) PROVE goal
  BY <1>11 DEF Hears
<1> HIDE DEF goal, Owner, OwnId, Inquiring, PayingNew, InquiryPc, PaymentPc
<1> QED
  BY <1>1, <1>2, <1>3, <1>4, <1>5, <1>6, <1>7, <1>8, <1>9, <1>10, <1>11 DEF WorkerEffect

LEMMA OwnerStep == ASSUME BillInv, [Next]_vars PROVE OwnerInv'
<1>t. OwnerInv /\ IdInv /\ drawn \in Nat /\ known \subseteq Id
  BY ConstAssumption DEF BillInv, BillType
<1>1. CASE UNCHANGED vars
  BY <1>1, <1>t DEF vars, OwnerInv, Owner, OwnId, Inquiring, PayingNew
<1>2. ASSUME NEW i \in Id \cup Ref, Settles(i) \/ Expires(i) PROVE OwnerInv'
  BY <1>2, <1>t DEF Settles, Expires, OwnerInv, Owner, OwnId, Inquiring, PayingNew
<1>3. ASSUME NEW w \in Worker, WorkerEffect(w) PROVE OwnerInv'
  <2>1. \A v \in Worker : v # w => (Owner(v)' <=> Owner(v)) /\ OwnId(v)' = OwnId(v)
    BY <1>3, Ownership DEF Others, Owner, OwnId, Inquiring, PayingNew
  <2>2. Inquiring(w) => Owner(w) /\ OwnId(w) = job[w].id
    BY DEF Owner, OwnId
  <2>3. /\ drawn' >= drawn /\ drawn' \in Nat
        /\ \/ ~Owner(w)' /\ known' \subseteq known \cup {i \in {job[w].id} : Inquiring(w)}
           \/ Owner(w) /\ Owner(w)' /\ OwnId(w)' = OwnId(w) /\ known' = known
           \/ Owner(w)' /\ OwnId(w)' = drawn' /\ drawn' = drawn + 1 /\ drawn' \in Id /\ known' = known
    BY <1>3, Ownership
  <2>4. \A v \in Worker : Owner(v) => OwnId(v) \in Id /\ OwnId(v) \in Nat /\ OwnId(v) <= drawn /\ OwnId(v) \notin known
    BY <1>t DEF OwnerInv, Id
  <2>5. \A v, u \in Worker : Owner(v) /\ Owner(u) /\ v # u => OwnId(v) # OwnId(u)
    BY <1>t DEF OwnerInv
  <2>6. \A i \in known : i \in Nat /\ i <= drawn
    BY <1>t DEF IdInv, Id
  <2>7. \A v \in Worker : Owner(v)' => OwnId(v)' \in Id /\ OwnId(v)' <= drawn' /\ OwnId(v)' \notin known'
    <3> TAKE v \in Worker
    <3>1. CASE v = w
      BY <1>t, <2>3, <2>4, <2>6, <3>1
    <3>2. CASE v # w
      BY <1>t, <2>1, <2>2, <2>3, <2>4, <2>5, <3>2
    <3> QED
      BY <3>1, <3>2
  <2>8. \A v, u \in Worker : Owner(v)' /\ Owner(u)' /\ v # u => OwnId(v)' # OwnId(u)'
    <3> TAKE v, u \in Worker
    <3>1. CASE v # w /\ u # w
      BY <2>1, <2>5, <3>1
    <3>2. \A x \in Worker : x # w /\ Owner(x)' /\ Owner(w)' => OwnId(x)' # OwnId(w)'
      BY <1>t, <2>1, <2>3, <2>4, <2>5
    <3> QED
      BY <3>1, <3>2
  <2> QED
    BY <2>7, <2>8 DEF OwnerInv
<1> QED
  BY <1>1, <1>2, <1>3, Effects

\* What becomes of the row of a payment and of its inquiry's id: an id
\* becomes a payment only by the goroutine that has drawn it.
LEMMA NewPayments ==
    ASSUME BillInv, NEW w \in Worker, WorkerEffect(w)
    PROVE  \/ UNCHANGED <<inquiryOf, account>>
           \/ /\ PayingNew(w) /\ job[w].pc = "insert" /\ Inserts(w) /\ job[w].pay \in Id
              /\ job'[w].pc = "pay" /\ PayingNew(w)'
              /\ inquiryOf' = [inquiryOf EXCEPT ![job[w].pay] = job[w].id]
              /\ \A p \in Id : p # job[w].pay => account'[p] = account[p]
<1> DEFINE goal == \/ UNCHANGED <<inquiryOf, account>>
                   \/ /\ PayingNew(w) /\ job[w].pc = "insert" /\ Inserts(w) /\ job[w].pay \in Id
                      /\ job'[w].pc = "pay" /\ PayingNew(w)'
                      /\ inquiryOf' = [inquiryOf EXCEPT ![job[w].pay] = job[w].id]
                      /\ \A p \in Id : p # job[w].pay => account'[p] = account[p]
<1> SUFFICES goal
  OBVIOUS
<1>t. account \in [Id -> Seller \cup {None}]
  BY DEF BillInv, BillType
<1>1. CASE Inserts(w) /\ PayingNew(w)
  BY <1>t, <1>1, JobFacts DEF Inserts, PayingNew, PaymentPc
<1>2. CASE \/ Inquires(w) \/ Asks(w) \/ Caches(w) \/ Goes(w) \/ Pays(w) \/ Persists(w)
           \/ Consumes(w) \/ Notifies(w) \/ Stores(w)
  BY <1>2 DEF Inquires, Asks, Caches, Goes, Pays, Persists, Consumes, Notifies, Stores
<1>3. ASSUME NEW i \in Id \cup Ref, Opens(w, i) \/ Hears(w, i) PROVE goal
  BY <1>3 DEF Opens, Hears
<1> QED
  BY <1>1, <1>2, <1>3 DEF WorkerEffect

\* ... and the payments stay.
LEMMA PaymentsStay ==
    ASSUME BillInv, NEW w \in Worker, WorkerEffect(w)
    PROVE  /\ \A p \in Id : IsPayment(p) => /\ IsPayment(p)' /\ inquiryOf'[p] = inquiryOf[p]
                                           /\ account'[p] = account[p]
                                           /\ First(p)' = First(p) /\ Own(p)' = Own(p)
           /\ \A p \in Id : IsPayment(p)' => IsPayment(p) \/ (PayingNew(w) /\ job[w].pc = "insert" /\ p = job[w].pay)
<1>1. CASE UNCHANGED <<inquiryOf, account>>
  BY <1>1 DEF IsPayment, First, Own
<1>2. CASE /\ PayingNew(w) /\ job[w].pc = "insert" /\ Inserts(w) /\ job[w].pay \in Id
           /\ job'[w].pc = "pay" /\ PayingNew(w)'
           /\ inquiryOf' = [inquiryOf EXCEPT ![job[w].pay] = job[w].id]
           /\ \A p \in Id : p # job[w].pay => account'[p] = account[p]
  <2>1. ~IsPayment(job[w].pay)
    BY <1>2 DEF BillInv, PaymentInv, PaymentOk
  <2>2. inquiryOf \in [Id -> Id \cup {None}]
    BY DEF BillInv, BillType
  <2>3. \A p \in Id : IsPayment(p) => inquiryOf'[p] = inquiryOf[p] /\ account'[p] = account[p]
    BY <1>2, <2>1, <2>2
  <2> QED
    BY <1>2, <2>1, <2>2, <2>3 DEF IsPayment, First, Own
<1> QED
  BY <1>1, <1>2, NewPayments

\* What a step of one goroutine leaves to the others: ids stay known, and it
\* touches the quote, the inquiry and the row of its own only.
LEMMA OwnOnly ==
    ASSUME BillInv, NEW w \in Worker, WorkerEffect(w)
    PROVE  /\ known \subseteq known'
           /\ \A i \in Id : quoted'[i] = quoted[i] \/ (Asks(w) /\ Inquiring(w) /\ i = job[w].id)
           /\ \A i \in Id : \/ primary'[i] \in {primary[i], None}
                            \/ Caches(w) /\ job[w].pc = "primary" /\ i = job[w].id /\ primary'[i] = job[w].inq
           /\ \A p \in Id : row'[p] = row[p] \/ ((PayingNew(w) \/ Calling(w)) /\ p = job[w].pay)
<1> DEFINE goal == /\ known \subseteq known'
                   /\ \A i \in Id : quoted'[i] = quoted[i] \/ (Asks(w) /\ Inquiring(w) /\ i = job[w].id)
                   /\ \A i \in Id : \/ primary'[i] \in {primary[i], None}
                                    \/ Caches(w) /\ job[w].pc = "primary" /\ i = job[w].id /\ primary'[i] = job[w].inq
                   /\ \A p \in Id : row'[p] = row[p] \/ ((PayingNew(w) \/ Calling(w)) /\ p = job[w].pay)
<1> SUFFICES goal
  OBVIOUS
<1>t. /\ primary \in [Id -> Quote \cup {None}] /\ row \in [Id -> Row]
  BY DEF BillInv, BillType
<1>1. CASE Inquires(w) \/ Goes(w)
  BY <1>1 DEF Inquires, Goes
<1>2. CASE Asks(w)
  BY <1>2, JobFacts DEF Asks, InquiryPc
<1>3. CASE Caches(w)
  BY <1>3, <1>t DEF Caches
<1>5. ASSUME NEW i \in Id \cup Ref, Opens(w, i) \/ Hears(w, i) PROVE goal
  BY <1>5 DEF Opens, Hears
<1>6. CASE Inserts(w) /\ PayingNew(w)
  BY <1>6 DEF Inserts
<1>7. CASE Pays(w)
  BY <1>7 DEF Pays
<1>8. CASE (Persists(w) \/ Notifies(w) \/ Stores(w)) /\ (PayingNew(w) \/ Calling(w))
  BY <1>8, <1>t DEF Persists, Notifies, Stores
<1>9. CASE Consumes(w)
  BY <1>9, <1>t DEF Consumes
<1> HIDE DEF goal
<1> QED
  BY <1>1, <1>2, <1>3, <1>5, <1>6, <1>7, <1>8, <1>9 DEF WorkerEffect

\* The orders change by asking under the ref_id of a payment or a callback.
LEMMA OrdersChange ==
    ASSUME BillInv, NEW w \in Worker, WorkerEffect(w)
    PROVE  \/ order' = order
           \/ /\ Pays(w) /\ (PayingNew(w) \/ Calling(w)) /\ job[w].ref \in Ref /\ order[job[w].ref] = "none"
              /\ \E o \in {"paid", "pending", "failed"} :
                   /\ order' = [order EXCEPT ![job[w].ref] = o]
                   /\ o = "pending" => used'["pending"] > 0 \/ used'["net"] > 0 \/ used'["kios"] > 0
<1> DEFINE goal ==
           \/ order' = order
           \/ /\ Pays(w) /\ (PayingNew(w) \/ Calling(w)) /\ job[w].ref \in Ref /\ order[job[w].ref] = "none"
              /\ \E o \in {"paid", "pending", "failed"} :
                   /\ order' = [order EXCEPT ![job[w].ref] = o]
                   /\ o = "pending" => used'["pending"] > 0 \/ used'["net"] > 0 \/ used'["kios"] > 0
<1> SUFFICES goal
  OBVIOUS
<1>1. CASE Pays(w) /\ (PayingNew(w) \/ Calling(w))
  BY <1>1, JobFacts DEF Pays, Requested
<1>2. CASE \/ Inquires(w) \/ Asks(w) \/ Caches(w) \/ Goes(w) \/ Inserts(w) \/ Persists(w)
           \/ Consumes(w) \/ Notifies(w) \/ Stores(w)
  BY <1>2 DEF Inquires, Asks, Caches, Goes, Inserts, Persists, Consumes, Notifies, Stores
<1>3. ASSUME NEW i \in Id \cup Ref, Opens(w, i) \/ Hears(w, i) PROVE goal
  BY <1>3 DEF Opens, Hears
<1> HIDE DEF goal
<1> QED
  BY <1>1, <1>2, <1>3 DEF WorkerEffect

LEMMA PhaseStep == ASSUME BillInv, [Next]_vars PROVE PhaseInv'
<1>t. PhaseInv
  BY DEF BillInv
<1> USE DEF PhaseInv, Inquiring, PayingNew, Calling
<1>1. CASE UNCHANGED vars
  BY <1>1, <1>t DEF vars
<1>2. ASSUME NEW i \in Id \cup Ref, Settles(i) \/ Expires(i) PROVE PhaseInv'
  BY <1>2, <1>t DEF Settles, Expires
<1>3. ASSUME NEW w \in Worker, WorkerEffect(w) PROVE PhaseInv'
  <2> USE <1>t DEF Others, InquiryPc, PaymentPc, CallbackPc
  <2> DEFINE goal == PhaseInv'
  <2> SUFFICES goal
    OBVIOUS
  <2>1. CASE Inquires(w) \/ Asks(w) \/ Caches(w) \/ Goes(w)
    BY <2>1 DEF Inquires, Asks, Caches, Goes
  <2>2. ASSUME NEW i \in Id \cup Ref, Opens(w, i) \/ Hears(w, i) PROVE goal
    BY <2>2 DEF Opens, Hears
  <2>3. CASE Inserts(w) /\ PayingNew(w)
    BY <2>3 DEF Inserts
  <2>4. CASE Pays(w) /\ (PayingNew(w) \/ Calling(w))
    BY <2>4 DEF Pays, Same
  <2>5. CASE Persists(w) /\ (PayingNew(w) \/ Calling(w))
    BY <2>5 DEF Persists, Same
  <2>6. CASE Consumes(w) /\ PayingNew(w)
    BY <2>6 DEF Consumes, Same
  <2>7. CASE Notifies(w) \/ (Stores(w) /\ Calling(w))
    BY <2>7 DEF Notifies, Stores, Same
  <2> HIDE DEF goal, Inquiring, PayingNew, Calling
  <2> QED
    BY <1>3, <2>1, <2>2, <2>3, <2>4, <2>5, <2>6, <2>7 DEF WorkerEffect
<1> HIDE DEF PhaseInv
<1> QED
  BY <1>1, <1>2, <1>3, Effects

LEMMA InquiryStep == ASSUME BillInv, [Next]_vars PROVE InquiryInv'
<1>t. InquiryInv /\ BillType /\ IdInv
  BY DEF BillInv
<1>1. CASE UNCHANGED vars
  BY <1>1, <1>t DEF vars, InquiryInv, Inquiring, IsPayment
<1>2. ASSUME NEW i \in Id \cup Ref, Settles(i) \/ Expires(i) PROVE InquiryInv'
  <2>1. /\ \A v \in Worker : Inquiring(v) => job[v].id \in Id
        /\ UNCHANGED <<job, inquiryOf, quoted>>
        /\ \A k \in Id : primary[k] = None => primary'[k] = None
    BY <1>2, <1>t, JobFacts DEF Settles, Expires, BillType
  <2> QED
    BY <2>1, <1>t DEF InquiryInv, Inquiring, IsPayment
<1>3. ASSUME NEW w \in Worker, WorkerEffect(w) PROVE InquiryInv'
  <2> SUFFICES ASSUME NEW v \in Worker, Inquiring(v)'
               PROVE  /\ inquiryOf'[job'[v].id] = None
                      /\ job'[v].pc \in {"ask", "digiflazz"} => primary'[job'[v].id] = None
                      /\ job'[v].pc \in {"primary", "secondary"} =>
                           job'[v].inq \in Quote /\ (job'[v].inq.ok => job'[v].inq.seller = quoted'[job'[v].id])
    BY DEF InquiryInv, IsPayment
  <2>1. CASE v # w
    <3>1. job'[v] = job[v] /\ Inquiring(v)
      BY <1>3, <2>1, Ownership DEF Others, Inquiring
    <3>2. /\ job[v].id \in Id /\ Owner(v) /\ OwnId(v) = job[v].id
      BY <3>1, JobFacts DEF Owner, OwnId
    <3>3. /\ ~IsPayment(job[v].id)
          /\ job[v].pc \in {"ask", "digiflazz"} => primary[job[v].id] = None
          /\ job[v].pc \in {"primary", "secondary"} =>
               job[v].inq \in Quote /\ (job[v].inq.ok => job[v].inq.seller = quoted[job[v].id])
      BY <1>t, <3>1 DEF InquiryInv
    <3>4. Owner(w) => OwnId(w) # job[v].id
      BY <2>1, <3>2 DEF BillInv, OwnerInv
    <3>5. /\ Inquiring(w) => job[v].id # job[w].id
          /\ PayingNew(w) => job[v].id # job[w].pay
      BY <3>4 DEF Owner, OwnId, Inquiring, PayingNew, InquiryPc, PaymentPc
    <3>6. inquiryOf'[job[v].id] = None
      BY <1>3, <3>2, <3>3, <3>5, PaymentsStay DEF IsPayment
    <3>7. quoted'[job[v].id] = quoted[job[v].id]
      BY <1>3, <3>2, <3>5, OwnOnly
    <3>8. primary'[job[v].id] \in {primary[job[v].id], None}
      BY <1>3, <3>2, <3>5, OwnOnly DEF Inquiring, InquiryPc
    <3> QED
      BY <3>1, <3>3, <3>6, <3>7, <3>8 DEF IsPayment
  <2>2. CASE v = w
    <3> USE <2>2
    <3> DEFINE goal == /\ inquiryOf'[job'[w].id] = None
                       /\ job'[w].pc \in {"ask", "digiflazz"} => primary'[job'[w].id] = None
                       /\ job'[w].pc \in {"primary", "secondary"} =>
                           job'[w].inq \in Quote /\ (job'[w].inq.ok => job'[w].inq.seller = quoted'[job'[w].id])
    <3> SUFFICES goal
      OBVIOUS
    <3>0. job'[w].pc \in InquiryPc
      BY DEF Inquiring
    <3>1. CASE Inquires(w)
      <4>1. drawn + 1 \in Id /\ ~(drawn + 1 <= drawn)
        BY <3>1, <1>t DEF Inquires, BillType
      <4>2. inquiryOf[drawn + 1] = None /\ primary[drawn + 1] = None
        BY <4>1, <1>t DEF IdInv, IsPayment
      <4> QED
        BY <3>1, <4>2 DEF Inquires, IsPayment
    <3>2. CASE Asks(w)
      <4>1. Inquiring(w) /\ job[w].id \in Id
        BY <3>2, JobFacts DEF Asks, InquiryPc
      <4>2. ~IsPayment(job[w].id) /\ primary[job[w].id] = None
        BY <3>2, <4>1, <1>t DEF InquiryInv, Asks
      <4> QED
        BY <3>0, <3>2, <4>1, <4>2 DEF Asks, Same, IsPayment, InquiryPc
    <3>3. CASE Caches(w)
      <4>1. Inquiring(w) /\ job[w].id \in Id
        BY <3>3, JobFacts DEF Caches, InquiryPc
      <4>2. ~IsPayment(job[w].id) /\ job[w].inq \in Quote /\ (job[w].inq.ok => job[w].inq.seller = quoted[job[w].id])
        BY <3>3, <4>1, <1>t DEF InquiryInv, Caches
      <4> QED
        BY <3>0, <3>3, <4>1, <4>2 DEF Caches, Same, IsPayment, InquiryPc
    <3>4. CASE \/ Goes(w) \/ Inserts(w) \/ Pays(w) \/ Persists(w) \/ Consumes(w) \/ Notifies(w) \/ Stores(w)
      BY <3>0, <3>4 DEF Goes, Inserts, Pays, Persists, Consumes, Notifies, Stores, InquiryPc
    <3>5. ASSUME NEW i \in Id \cup Ref, Opens(w, i) \/ Hears(w, i) PROVE goal
      BY <3>0, <3>5 DEF Opens, Hears, InquiryPc
    <3> HIDE DEF goal
    <3> QED
      BY <1>3, <3>1, <3>2, <3>3, <3>4, <3>5 DEF WorkerEffect
  <2> QED
    BY <2>1, <2>2
<1> QED
  BY <1>1, <1>2, <1>3, Effects

\* The handlers of payments and callbacks leave each other's rows alone: two
\* payments have two rows, and a callback is heard after its payment is done.
LEMMA OtherRows ==
    ASSUME BillInv, NEW w \in Worker, WorkerEffect(w), NEW v \in Worker, v # w, PayingNew(v)
    PROVE  /\ job'[v] = job[v] /\ job[v].pay \in Id
           /\ row'[job[v].pay] = row[job[v].pay]
           /\ (job[v].pc = "insert" \/ IsPayment(job[v].pay)) /\ (PayingNew(w) => job[w].pay # job[v].pay)
           /\ job[v].pc = "insert" => inquiryOf'[job[v].pay] = None
           /\ job[v].pc # "insert" => inquiryOf'[job[v].pay] = inquiryOf[job[v].pay]
           /\ job[v].pc # "insert" => account'[job[v].pay] = account[job[v].pay]
           /\ \A s \in Seller : order'[<<s, job[v].pay>>] = order[<<s, job[v].pay>>]
           /\ quoted'[job[v].id] = quoted[job[v].id]
           /\ job[v].id \in known'
<1>t. BillType
  BY DEF BillInv
<1>1. job'[v] = job[v] /\ job[v].pay \in Id /\ Owner(v) /\ OwnId(v) = job[v].pay /\ job[v].pay \notin known
  <2>1. job[v].pay \in Id /\ Owner(v) /\ OwnId(v) = job[v].pay
    BY JobFacts DEF Owner, OwnId, PayingNew, Inquiring, PaymentPc, InquiryPc
  <2> QED
    BY <2>1, Ownership DEF Others, BillInv, OwnerInv
<1>2. PayingNew(w) => job[w].pay # job[v].pay
  <2>1. PayingNew(w) => Owner(w) /\ OwnId(w) = job[w].pay
    BY DEF Owner, OwnId, PayingNew, Inquiring, PaymentPc, InquiryPc
  <2> QED
    BY <1>1, <2>1 DEF BillInv, OwnerInv
<1>3. Calling(w) => job[w].pay # job[v].pay /\ job[w].ref[2] = job[w].pay
  BY OwnRef DEF BillInv, CallbackInv, CallbackOk
<1>4. /\ job[v].id \in known /\ known \subseteq Id /\ None \notin Id
      /\ job[v].pc = "insert" => ~IsPayment(job[v].pay)
      /\ job[v].pc # "insert" => inquiryOf[job[v].pay] = job[v].id
  BY <1>t, ConstAssumption DEF BillInv, PaymentInv, PaymentOk, BillType
<1>5. row'[job[v].pay] = row[job[v].pay]
  BY <1>1, <1>2, <1>3, OwnOnly
<1>6. ASSUME NEW s \in Seller PROVE order'[<<s, job[v].pay>>] = order[<<s, job[v].pay>>]
  <2>1. PayingNew(w) /\ job[w].pc = "pay" => job[w].ref[2] \in known
    BY DEF BillInv, PaymentInv, PaymentOk, First
  <2>2. <<s, job[v].pay>> \in Ref
    BY <1>1 DEF Ref
  <2>3. Pays(w) /\ (PayingNew(w) \/ Calling(w)) => <<s, job[v].pay>> # job[w].ref
    BY <1>1, <1>3, <2>1 DEF Pays
  <2> QED
    BY <2>2, <2>3, <1>t, OrdersChange DEF BillType
<1>7. quoted'[job[v].id] = quoted[job[v].id] /\ job[v].id \in known'
  <2>1. Inquiring(w) => job[w].id \notin known
    BY DEF BillInv, OwnerInv, Owner, OwnId
  <2> QED
    BY <1>4, <2>1, OwnOnly
<1>8. /\ job[v].pc = "insert" => inquiryOf'[job[v].pay] = None
      /\ job[v].pc # "insert" => /\ inquiryOf'[job[v].pay] = inquiryOf[job[v].pay]
                                 /\ account'[job[v].pay] = account[job[v].pay]
  BY <1>1, <1>2, <1>4, PaymentsStay DEF IsPayment
<1> QED
  BY <1>1, <1>2, <1>4, <1>5, <1>6, <1>7, <1>8 DEF IsPayment

LEMMA PaymentStep == ASSUME BillInv, [Next]_vars PROVE PaymentInv'
<1>t. PaymentInv /\ BillType /\ IdInv
  BY DEF BillInv
<1>i. PaymentInv <=> \A v \in Worker : PayingNew(v) => PaymentOk(v)
  BY DEF PaymentInv, PaymentOk
<1>p. (\A v \in Worker : PayingNew(v)' => PaymentOk(v)') => PaymentInv'
  BY DEF PaymentInv, PaymentOk
<1>1. CASE UNCHANGED vars
  BY <1>1, <1>t DEF vars, PaymentInv, PaymentOk, PayingNew, IsPayment, First
<1>2. ASSUME NEW i \in Id \cup Ref, Settles(i) \/ Expires(i) PROVE PaymentInv'
  <2>1. UNCHANGED <<row, job, known, quoted, inquiryOf, account>>
    BY <1>2 DEF Settles, Expires
  <2>2. \A p \in Id, s \in Seller : order[<<s, p>>] = "none" => order'[<<s, p>>] = "none"
    <3>1. \A r \in Ref : order[r] = "none" => order'[r] = "none"
      BY <1>2, <1>t DEF Settles, Expires, BillType
    <3> QED
      BY <3>1 DEF Ref
  <2>3. \A v \in Worker : PayingNew(v) => job[v].pay \in Id
    BY JobFacts
  <2> QED
    BY <1>i, <1>p, <2>1, <2>2, <2>3, <1>t DEF PaymentOk, PayingNew, IsPayment, First
<1>3. ASSUME NEW w \in Worker, WorkerEffect(w) PROVE PaymentInv'
  <2> SUFFICES ASSUME NEW v \in Worker, PayingNew(v)' PROVE PaymentOk(v)'
    BY <1>p
  <2>1. CASE v # w
    <3>1. job'[v] = job[v] /\ PayingNew(v)
      BY <1>3, <2>1, Ownership DEF Others, PayingNew
    <3>2. PaymentOk(v)
      BY <1>i, <1>t, <3>1
    <3> QED
      BY <1>3, <2>1, <3>1, <3>2, OtherRows DEF PaymentOk, IsPayment, First
  <2>2. CASE v = w
    <3> DEFINE goal == PaymentOk(w)'
    <3> SUFFICES goal
      BY <2>2
    <3>0. job'[w].pc \in PaymentPc /\ job'[w].kind = "payment"
      BY <2>2 DEF PayingNew
    <3>1. ASSUME NEW i \in Id, Opens(w, i) PROVE goal
      <4>1. drawn + 1 \in Id /\ ~(drawn + 1 <= drawn)
        BY <3>1, <1>t DEF Opens, BillType
      <4>2. inquiryOf[drawn + 1] = None /\ (drawn + 1 \notin known)
        BY <4>1, <1>t DEF IdInv, IsPayment
      <4>o. ASSUME NEW s \in Seller PROVE order[<<s, drawn + 1>>] = "none"
        <5>1. ASSUME NEW p \in Id, IsPayment(p) PROVE <<s, drawn + 1>> \notin {First(p), Own(p)}
          BY <4>1, <4>2, <5>1, <1>t, OwnRef DEF IdInv, First, IsPayment
        <5>2. <<s, drawn + 1>> \in Ref
          BY <4>1 DEF Ref
        <5> QED
          BY <5>1, <5>2, <1>t DEF IdInv
      <4>3. primary[i].seller = quoted[i]
        BY <3>1 DEF Opens, BillInv, QuoteInv
      <4> QED
        BY <3>1, <4>2, <4>o, <4>3 DEF Opens, PaymentOk, IsPayment
    <3>2. CASE Inserts(w) /\ PayingNew(w)
      <4>p. PICK p \in Id, i \in Id : p = job[w].pay /\ i = job[w].id
        BY <3>2, JobFacts
      <4>1. PaymentOk(w) /\ job[w].pc = "insert" /\ job'[w].pc = "pay"
        BY <1>i, <1>t, <3>0, <3>2 DEF Inserts, PaymentPc
      <4>2. row[p].ref = None
        BY <4>1, <4>p, <1>t DEF PaymentOk, IdInv
      <4>3. row'[p] \in Row /\ row'[p].status = "Processing" /\ row'[p].ref = None /\ inquiryOf'[p] = i
        BY <3>2, <4>1, <4>2, <4>p, <1>t DEF Inserts, BillType
      <4>4. row'[p] = [status |-> "Processing", ref |-> None]
        BY <4>3 DEF Row
      <4>5. UNCHANGED <<known, order, quoted>> /\ job'[w].id = i /\ job'[w].inq = job[w].inq /\ job'[w].pay = p
            /\ job'[w].mem = row'[p]
        BY <3>2, <4>1, <4>p DEF Inserts
      <4>6. PICK s \in Seller : account' = [account EXCEPT ![p] = s] /\ job'[w].ref = <<s, i>>
        BY <3>2, <4>1, <4>p DEF Inserts
      <4>7. job'[w].ref = First(p)'
        BY <4>3, <4>6, <1>t DEF First, BillType
      <4> QED
        BY <4>1, <4>3, <4>4, <4>5, <4>7, <4>p DEF PaymentOk
    <3>3. CASE Pays(w) /\ (PayingNew(w) \/ Calling(w))
      <4>1. PayingNew(w) /\ PaymentOk(w) /\ job[w].pay \in Id /\ job[w].pay \notin known
        <5>1. PayingNew(w)
          BY <3>0, <3>3 DEF Pays, Same, Calling, PayingNew
        <5>2. Owner(w) /\ OwnId(w) = job[w].pay
          BY <5>1 DEF Owner, OwnId, PayingNew, Inquiring, PaymentPc, InquiryPc
        <5> QED
          BY <1>i, <1>t, <5>1, <5>2 DEF BillInv, OwnerInv
      <4>r. job[w].ref \in Ref /\ job[w].ref[2] = job[w].id /\ job[w].id \in known /\ job[w].ref = First(job[w].pay)
        BY <3>3, <4>1, JobFacts DEF Pays, PaymentOk, First
      <4>2. \A s \in Seller : order'[<<s, job[w].pay>>] = order[<<s, job[w].pay>>]
        <5>1. \A r \in Ref : r # job[w].ref => order'[r] = order[r]
          BY <3>3, <4>r, <1>t DEF Pays, Requested, BillType
        <5>2. \A s \in Seller : <<s, job[w].pay>> \in Ref /\ <<s, job[w].pay>> # job[w].ref
          BY <4>1, <4>r DEF Ref
        <5> QED
          BY <5>1, <5>2
      <4>3. job'[w].mem.status # "none" /\ job'[w].mem.ref \in {None, job[w].id}
        <5>1. \A o \in OrderState : o # "none" => Status(o) # "none"
          BY DEF Status, OrderState
        <5>2. order'[job[w].ref] \in OrderState
          BY <3>3, <4>r, <1>t DEF Pays, Requested, BillType, OrderState
        <5>3. job[w].mem.ref \in {None, job[w].id}
          BY <3>3, <4>1 DEF Pays, PaymentOk
        <5>4. job'[w].mem.status # "none"
          BY <3>3, <5>1, <5>2 DEF Pays
        <5>5. job'[w].mem.ref \in {job[w].mem.ref, job[w].ref[2]}
          BY <3>3 DEF Pays
        <5> QED
          BY <4>r, <5>3, <5>4, <5>5
      <4> QED
        BY <3>3, <4>1, <4>2, <4>3 DEF Pays, PaymentOk, Same, IsPayment, First
    <3>4. CASE Persists(w) /\ (PayingNew(w) \/ Calling(w))
      <4>1. PayingNew(w) /\ PaymentOk(w) /\ job[w].pay \in Id /\ job[w].mem \in Row
        BY <1>i, <1>t, <3>0, <3>4, JobFacts DEF Persists, Same, Calling, PayingNew, PaymentPc
      <4>2. job'[w].pc \in {"consume", "notify"} /\ row'[job[w].pay] = job[w].mem
        BY <3>0, <3>4, <4>1, <1>t DEF Persists, BillType, PaymentPc
      <4>3. job[w].mem.status \in FinalStatus
        BY <3>4, <4>1, <4>2 DEF Persists, PaymentOk, Row, RowStatus, FinalStatus
      <4> QED
        BY <3>4, <4>1, <4>2, <4>3 DEF Persists, PaymentOk, Same, IsPayment, First
    <3>5. CASE Consumes(w) /\ PayingNew(w)
      <4>1. PaymentOk(w)
        BY <1>i, <1>t, <3>5
      <4> QED
        BY <3>5, <4>1 DEF Consumes, PaymentOk, Same, IsPayment, First
    <3>6. CASE Inquires(w) \/ Asks(w) \/ Caches(w) \/ Goes(w) \/ Notifies(w) \/ (Stores(w) /\ Calling(w))
      BY <3>0, <3>6 DEF Inquires, Asks, Caches, Goes, Notifies, Stores, Calling, Same, PaymentPc
    <3>7. ASSUME NEW r \in Ref, Hears(w, r) PROVE goal
      BY <3>0, <3>7 DEF Hears, PaymentPc
    <3> HIDE DEF goal
    <3> QED
      BY <1>3, <3>1, <3>2, <3>3, <3>4, <3>5, <3>6, <3>7 DEF WorkerEffect
  <2> QED
    BY <2>1, <2>2
<1> QED
  BY <1>1, <1>2, <1>3, Effects

\* Payments of one inquiry make one order, unless one of them is in another mode
\* and the table takes both.
LEMMA Twins ==
    ASSUME BillInv, Sound, NEW p \in Id, NEW q \in Id, IsPayment(p), IsPayment(q), inquiryOf[p] = inquiryOf[q]
    PROVE  First(p) = First(q)
<1>1. CASE unique
  BY <1>1 DEF BillInv, UniqueInv, IdInv
<1>2. CASE used["switch"] = 0
  BY <1>2 DEF BillInv, QuoteInv, AccountInv, First
<1> QED
  BY <1>1, <1>2 DEF Sound

\* A callback finds a payment of its inquiry, or the payment whose id it bears,
\* and acts on it when the answer of the payment itself has been stored.
LEMMA TargetFacts ==
    ASSUME BillInv, NEW r \in cbs, NEW p \in Targets(r)
    PROVE  /\ p \in Id /\ r \in Ref /\ IsPayment(p) /\ inquiryOf[p] \in Id
           /\ order[r] \in {"paid", "failed"}
           /\ Sound => r = First(p) \/ r = Own(p)
           /\ row[p].status \notin FinalStatus => \A v \in Worker : PayingNew(v) => job[v].pay # p
<1>t. BillType /\ IdInv /\ OrdersInv /\ PaymentInv
  BY DEF BillInv
<1>r. r \in Ref /\ r[1] \in Seller /\ r[2] \in Id /\ r = <<r[1], r[2]>>
  BY <1>t DEF BillType, Ref
<1>1. p \in Id /\ row[p].status # "none" /\ (row[p].ref = r[2] \/ p = r[2])
  BY <1>r DEF Targets, Named
<1>2. IsPayment(p) /\ inquiryOf[p] \in Id
  BY <1>1, <1>t DEF IdInv, IsPayment, BillType
<1>3. order[r] \in {"paid", "failed"}
  BY <1>t DEF OrdersInv
<1>4. ASSUME Sound PROVE r = First(p) \/ r = Own(p)
  <2>1. r[2] = inquiryOf[p] \/ r[2] = p
    BY <1>1, <1>r, <1>t, ConstAssumption DEF IdInv
  <2>2. PICK q \in Id : IsPayment(q) /\ r \in {First(q), Own(q)}
    BY <1>r, <1>3, <1>t DEF IdInv
  <2>3. ~IsPayment(inquiryOf[p]) /\ ~IsPayment(inquiryOf[q]) /\ First(q)[2] = inquiryOf[q] /\ Own(q)[2] = q
    BY <1>1, <1>2, <2>2, FirstRef, OwnRef
  <2>4. CASE r = Own(q)
    BY <1>2, <2>1, <2>2, <2>3, <2>4
  <2>5. CASE r = First(q)
    <3>1. inquiryOf[p] = inquiryOf[q]
      BY <1>2, <2>1, <2>2, <2>3, <2>5
    <3> QED
      BY <1>1, <1>2, <1>4, <2>2, <2>5, <3>1, Twins
  <2> QED
    BY <2>2, <2>4, <2>5
<1>5. ASSUME row[p].status \notin FinalStatus, NEW v \in Worker, PayingNew(v), job[v].pay = p
      PROVE  FALSE
  <2>1. PaymentOk(v)
    BY <1>5, <1>t DEF PaymentInv, PaymentOk
  <2>2. job[v].pc # "insert" /\ job[v].pc \notin {"consume", "notify"}
    BY <1>2, <1>5, <2>1 DEF PaymentOk
  <2>3. job[v].pc \in {"pay", "persist"}
    BY <1>5, <2>2 DEF PayingNew, PaymentPc
  <2>4. row[p].ref = None /\ \A s \in Seller : order[<<s, p>>] = "none"
    BY <1>5, <2>1, <2>3 DEF PaymentOk
  <2> QED
    BY <1>r, <1>1, <1>3, <2>4, ConstAssumption
<1> QED
  BY <1>r, <1>1, <1>2, <1>3, <1>4, <1>5

LEMMA CallbackStep == ASSUME BillInv, [Next]_vars PROVE CallbackInv'
<1>t. CallbackInv /\ BillType /\ IdInv
  BY DEF BillInv
<1>i. CallbackInv <=> \A v \in Worker : Calling(v) =>
         CallbackOk(v) /\ \A u \in Worker : PayingNew(u) => job[u].pay # job[v].pay
  BY DEF CallbackInv, CallbackOk
<1>p. (\A v \in Worker : Calling(v)' =>
         CallbackOk(v)' /\ \A u \in Worker : PayingNew(u)' => job'[u].pay # job'[v].pay) => CallbackInv'
  BY DEF CallbackInv, CallbackOk
<1>1. CASE UNCHANGED vars
  BY <1>1, <1>t DEF vars, CallbackInv, CallbackOk, PayingNew, IsPayment, Calling, Own
<1>2. ASSUME NEW i \in Id \cup Ref, Settles(i) \/ Expires(i) PROVE CallbackInv'
  <2>1. UNCHANGED <<row, job, known, quoted, inquiryOf, account>>
    BY <1>2 DEF Settles, Expires
  <2> QED
    BY <1>t, <2>1 DEF CallbackInv, CallbackOk, PayingNew, IsPayment, Calling, Own
<1>3. ASSUME NEW w \in Worker, WorkerEffect(w) PROVE CallbackInv'
  <2> SUFFICES ASSUME NEW v \in Worker, Calling(v)'
               PROVE  CallbackOk(v)' /\ \A u \in Worker : PayingNew(u)' => job'[u].pay # job'[v].pay
    BY <1>p
  <2>o. /\ Others(w) /\ drawn \in Nat
        /\ \/ ~Owner(w)'
           \/ Owner(w) /\ Owner(w)' /\ OwnId(w)' = OwnId(w)
           \/ Owner(w)' /\ OwnId(w)' = drawn + 1
    BY <1>3, Ownership, <1>t, ConstAssumption DEF BillType
  <2>n. \A u \in Worker : PayingNew(u) => Owner(u) /\ OwnId(u) = job[u].pay
    BY DEF PayingNew, Owner, OwnId, Inquiring, InquiryPc, PaymentPc
  <2>m. PayingNew(w)' => Owner(w)' /\ OwnId(w)' = job'[w].pay /\ (Owner(w) => Inquiring(w) \/ PayingNew(w))
    BY DEF PayingNew, Owner, OwnId, Inquiring, InquiryPc, PaymentPc
  \* A goroutine that pays a payment has paid it before, or has just drawn its id.
  <2>q. PayingNew(w)' => (PayingNew(w) /\ job'[w].pay = job[w].pay) \/ job'[w].pay = drawn + 1
    <3> DEFINE goal == PayingNew(w)' => (PayingNew(w) /\ job'[w].pay = job[w].pay) \/ job'[w].pay = drawn + 1
    <3> SUFFICES goal
      OBVIOUS
    <3>1. ASSUME NEW i \in Id \cup Ref, Opens(w, i) \/ Hears(w, i) PROVE goal
      BY <3>1 DEF Opens, Hears, PayingNew, PaymentPc
    <3>2. CASE Inserts(w) \/ Pays(w) \/ Persists(w) \/ Consumes(w) \/ Notifies(w) \/ (Stores(w) /\ Calling(w))
      BY <3>2, JobFacts DEF Inserts, Pays, Persists, Consumes, Notifies, Stores, Same, PayingNew, Calling, PaymentPc
    <3>3. CASE Inquires(w) \/ Asks(w) \/ Caches(w) \/ Goes(w)
      BY <3>3 DEF Inquires, Asks, Caches, Goes, PayingNew, PaymentPc
    <3> HIDE DEF goal
    <3> QED
      BY <1>3, <3>1, <3>2, <3>3 DEF WorkerEffect
  <2>1. CASE v # w
    <3>1. job'[v] = job[v] /\ Calling(v)
      BY <1>3, <2>1, Ownership DEF Others, Calling
    <3>2. CallbackOk(v) /\ \A u \in Worker : PayingNew(u) => job[u].pay # job[v].pay
      BY <1>i, <1>t, <3>1
    <3>p. PICK p \in Id : p = job[v].pay
      BY <3>2 DEF CallbackOk
    <3>3. p <= drawn /\ inquiryOf'[p] = inquiryOf[p] /\ Own(p)' = Own(p)
      BY <1>3, <1>t, <3>p, <3>2, PaymentsStay DEF CallbackOk, IdInv
    <3>4. \A u \in Worker : PayingNew(u)' => job'[u].pay # job[v].pay
      <4> TAKE u \in Worker
      <4>1. CASE u # w
        BY <2>o, <3>2, <4>1 DEF Others, PayingNew
      <4>2. CASE u = w
        BY <2>q, <2>o, <3>p, <3>2, <3>3, <4>2 DEF Id
      <4> QED
        BY <4>1, <4>2
    <3> QED
      BY <3>p, <3>1, <3>2, <3>3, <3>4 DEF CallbackOk, IsPayment, Own
  <2>2. CASE v = w
    <3> DEFINE goal == CallbackOk(w)' /\ \A u \in Worker : PayingNew(u)' => job'[u].pay # job'[w].pay
    <3> SUFFICES goal
      BY <2>2
    <3>0. job'[w].pc \in CallbackPc /\ job'[w].kind = "callback" /\ ~PayingNew(w)'
      BY <2>2 DEF Calling, PayingNew
    <3>a. ASSUME Calling(w), inquiryOf' = inquiryOf, account' = account,
                 job'[w].pay = job[w].pay, job'[w].id = job[w].id,
                 job'[w].ref = job[w].ref, job'[w].mem \in Row,
                 job'[w].mem.status # "none", job'[w].mem.ref \in {None, job[w].id, job[w].pay},
                 job'[w].pc \in {"store", "pay"} => job'[w].mem.status = "Processing",
                 job'[w].pc = "notify" => job'[w].mem.status \in FinalStatus
          PROVE  goal
      <4>1. CallbackOk(w) /\ \A u \in Worker : PayingNew(u) => job[u].pay # job[w].pay
        BY <1>i, <1>t, <3>a
      <4>2. \A u \in Worker : PayingNew(u)' => u # w /\ PayingNew(u) /\ job'[u] = job[u]
        BY <3>0, <2>o DEF Others, PayingNew
      <4> QED
        BY <3>a, <4>1, <4>2 DEF CallbackOk, IsPayment, Own
    <3> HIDE DEF goal
    <3>1. CASE Pays(w) /\ (PayingNew(w) \/ Calling(w))
      <4>1. Calling(w)
        BY <3>0, <3>1 DEF Pays, Same, Calling, PayingNew
      <4>2. CallbackOk(w)
        BY <1>i, <1>t, <4>1
      <4>3. \A o \in OrderState : o # "none" => Status(o) # "none"
        BY DEF Status, OrderState
      <4>r. job[w].ref \in Ref /\ job[w].ref[2] = job[w].pay
        BY <4>2, OwnRef DEF CallbackOk
      <4>4. order'[job[w].ref] \in OrderState
        BY <3>1, <4>r, <1>t DEF Pays, Requested, BillType, OrderState
      <4>5. job'[w].mem.status # "none" /\ job'[w].mem.ref \in {None, job[w].id, job[w].pay}
        <5>1. job[w].mem.ref \in {None, job[w].id, job[w].pay}
          BY <4>2 DEF CallbackOk
        <5>2. job'[w].mem.status # "none"
          BY <3>1, <4>3, <4>4 DEF Pays
        <5>3. job'[w].mem.ref \in {job[w].mem.ref, job[w].ref[2]}
          BY <3>1 DEF Pays
        <5> QED
          BY <4>r, <5>1, <5>2, <5>3
      <4> QED
        BY <3>1, <3>a, <4>1, <4>5 DEF Pays, Same
    <3>2. CASE (Persists(w) \/ Stores(w)) /\ (PayingNew(w) \/ Calling(w))
      <4>1. Calling(w)
        BY <3>0, <3>2, JobFacts DEF Persists, Stores, Same, Calling, PayingNew, CallbackPc
      <4>2. CallbackOk(w)
        BY <1>i, <1>t, <4>1
      <4>3. job[w].mem.status # "Processing" => job[w].mem.status \in FinalStatus
        BY <4>2 DEF CallbackOk, Row, RowStatus, FinalStatus
      <4>4. CASE Persists(w)
        BY <3>0, <3>a, <4>1, <4>2, <4>3, <4>4 DEF Persists, Same, CallbackOk, CallbackPc
      <4>5. CASE Stores(w)
        BY <3>0, <3>a, <4>1, <4>2, <4>3, <4>5, OwnRef DEF Stores, Same, CallbackOk, CallbackPc
      <4> QED
        BY <3>2, <4>4, <4>5
    <3>3. CASE Inquires(w) \/ Asks(w) \/ Caches(w) \/ Goes(w) \/ Notifies(w)
      BY <3>0, <3>3 DEF Inquires, Asks, Caches, Goes, Notifies, CallbackPc
    <3>4. CASE (Consumes(w) \/ Inserts(w)) /\ PayingNew(w)
      BY <3>0, <3>4 DEF Consumes, Inserts, Same, PayingNew, CallbackPc
    <3>5. ASSUME NEW i \in Id, Opens(w, i) PROVE goal
      BY <3>0, <3>5 DEF Opens
    <3>6. ASSUME NEW r \in Ref, Hears(w, r), order[r] \in {"paid", "failed"} PROVE goal
      <4>1. PICK p \in Targets(r) :
            /\ row[p].status \notin FinalStatus
            /\ job'[w].kind = "callback" /\ job'[w].id = inquiryOf[p] /\ job'[w].pay = p
            /\ job'[w].ref = Own(p)
            /\ job'[w].mem \in Row /\ job'[w].mem.ref = row[p].ref
            /\ \/ job'[w].pc = "persist" /\ job'[w].mem.status = Status(order[r])
               \/ job'[w].pc = "store" /\ job'[w].mem.status = row[p].status
        BY <3>0, <3>6 DEF Hears, CallbackPc
      <4>2. r \in cbs /\ inquiryOf' = inquiryOf /\ account' = account
        BY <3>6 DEF Hears
      <4>3. p \in Id /\ IsPayment(p) /\ \A u \in Worker : PayingNew(u) => job[u].pay # p
        BY <4>1, <4>2, TargetFacts
      <4>4. Status(order[r]) # "none" /\ row[p].status # "none" /\ row[p].ref \in {None, inquiryOf[p], p}
        BY <3>6, <4>3, <1>t DEF IdInv, Status
      <4>5. \A u \in Worker : PayingNew(u)' => u # w /\ PayingNew(u) /\ job'[u] = job[u]
        BY <3>0, <2>o DEF Others, PayingNew
      <4>6. job'[w].pc = "store" => job'[w].mem.status = "Processing"
        BY <4>1, <4>3, <4>4, <1>t DEF BillType, Row, RowStatus, FinalStatus
      <4>8. CallbackOk(w)'
        BY <4>1, <4>2, <4>3, <4>4, <4>6 DEF CallbackOk, IsPayment, Own
      <4>7. \A u \in Worker : PayingNew(u)' => job'[u].pay # job'[w].pay
        BY <4>1, <4>3, <4>5
      <4> QED
        BY <4>7, <4>8 DEF goal
    <3> QED
      BY <1>3, <3>1, <3>2, <3>3, <3>4, <3>5, <3>6 DEF WorkerEffect
  <2> QED
    BY <2>1, <2>2
<1> QED
  BY <1>1, <1>2, <1>3, Effects

\* A goroutine that handles a callback has handled it before, or has just
\* heard it.
HearsOf(w, r, p) ==
    /\ r \in cbs /\ cbs' = cbs \ {r} /\ p \in Targets(r)
    /\ UNCHANGED <<order, row, inquiryOf, account>>
    /\ job'[w].pay = p /\ row[p].status \notin FinalStatus
    /\ \/ job'[w].pc = "persist" /\ job'[w].mem.status = Status(order[r])
       \/ job'[w].pc = "store" /\ order[r] = "failed" /\ order[Own(p)] = "none"

LEMMA CallingKept ==
    ASSUME BillInv, NEW w \in Worker, WorkerEffect(w), NEW v \in Worker, Calling(v)'
    PROVE  \/ /\ Calling(v) /\ job'[v].pay = job[v].pay
              /\ job'[v].pc \in {"store", "pay"} => job[v].pc \in {"store", "pay"}
           \/ v = w /\ \E r \in Ref, p \in Id : HearsOf(w, r, p)
<1>1. CASE v # w
  BY <1>1, Ownership DEF Others, Calling
<1>2. CASE v = w
  <2> DEFINE goal == \/ /\ Calling(w) /\ job'[w].pay = job[w].pay
                        /\ job'[w].pc \in {"store", "pay"} => job[w].pc \in {"store", "pay"}
                     \/ \E r \in Ref, p \in Id : HearsOf(w, r, p)
  <2> SUFFICES goal
    BY <1>2
  <2>0. job'[w].pc \in CallbackPc /\ job'[w].kind = "callback"
    BY <1>2 DEF Calling
  <2>1. CASE Inquires(w) \/ Asks(w) \/ Caches(w) \/ Goes(w) \/ Notifies(w)
    BY <2>0, <2>1 DEF Inquires, Asks, Caches, Goes, Notifies, CallbackPc
  <2>2. CASE Pays(w) /\ (PayingNew(w) \/ Calling(w))
    BY <2>0, <2>2 DEF Pays, Same, PayingNew, Calling
  <2>3. CASE (Persists(w) \/ Stores(w)) /\ (PayingNew(w) \/ Calling(w))
    BY <2>0, <2>3 DEF Persists, Stores, Same, PayingNew, Calling, CallbackPc
  <2>4. CASE (Inserts(w) \/ Consumes(w)) /\ PayingNew(w)
    BY <2>0, <2>4 DEF Inserts, Consumes, Same, PayingNew, CallbackPc
  <2>5. ASSUME NEW i \in Id, Opens(w, i) PROVE goal
    BY <2>0, <2>5 DEF Opens
  <2>6. ASSUME NEW r \in Ref, Hears(w, r) PROVE goal
    <3>1. PICK p \in Targets(r) :
            /\ row[p].status \notin FinalStatus /\ job'[w].pay = p
            /\ \/ job'[w].pc = "persist" /\ job'[w].mem.status = Status(order[r])
               \/ job'[w].pc = "store" /\ order[r] = "failed" /\ order[Own(p)] = "none"
      BY <2>0, <2>6 DEF Hears, CallbackPc
    <3>2. r \in cbs /\ cbs' = cbs \ {r} /\ UNCHANGED <<order, row, inquiryOf, account>> /\ p \in Id
      BY <2>6, <3>1, TargetFacts DEF Hears
    <3> QED
      BY <3>1, <3>2 DEF HearsOf
  <2> HIDE DEF goal
  <2> QED
    BY <2>1, <2>2, <2>3, <2>4, <2>5, <2>6 DEF WorkerEffect
<1> QED
  BY <1>1, <1>2

\* Callbacks that are on their way: a goroutine takes them, sellers add them.
LEMMA CbsTaken ==
    ASSUME BillInv, NEW w \in Worker, WorkerEffect(w)
    PROVE  cbs' \subseteq cbs
<1>1. CASE \/ Inquires(w) \/ Asks(w) \/ Caches(w) \/ Goes(w) \/ Inserts(w) \/ Pays(w) \/ Persists(w)
           \/ Consumes(w) \/ Notifies(w) \/ Stores(w)
  BY <1>1 DEF Inquires, Asks, Caches, Goes, Inserts, Pays, Persists, Consumes, Notifies, Stores
<1>2. ASSUME NEW i \in Id \cup Ref, Opens(w, i) \/ Hears(w, i) PROVE cbs' \subseteq cbs
  BY <1>2 DEF Opens, Hears
<1> QED
  BY <1>1, <1>2 DEF WorkerEffect

\* Faults are counted, and the schema stays what it is.
LEMMA SoundKept ==
    ASSUME BillInv, NEW w \in Worker, WorkerEffect(w)
    PROVE  Up /\ unique' = unique /\ (Sound' => Sound)
<1>1. Up
  BY DEF WorkerEffect, Inquires, Asks, Caches, Goes, Opens, Inserts, Pays, Persists, Consumes, Notifies, Stores, Hears
<1>2. unique' = unique
  BY DEF WorkerEffect, Inquires, Asks, Caches, Goes, Opens, Inserts, Pays, Persists, Consumes, Notifies, Stores, Hears
<1>3. used'["switch"] = 0 => used["switch"] = 0
  BY <1>1 DEF Up, FaultKind, BillInv, BillType
<1> QED
  BY <1>1, <1>2, <1>3 DEF Sound

\* What is heard of, and what it says of the payment's two orders.
LEMMA HeardFacts ==
    ASSUME BillInv, Sound, NEW w \in Worker, NEW r \in Ref, NEW p \in Id, HearsOf(w, r, p)
    PROVE  /\ IsPayment(p) /\ inquiryOf[p] \in Id /\ order[r] \in {"paid", "failed"}
           /\ order[First(p)] \in {"paid", "failed"} /\ First(p) \notin cbs'
           /\ \/ r = First(p) /\ order[Own(p)] = "none" /\ \A v \in Worker : Calling(v) => job[v].pay # p
              \/ r = Own(p) /\ order[Own(p)] # "none" /\ order[First(p)] = "failed"
<1>1. /\ IsPayment(p) /\ inquiryOf[p] \in Id /\ order[r] \in {"paid", "failed"} /\ (r = First(p) \/ r = Own(p))
      /\ r \in cbs
  BY TargetFacts DEF HearsOf
<1>2. /\ order[Own(p)] # "none" => order[First(p)] = "failed" /\ First(p) \notin cbs
      /\ First(p) \in cbs => \A v \in Worker : Calling(v) => job[v].pay # p
  BY <1>1 DEF BillInv, OrdersInv
<1> QED
  BY <1>1, <1>2 DEF HearsOf

LEMMA OrdersStep == ASSUME BillInv, [Next]_vars PROVE OrdersInv'
<1>t. OrdersInv /\ BillType /\ IdInv
  BY DEF BillInv
<1>k. \A p \in Id : IsPayment(p) => First(p) \in Ref /\ Own(p) \in Ref
  BY FirstRef, OwnRef
<1>1. CASE UNCHANGED vars
  BY <1>1, <1>t DEF vars, OrdersInv, Retrying, Calling, IsPayment, First, Own, Sound
<1>2. ASSUME NEW i \in Ref, Settles(i) PROVE OrdersInv'
  <2>1. PICK o \in {"paid", "failed"} : order' = [order EXCEPT ![i] = o]
    BY <1>2 DEF Settles
  <2>2. order[i] = "pending" /\ cbs' \in {cbs, cbs \cup {i}} /\ UNCHANGED <<job, inquiryOf, account, unique, used>>
    BY <1>2 DEF Settles
  <2>3. order'[i] = o /\ \A r \in Ref : r # i => order'[r] = order[r]
    BY <2>1, <1>t DEF BillType
  <2>4. \A r \in cbs' : order'[r] \in {"paid", "failed"}
    BY <2>2, <2>3, <1>t DEF OrdersInv, BillType
  <2>5. ASSUME NEW p \in Id, IsPayment(p), Sound
        PROVE  /\ order'[Own(p)] # "none" => order'[First(p)] = "failed" /\ First(p) \notin cbs'
               /\ First(p) \in cbs' \/ order'[First(p)] \in {"none", "pending"} =>
                     \A w \in Worker : Calling(w) => job[w].pay # p
               /\ \A w \in Worker : Retrying(w, p) => order'[First(p)] = "failed"
    BY <1>k, <2>2, <2>3, <2>5, <1>t DEF OrdersInv
  <2> QED
    BY <2>2, <2>4, <2>5 DEF OrdersInv, Retrying, Calling, IsPayment, First, Own, Sound
<1>3. ASSUME NEW i \in Id, Expires(i) PROVE OrdersInv'
  BY <1>3, <1>t DEF Expires, OrdersInv, Retrying, Calling, IsPayment, First, Own, Sound
<1>4. ASSUME NEW w \in Worker, WorkerEffect(w) PROVE OrdersInv'
  <2>1. \A r \in Ref : order[r] # "none" => order'[r] = order[r]
    BY <1>4, <1>t, OrdersChange DEF BillType
  <2>2. \A r \in cbs' : order'[r] \in {"paid", "failed"}
    BY <1>4, <1>t, <2>1, CbsTaken DEF OrdersInv, BillType
  <2>3. ASSUME NEW p \in Id, IsPayment(p), Sound'
        PROVE  /\ First(p)' = First(p) /\ Own(p)' = Own(p)
               /\ order'[Own(p)] # "none" => order'[First(p)] = "failed" /\ First(p) \notin cbs'
               /\ First(p) \in cbs' \/ order'[First(p)] \in {"none", "pending"} =>
                     \A v \in Worker : Calling(v)' => job'[v].pay # p
               /\ \A v \in Worker : Retrying(v, p)' => order'[First(p)] = "failed"
    <3> DEFINE i == First(p)
               k == Own(p)
    <3>1. First(p)' = i /\ Own(p)' = k /\ i \in Ref /\ k \in Ref /\ k[2] = p /\ Sound
      BY <1>4, <1>k, <2>3, PaymentsStay, SoundKept, OwnRef
    <3>i. /\ order[k] # "none" => order[i] = "failed" /\ i \notin cbs
          /\ i \in cbs \/ order[i] \in {"none", "pending"} => \A v \in Worker : Calling(v) => job[v].pay # p
          /\ \A v \in Worker : Retrying(v, p) => order[i] = "failed"
      BY <2>3, <3>1, <1>t DEF OrdersInv
    <3> HIDE DEF i, k
    <3>2. order'[k] # "none" => order'[i] = "failed" /\ i \notin cbs'
      <4>1. CASE order[k] # "none"
        BY <1>4, <2>1, <3>1, <3>i, <4>1, CbsTaken
      <4>2. CASE order[k] = "none" /\ order'[k] # "none"
        <5>1. Pays(w) /\ job[w].ref = k /\ (PayingNew(w) \/ Calling(w))
          BY <1>4, <3>1, <4>2, <1>t, OrdersChange DEF BillType
        <5>2. ~(PayingNew(w) /\ job[w].pc # "insert")
          BY <2>3, <3>1, <5>1, <1>t DEF BillInv, PaymentInv, PaymentOk, IdInv, First
        <5>3. Calling(w) /\ job[w].pay = p /\ job[w].pc = "pay"
          BY <3>1, <5>1, <5>2, OwnRef DEF Pays, BillInv, CallbackInv, CallbackOk
        <5> QED
          BY <1>4, <2>1, <3>1, <3>i, <5>3, CbsTaken DEF Retrying
      <4> QED
        BY <4>1, <4>2
    <3>3. ASSUME NEW v \in Worker, Calling(v)', job'[v].pay = p
          PROVE  ~(i \in cbs' \/ order'[i] \in {"none", "pending"})
      <4>1. CASE Calling(v) /\ job[v].pay = p
        <5>1. i \notin cbs /\ order[i] \notin {"none", "pending"}
          BY <3>i, <4>1
        <5> QED
          BY <1>4, <2>1, <3>1, <5>1, CbsTaken
      <4>2. ASSUME NEW r \in Ref, HearsOf(w, r, p) PROVE ~(i \in cbs' \/ order'[i] \in {"none", "pending"})
        BY <3>1, <4>2, HeardFacts DEF HearsOf, i
      <4> QED
        BY <1>4, <3>3, <4>1, <4>2, CallingKept DEF HearsOf
    <3>4. ASSUME NEW v \in Worker, Retrying(v, p)' PROVE order'[i] = "failed"
      <4>0. Calling(v)' /\ job'[v].pay = p /\ job'[v].pc \in {"store", "pay"}
        BY <3>4 DEF Retrying
      <4>1. CASE Calling(v) /\ job[v].pay = p /\ job[v].pc \in {"store", "pay"}
        BY <2>1, <3>1, <3>i, <4>1 DEF Retrying
      <4>2. ASSUME NEW r \in Ref, HearsOf(w, r, p), v = w PROVE order'[i] = "failed"
        BY <3>1, <4>0, <4>2, HeardFacts DEF HearsOf, i
      <4> QED
        BY <1>4, <4>0, <4>1, <4>2, CallingKept DEF HearsOf
    <3> QED
      BY <3>1, <3>2, <3>3, <3>4 DEF i, k
  \* A payment that has just been inserted.
  <2>4. ASSUME NEW p \in Id, ~IsPayment(p), IsPayment(p)'
        PROVE  /\ order'[Own(p)'] = "none"
               /\ \A v \in Worker : Calling(v)' => job'[v].pay # p
    <3>1. PayingNew(w) /\ job[w].pc = "insert" /\ p = job[w].pay /\ Inserts(w)
      BY <1>4, <2>4, PaymentsStay, NewPayments DEF IsPayment
    <3>2. (\A s \in Seller : order[<<s, p>>] = "none") /\ \A v \in Worker : Calling(v) => job[v].pay # p
      BY <3>1 DEF BillInv, PaymentInv, PaymentOk, CallbackInv
    <3>3. order' = order
      BY <3>1 DEF Inserts
    <3>4. \A v \in Worker : Calling(v)' => Calling(v) /\ job'[v].pay = job[v].pay
      BY <1>4, <2>4, <3>1, CallingKept DEF HearsOf, IsPayment
    <3>5. Own(p)' \in {<<s, p>> : s \in Seller}
      BY DEF Own, Seller, Legacy
    <3> QED
      BY <3>2, <3>3, <3>4, <3>5
  <2>5. ASSUME NEW p \in Id, IsPayment(p)', Sound'
        PROVE  /\ order'[Own(p)'] # "none" => order'[First(p)'] = "failed" /\ First(p)' \notin cbs'
               /\ First(p)' \in cbs' \/ order'[First(p)'] \in {"none", "pending"} =>
                     \A v \in Worker : Calling(v)' => job'[v].pay # p
               /\ \A v \in Worker : Retrying(v, p)' => order'[First(p)'] = "failed"
    <3>1. CASE IsPayment(p)
      BY <2>3, <2>5, <3>1
    <3>2. CASE ~IsPayment(p)
      BY <2>4, <2>5, <3>2 DEF Retrying
    <3> QED
      BY <3>1, <3>2
  <2> QED
    BY <2>2, <2>5 DEF OrdersInv, IsPayment
<1> QED
  BY <1>1, <1>2, <1>3, <1>4, Effects

\* What was paid stays paid.
LEMMA PaidStays ==
    ASSUME BillInv, NEW w \in Worker, WorkerEffect(w), NEW p \in Id, IsPayment(p), Paid(p)
    PROVE  Paid(p)'
<1>1. \A r \in Ref : order[r] # "none" => order'[r] = order[r]
  BY OrdersChange DEF BillInv, BillType
<1>2. First(p)' = First(p) /\ Own(p)' = Own(p) /\ First(p) \in Ref /\ Own(p) \in Ref
  BY PaymentsStay, FirstRef, OwnRef
<1> QED
  BY <1>1, <1>2 DEF Paid

\* What was not paid is not going to be: a callback that could start another
\* purchase finds the row of the payment closed, or does not find it.
LEMMA UnpaidStays ==
    ASSUME BillInv, Sound, NEW w \in Worker, WorkerEffect(w), NEW p \in Id, IsPayment(p), Unpaid(p),
           PayingNew(w) /\ job[w].pay = p /\ job[w].pc = "persist" => job[w].mem.status \in FinalStatus
    PROVE  Unpaid(p)'
<1>t. BillType /\ OrdersInv /\ IdInv
  BY DEF BillInv
<1> DEFINE i == First(p)
           k == Own(p)
<1>1. First(p)' = i /\ i \in Ref /\ ~IsPayment(i[2]) /\ i[2] \in Id /\ Own(p)' = k /\ k \in Ref /\ k[2] = p
  BY PaymentsStay, FirstRef, OwnRef
<1>2. \A r \in Ref : order[r] # "none" => order'[r] = order[r]
  BY OrdersChange, <1>t DEF BillType
<1>3. order'[i] = "failed"
  BY <1>1, <1>2 DEF Unpaid
<1>4. CASE order[k] = "failed"
  BY <1>1, <1>2, <1>3, <1>4 DEF Unpaid
<1>5. CASE order[k] = "none" /\ NoRetry(p)
  <2> HIDE DEF i, k
  <2>1. order'[k] = "none"
    <3>1. SUFFICES ASSUME Pays(w) /\ job[w].ref = k /\ (PayingNew(w) \/ Calling(w)) PROVE FALSE
      BY <1>1, <1>5, <1>t, OrdersChange DEF BillType
    <3>2. ~PayingNew(w)
      BY <1>1, <1>t, <3>1 DEF Pays, BillInv, PaymentInv, PaymentOk, IdInv, First
    <3>3. Retrying(w, p)
      BY <1>1, <3>1, <3>2, OwnRef DEF Pays, Retrying, BillInv, CallbackInv, CallbackOk
    <3> QED
      BY <1>5, <3>3 DEF NoRetry
  <2>2. ASSUME NEW v \in Worker, Retrying(v, p)' PROVE FALSE
    <3>1. Calling(v)' /\ job'[v].pay = p /\ job'[v].pc \in {"store", "pay"} /\ ~Retrying(v, p)
      BY <1>5, <2>2 DEF Retrying, NoRetry
    <3>2. \E r \in Ref, q \in Id : HearsOf(w, r, q) /\ v = w
      BY <3>1, CallingKept DEF Retrying
    <3>3. PICK r \in Ref : HearsOf(w, r, p) /\ v = w
      BY <3>1, <3>2 DEF HearsOf
    <3>4. r = i
      BY <1>5, <3>3, HeardFacts DEF i, k
    <3>5. row[p].ref = i[2] /\ i \in cbs /\ row[p].status \notin FinalStatus
      <4>1. row[i[2]].status = "none"
        BY <1>1, <1>t DEF IdInv
      <4> QED
        BY <3>3, <3>4, <4>1 DEF HearsOf, Targets, Named
    <3> QED
      BY <1>1, <1>5, <3>5, ConstAssumption DEF NoRetry, i
  <2>3. ASSUME i \in cbs' PROVE row'[p].status \in FinalStatus \/ row'[p].ref = None
    <3>1. i \in cbs
      BY <2>3, CbsTaken
    <3>2. row[p].status \in FinalStatus \/ row[p].ref = None
      BY <1>5, <3>1 DEF NoRetry, i
    <3>3. CASE row'[p] = row[p]
      BY <3>2, <3>3
    <3>4. CASE row'[p] # row[p]
      <4>1. PayingNew(w) /\ job[w].pay = p
        <5>1. \A v \in Worker : Calling(v) => job[v].pay # p
          BY <3>1, <1>t DEF OrdersInv, i
        <5> QED
          BY <3>4, <5>1, OwnOnly
      <4>2. job[w].pc # "insert"
        BY <4>1 DEF BillInv, PaymentInv, PaymentOk
      <4>3. (Persists(w) \/ Notifies(w)) /\ ~Calling(w)
        <5>1. ~Calling(w)
          BY <4>1 DEF PayingNew, Calling
        <5>2. CASE \/ Inquires(w) \/ Asks(w) \/ Caches(w) \/ Goes(w) \/ Inserts(w) \/ Pays(w)
                   \/ Consumes(w)
          BY <3>4, <4>2, <5>2 DEF Inquires, Asks, Caches, Goes, Inserts, Pays, Consumes
        <5>3. ASSUME NEW n \in Id \cup Ref, Opens(w, n) \/ Hears(w, n) PROVE FALSE
          BY <3>4, <5>3 DEF Opens, Hears
        <5> QED
          BY <5>1, <5>2, <5>3 DEF WorkerEffect
      <4>4. job[w].mem.status \in FinalStatus
        BY <4>1, <4>3 DEF Persists, Notifies, BillInv, PaymentInv, PaymentOk
      <4> QED
        BY <3>4, <4>1, <4>3, <4>4, <1>t DEF Persists, Notifies, BillType
    <3> QED
      BY <3>3, <3>4
  <2> QED
    BY <1>1, <1>3, <2>1, <2>2, <2>3 DEF Unpaid, NoRetry
<1> QED
  BY <1>4, <1>5 DEF Unpaid

LEMMA TrueStays ==
    ASSUME BillInv, NEW w \in Worker, WorkerEffect(w), NEW p \in Id, IsPayment(p),
           NEW status \in RowStatus, True(p, status),
           status = "Failed" /\ PayingNew(w) /\ job[w].pay = p /\ job[w].pc = "persist"
             => job[w].mem.status \in FinalStatus
    PROVE  True(p, status)'
<1>1. used["net"] \in Nat /\ used'["net"] \in Nat /\ used'["net"] >= used["net"]
  <2>1. Up
    BY SoundKept
  <2> QED
    BY <2>1 DEF Up, FaultKind, BillInv, BillType
<1>2. Sound' /\ status = "Success" => Paid(p)'
  BY PaidStays, SoundKept DEF True
<1>3. ASSUME Sound' /\ status = "Failed" /\ used'["net"] = 0 PROVE Unpaid(p)'
  BY <1>1, <1>3, UnpaidStays, SoundKept DEF True
<1> QED
  BY <1>2, <1>3 DEF True

Tells(v) == (PayingNew(v) \/ Calling(v)) /\ job[v].pc \in {"persist", "consume", "notify"}

LEMMA TellsFacts ==
    ASSUME BillInv, NEW v \in Worker, Tells(v)
    PROVE  job[v].pay \in Id /\ IsPayment(job[v].pay) /\ job[v].mem \in Row /\ job[v].mem.status \in RowStatus
<1>1. job[v].pc # "insert"
  BY DEF Tells
<1>2. job[v].pay \in Id /\ job[v].mem \in Row
  BY <1>1, JobFacts DEF Tells
<1>3. known \subseteq Id /\ None \notin Id
  BY ConstAssumption DEF BillInv, BillType
<1>4. IsPayment(job[v].pay)
  BY <1>1, <1>3 DEF Tells, BillInv, PaymentInv, PaymentOk, CallbackInv, CallbackOk, IsPayment
<1> QED
  BY <1>2, <1>4 DEF Row

\* The answer a goroutine has just got, or a callback it has just heard, is true.
LEMMA NewAnswers ==
    ASSUME BillInv, NEW w \in Worker, WorkerEffect(w), Tells(w)',
           NEW p \in Id, p = job'[w].pay, NEW s \in RowStatus, s = job'[w].mem.status
    PROVE  True(p, s)'
<1>t. BillType /\ OrdersInv /\ IdInv /\ TruthInv
  BY DEF BillInv
<1>0. job'[w].pc \in {"persist", "consume", "notify"}
  BY DEF Tells
<1>o. \A r \in Ref : order[r] # "none" => order'[r] = order[r]
  BY OrdersChange, <1>t DEF BillType
<1> DEFINE goal == True(p, s)'
<1> SUFFICES goal
  OBVIOUS
<1>1. CASE Pays(w) /\ PayingNew(w)
  <2> DEFINE i == job[w].ref
  <2>1. /\ job[w].pay = p /\ PaymentOk(w) /\ i = First(p) /\ i \in Ref /\ i[2] \in known /\ p \notin known
        /\ row[p].ref = None /\ order[Own(p)] = "none" /\ UNCHANGED <<row, inquiryOf, account, cbs>>
        /\ Own(p) # i /\ Own(p) \in Ref
    <3>1. job[w].pay = p /\ PaymentOk(w) /\ job[w].pc = "pay" /\ UNCHANGED <<row, inquiryOf, account, cbs>>
      BY <1>1 DEF Pays, Same, BillInv, PaymentInv
    <3>2. p \notin known
      BY <1>1, <3>1 DEF BillInv, OwnerInv, Owner, OwnId, PayingNew, Inquiring, PaymentPc, InquiryPc
    <3>3. i = First(p) /\ i \in Ref /\ i[2] = job[w].id /\ i[2] \in known /\ row[p].ref = None
      BY <1>1, <3>1, JobFacts DEF PaymentOk, First
    <3>4. Own(p) \in Ref /\ Own(p)[2] = p /\ Own(p)[1] \in Seller /\ Own(p) = <<Own(p)[1], p>>
      BY OwnRef DEF Own, Seller, Legacy
    <3>5. order[Own(p)] = "none"
      BY <3>1, <3>4 DEF PaymentOk
    <3> QED
      BY <3>1, <3>2, <3>3, <3>4, <3>5
  <2>2. \A v \in Worker : ~Retrying(v, p)'
    <3>1. \A v \in Worker : Calling(v) => job[v].pay # p
      BY <1>1, <2>1 DEF BillInv, CallbackInv
    <3>2. \A v \in Worker : v # w => (Calling(v)' <=> Calling(v)) /\ job'[v] = job[v]
      BY <1>1 DEF Pays, Others, Calling
    <3>3. job'[w].pc \notin {"store", "pay"}
      BY <1>0
    <3> QED
      BY <3>1, <3>2, <3>3 DEF Retrying
  <2>3. order'[Own(p)] = "none"
    BY <1>1, <1>t, <2>1 DEF Pays, Requested, BillType
  <2>4. order'[i] \in OrderState
    BY <1>1, <1>t, <2>1 DEF Pays, Requested, BillType, OrderState
  <2>5. CASE order'[i] # "none" /\ s = Status(order'[i])
    <3>1. s = "Success" => order'[i] = "paid"
      BY <2>4, <2>5 DEF Status, OrderState
    <3>2. s = "Failed" => order'[i] = "failed"
      BY <2>4, <2>5 DEF Status, OrderState
    <3> HIDE DEF i
    <3>3. s = "Success" => Paid(p)'
      BY <2>1, <3>1 DEF Paid, First, Own
    <3>4. s = "Failed" => Unpaid(p)'
      <4>1. First(p)' = First(p) /\ Own(p)' = Own(p)
        BY <2>1 DEF First, Own
      <4>2. ASSUME First(p) \in cbs' PROVE row'[p].ref = None
        BY <2>1
      <4> QED
        BY <2>1, <2>2, <2>3, <3>2, <4>1, <4>2 DEF Unpaid, NoRetry
    <3> QED
      BY <3>3, <3>4 DEF True
  <2>6. CASE s = "Processing"
    BY <2>6 DEF True
  <2>7. CASE s = "Failed" /\ used'["net"] > 0
    BY <2>7 DEF True
  <2> HIDE DEF goal
  <2>8. \/ order'[i] # "none" /\ s = Status(order'[i])
        \/ s = "Processing"
        \/ s = "Failed" /\ used'["net"] > 0
    BY <1>1 DEF Pays
  <2> HIDE DEF i
  <2> QED
    BY <2>5, <2>6, <2>7, <2>8
<1>2. CASE Pays(w) /\ Calling(w)
  <2> DEFINE i == First(p)
             k == Own(p)
  <2>1. /\ job[w].pay = p /\ job[w].ref = k /\ k \in Ref /\ UNCHANGED <<row, inquiryOf, account, cbs>>
        /\ First(p)' = i /\ Own(p)' = k /\ (Sound => order'[i] = "failed")
    <3>1. job[w].pay = p /\ CallbackOk(w) /\ job[w].pc = "pay" /\ UNCHANGED <<row, inquiryOf, account, cbs>> /\ Retrying(w, p)
      BY <1>2 DEF Pays, Same, BillInv, CallbackInv, Retrying
    <3>2. IsPayment(p) /\ job[w].ref = k /\ k \in Ref /\ i \in Ref
      BY <3>1, OwnRef, FirstRef DEF CallbackOk
    <3>3. Sound => order[i] = "failed"
      BY <1>t, <3>1, <3>2 DEF OrdersInv
    <3>4. First(p)' = i /\ Own(p)' = k
      BY <3>1 DEF First, Own
    <3> HIDE DEF i, k
    <3> QED
      BY <1>o, <3>1, <3>2, <3>3, <3>4
  <2>4. order'[k] \in OrderState
    BY <1>2, <1>t, <2>1 DEF Pays, Requested, BillType, OrderState
  <2>s. Sound' => Sound
    BY SoundKept
  <2>5. CASE order'[k] # "none" /\ s = Status(order'[k])
    <3>1. s = "Success" => order'[k] = "paid"
      BY <2>4, <2>5 DEF Status, OrderState
    <3>2. s = "Failed" => order'[k] = "failed"
      BY <2>4, <2>5 DEF Status, OrderState
    <3> HIDE DEF i, k
    <3>3. s = "Success" => Paid(p)'
      BY <2>1, <3>1 DEF Paid
    <3>4. Sound' /\ s = "Failed" => Unpaid(p)'
      BY <2>1, <2>s, <3>2 DEF Unpaid
    <3> QED
      BY <3>3, <3>4 DEF True
  <2>6. CASE s = "Processing"
    BY <2>6 DEF True
  <2>7. CASE s = "Failed" /\ used'["net"] > 0
    BY <2>7 DEF True
  <2> HIDE DEF i, k, goal
  <2>8. \/ order'[k] # "none" /\ s = Status(order'[k])
        \/ s = "Processing"
        \/ s = "Failed" /\ used'["net"] > 0
    BY <1>2, <2>1 DEF Pays
  <2> QED
    BY <2>5, <2>6, <2>7, <2>8
<1>3. CASE (Persists(w) \/ Consumes(w)) /\ (PayingNew(w) \/ Calling(w))
  <2>1. job[w].pc \in {"persist", "consume"} /\ job[w].pay = p /\ job[w].mem.status = s
    BY <1>0, <1>3 DEF Persists, Consumes, Same
  <2>2. Tells(w)
    BY <1>3, <2>1 DEF Tells
  <2>3. IsPayment(p) /\ True(p, s)
    BY <1>t, <2>1, <2>2, TellsFacts DEF TruthInv, Tells
  <2>4. s = "Failed" => job[w].mem.status \in FinalStatus
    BY <2>1 DEF FinalStatus
  <2> QED
    BY <2>3, <2>4, TrueStays
<1>4. ASSUME NEW r \in Ref, Hears(w, r) PROVE goal
  <2>1. Calling(w)' /\ ~Calling(w)
    BY <1>0, <1>4, JobFacts DEF Hears, Calling, CallbackPc
  <2>2. PICK q \in Id, t \in Ref : HearsOf(w, t, q)
    BY <2>1, CallingKept
  <2>3. q = p /\ s = Status(order[t]) /\ UNCHANGED <<order, row, inquiryOf, account>> /\ First(p)' = First(p) /\ Own(p)' = Own(p)
    BY <1>0, <2>2 DEF HearsOf, First, Own
  <2>s. SUFFICES ASSUME Sound' PROVE goal
    BY DEF True
  <2>4. /\ IsPayment(p) /\ inquiryOf[p] \in Id /\ order[t] \in {"paid", "failed"}
        /\ order[First(p)] \in {"paid", "failed"} /\ First(p) \notin cbs'
        /\ \/ t = First(p) /\ order[Own(p)] = "none" /\ \A v \in Worker : Calling(v) => job[v].pay # p
           \/ t = Own(p) /\ order[Own(p)] # "none" /\ order[First(p)] = "failed"
    BY <2>s, <2>2, <2>3, HeardFacts, SoundKept
  <2>5. s = "Success" => order[t] = "paid"
    BY <2>3, <2>4 DEF Status
  <2>6. s = "Failed" => order[t] = "failed"
    BY <2>3, <2>4 DEF Status
  <2>7. s = "Success" => Paid(p)'
    BY <2>3, <2>4, <2>5 DEF Paid
  <2>8. ASSUME s = "Failed" PROVE Unpaid(p)'
    <3>1. CASE t = Own(p) /\ order[First(p)] = "failed"
      BY <2>3, <2>4, <2>6, <2>8, <3>1 DEF Unpaid
    <3>2. CASE t = First(p) /\ order[Own(p)] = "none" /\ \A v \in Worker : Calling(v) => job[v].pay # p
      <4>1. \A v \in Worker : ~Retrying(v, p)'
        <5>1. \A v \in Worker : v # w => (Calling(v)' <=> Calling(v)) /\ job'[v] = job[v]
          BY <1>4 DEF Hears, Others, Calling
        <5>2. job'[w].pc \notin {"store", "pay"}
          BY <1>0
        <5> QED
          BY <3>2, <5>1, <5>2 DEF Retrying
      <4> QED
        BY <2>3, <2>4, <2>6, <2>8, <3>2, <4>1 DEF Unpaid, NoRetry
    <3> QED
      BY <2>4, <3>1, <3>2
  <2> QED
    BY <2>7, <2>8 DEF True
<1>5. CASE Inquires(w) \/ Asks(w) \/ Caches(w) \/ Goes(w) \/ Notifies(w)
  BY <1>0, <1>5 DEF Inquires, Asks, Caches, Goes, Notifies, Tells, PayingNew, Calling, PaymentPc, CallbackPc
<1>6. CASE (Inserts(w) /\ PayingNew(w)) \/ (Stores(w) /\ Calling(w))
  BY <1>0, <1>6 DEF Inserts, Stores
<1>7. ASSUME NEW i \in Id, Opens(w, i) PROVE goal
  BY <1>0, <1>7 DEF Opens
<1> HIDE DEF goal
<1> QED
  BY <1>1, <1>2, <1>3, <1>4, <1>5, <1>6, <1>7 DEF WorkerEffect

LEMMA TruthStep == ASSUME BillInv, [Next]_vars PROVE TruthInv'
<1>t. TruthInv /\ BillType /\ IdInv
  BY DEF BillInv
<1>e. /\ \A p \in Id : IsPayment(p) => True(p, row[p].status)
      /\ \A v \in Worker : Tells(v) => True(job[v].pay, job[v].mem.status)
  BY <1>t DEF TruthInv, Tells
\* It is enough to look at one payment, and at one value its row or a
\* goroutine gives to its status.
<1>p. ASSUME \A p \in Id, s \in RowStatus : IsPayment(p)' /\ s = row'[p].status => True(p, s)',
             \A v \in Worker, p \in Id, s \in RowStatus :
               Tells(v)' /\ p = job'[v].pay /\ s = job'[v].mem.status => True(p, s)',
             BillType', \A v \in Worker : Tells(v)' => job'[v].pay \in Id /\ job'[v].mem.status \in RowStatus
      PROVE  TruthInv'
  <2>1. \A p \in Id : IsPayment(p)' => True(p, row[p].status)'
    BY <1>p DEF BillType, Row, True
  <2>2. \A v \in Worker : Tells(v)' => True(job[v].pay, job[v].mem.status)'
    BY <1>p DEF True, Paid, Unpaid, NoRetry, Retrying, First, Own
  <2> QED
    BY <2>1, <2>2 DEF TruthInv, Tells
<1>b. BillType' /\ IdInv' /\ PaymentInv' /\ CallbackInv' /\ OwnerInv'
  BY TypeStep, IdStep, PaymentStep, CallbackStep, OwnerStep
<1>q. \A v \in Worker : Tells(v)' => job'[v].pay \in Id /\ job'[v].mem.status \in RowStatus
  <2> SUFFICES ASSUME NEW v \in Worker, Tells(v)'
               PROVE  job'[v].pay \in Id /\ job'[v].mem.status \in RowStatus
    OBVIOUS
  <2>1. CASE PayingNew(v)'
    <3>1. job'[v].mem \in Row
      BY <1>b, <2>1 DEF Tells, PaymentInv, PaymentOk
    <3>2. Owner(v)' /\ OwnId(v)' = job'[v].pay
      BY <2>1 DEF Owner, OwnId, PayingNew, Inquiring, PaymentPc, InquiryPc
    <3> QED
      BY <1>b, <3>1, <3>2 DEF OwnerInv, Row
  <2>2. CASE Calling(v)'
    BY <1>b, <2>2 DEF CallbackInv, CallbackOk, Row
  <2> QED
    BY <2>1, <2>2 DEF Tells
<1>1. CASE UNCHANGED vars
  BY <1>1, <1>t DEF vars, TruthInv, True, Paid, Unpaid, NoRetry, Retrying, PayingNew, Calling, IsPayment, First, Own, Sound
<1>2. ASSUME NEW r \in Id \cup Ref, Settles(r) \/ Expires(r) PROVE TruthInv'
  <2>1. UNCHANGED <<job, row, inquiryOf, account, unique, used>>
    BY <1>2 DEF Settles, Expires
  <2>2. \A q \in Ref : order[q] # "pending" => order'[q] = order[q]
    BY <1>2, <1>t DEF Settles, Expires, BillType
  <2>3. \A q \in cbs' : q \in cbs \/ order[q] = "pending"
    BY <1>2 DEF Settles, Expires
  <2>4. \A p \in Id : IsPayment(p) => /\ First(p) \in Ref /\ Own(p) \in Ref
                                      /\ First(p)' = First(p) /\ Own(p)' = Own(p)
    BY <2>1, FirstRef, OwnRef DEF First, Own
  <2>5. ASSUME NEW p \in Id, IsPayment(p), NEW s \in RowStatus, True(p, s) PROVE True(p, s)'
    <3>1. Paid(p) => Paid(p)'
      BY <2>1, <2>2, <2>4, <2>5 DEF Paid
    <3>2. ASSUME Unpaid(p) PROVE Unpaid(p)'
      <4>1. order'[First(p)] = "failed" /\ order'[Own(p)] = order[Own(p)]
        BY <2>1, <2>2, <2>4, <2>5, <3>2 DEF Unpaid
      <4>2. NoRetry(p) => NoRetry(p)'
        BY <2>1, <2>3, <2>4, <2>5, <3>2 DEF Unpaid, NoRetry, Retrying, Calling
      <4> QED
        BY <2>4, <2>5, <3>2, <4>1, <4>2 DEF Unpaid
    <3> QED
      BY <2>1, <2>5, <3>1, <3>2 DEF True, Sound
  <2>6. \A p \in Id, s \in RowStatus : IsPayment(p)' /\ s = row'[p].status => True(p, s)'
    BY <1>e, <2>1, <2>5 DEF IsPayment
  <2>7. \A v \in Worker, p \in Id, s \in RowStatus :
          Tells(v)' /\ p = job'[v].pay /\ s = job'[v].mem.status => True(p, s)'
    BY <1>e, <2>1, <2>5, TellsFacts DEF Tells, PayingNew, Calling
  <2> QED
    BY <1>b, <1>p, <1>q, <2>6, <2>7
<1>3. ASSUME NEW w \in Worker, WorkerEffect(w) PROVE TruthInv'
  \* A payment in progress: its row is neither paid nor failed.
  <2>1. ASSUME NEW p \in Id, NEW s \in RowStatus, IsPayment(p)', s = row'[p].status
        PROVE  True(p, s)'
    <3>1. CASE row'[p] = row[p] /\ IsPayment(p)
      <4>1. True(p, s)
        BY <1>e, <2>1, <3>1
      <4>2. PayingNew(w) /\ job[w].pay = p /\ job[w].pc = "persist" => s = "Processing"
        BY <2>1, <3>1 DEF BillInv, PaymentInv, PaymentOk
      <4> QED
        BY <1>3, <3>1, <4>1, <4>2, TrueStays
    <3>2. CASE row'[p] # row[p] \/ ~IsPayment(p)
      <4>1. (PayingNew(w) \/ Calling(w)) /\ p = job[w].pay
        BY <1>3, <2>1, <3>2, OwnOnly, PaymentsStay
      <4>2. CASE Inserts(w)
        <5>1. row'[p].status = "Processing"
          BY <2>1, <3>2, <4>1, <4>2 DEF Inserts, IsPayment
        <5> QED
          BY <2>1, <5>1 DEF True
      <4>3. CASE (Persists(w) \/ Notifies(w)) /\ row' = [row EXCEPT ![p] = job[w].mem]
        <5>1. s = job[w].mem.status /\ Tells(w) /\ IsPayment(p)
          BY <1>t, <2>1, <4>1, <4>3, TellsFacts DEF Persists, Notifies, Tells, BillType
        <5>2. True(p, s)
          BY <1>e, <4>1, <5>1
        <5>3. s = "Failed" => job[w].mem.status \in FinalStatus
          BY <5>1 DEF FinalStatus
        <5> QED
          BY <1>3, <5>1, <5>2, <5>3, TrueStays
      <4>4. CASE Stores(w) /\ Calling(w) /\ row' = [row EXCEPT ![p] = job'[w].mem]
        <5>1. s = "Processing"
          BY <1>t, <2>1, <4>4 DEF Stores, BillInv, CallbackInv, CallbackOk, BillType
        <5> QED
          BY <5>1 DEF True
      <4>5. Inserts(w) \/ ((Persists(w) \/ Notifies(w)) /\ row' = [row EXCEPT ![p] = job[w].mem])
            \/ (Stores(w) /\ Calling(w) /\ row' = [row EXCEPT ![p] = job'[w].mem])
        <5>0. row' # row \/ inquiryOf' # inquiryOf
          BY <2>1, <3>2 DEF IsPayment
        <5>1. ~\E i \in Id \cup Ref : Opens(w, i) \/ Hears(w, i)
          BY <5>0 DEF Opens, Hears
        <5>2. ~(Inquires(w) \/ Asks(w) \/ Caches(w) \/ Goes(w) \/ Pays(w) \/ Consumes(w))
          BY <5>0 DEF Inquires, Asks, Caches, Goes, Pays, Consumes
        <5>3. Inserts(w) \/ Persists(w) \/ Notifies(w) \/ (Stores(w) /\ Calling(w))
          BY <1>3, <5>1, <5>2 DEF WorkerEffect
        <5> QED
          BY <4>1, <5>0, <5>3 DEF Persists, Notifies, Stores
      <4> QED
        BY <4>2, <4>3, <4>4, <4>5
    <3> QED
      BY <3>1, <3>2
  <2>2. ASSUME NEW v \in Worker, NEW p \in Id, NEW s \in RowStatus,
               Tells(v)', p = job'[v].pay, s = job'[v].mem.status
        PROVE  True(p, s)'
    <3>1. CASE v = w
      BY <1>3, <2>2, <3>1, NewAnswers
    <3>2. CASE v # w
      <4>1. job'[v] = job[v] /\ Tells(v)
        BY <1>3, <2>2, <3>2, Ownership DEF Others, Tells, PayingNew, Calling
      <4>2. IsPayment(p) /\ True(p, s)
        BY <1>e, <2>2, <4>1, TellsFacts
      <4>3. ~(PayingNew(w) /\ job[w].pay = p)
        <5>1. CASE PayingNew(v)
          BY <1>3, <2>2, <3>2, <4>1, <5>1, OtherRows
        <5>2. CASE Calling(v)
          BY <2>2, <4>1, <5>2 DEF BillInv, CallbackInv
        <5> QED
          BY <4>1, <5>1, <5>2 DEF Tells
      <4> QED
        BY <1>3, <4>2, <4>3, TrueStays
    <3> QED
      BY <3>1, <3>2
  <2> QED
    BY <1>b, <1>p, <1>q, <2>1, <2>2
<1> QED
  BY <1>1, <1>2, <1>3, Effects

LEMMA QuoteStep == ASSUME BillInv, [Next]_vars PROVE QuoteInv'
<1>t. QuoteInv /\ BillType /\ IdInv
  BY DEF BillInv
<1>1. CASE UNCHANGED vars
  BY <1>1, <1>t DEF vars, QuoteInv, AccountInv, IsPayment
<1>2. ASSUME NEW i \in Id \cup Ref, Settles(i) \/ Expires(i) PROVE QuoteInv'
  BY <1>2, <1>t DEF Settles, Expires, QuoteInv, AccountInv, IsPayment, BillType
<1>3. ASSUME NEW w \in Worker, WorkerEffect(w) PROVE QuoteInv'
  <2>1. ASSUME NEW i \in Id, primary'[i] # None, primary'[i].ok PROVE primary'[i].seller = quoted'[i]
    <3>1. CASE primary'[i] \in {primary[i], None}
      <4>1. primary'[i] = primary[i] /\ primary[i].seller = quoted[i]
        BY <1>t, <2>1, <3>1 DEF QuoteInv
      <4>2. ~(Asks(w) /\ Inquiring(w) /\ i = job[w].id)
        BY <2>1, <4>1 DEF Asks, BillInv, InquiryInv
      <4> QED
        BY <1>3, <4>1, <4>2, OwnOnly
    <3>2. CASE Caches(w) /\ job[w].pc = "primary" /\ i = job[w].id /\ primary'[i] = job[w].inq
      <4>1. Inquiring(w)
        BY <3>2 DEF Inquiring, InquiryPc
      <4> QED
        BY <2>1, <3>2, <4>1 DEF Caches, BillInv, InquiryInv
    <3> QED
      BY <1>3, <3>1, <3>2, OwnOnly
  <2>2. ASSUME NEW p \in Id, IsPayment(p)'
        PROVE  account'[p] = quoted'[inquiryOf'[p]] \/ (account'[p] \in Legacy /\ used'["switch"] > 0)
    <3>1. \A i \in known : quoted'[i] = quoted[i]
      <4>1. Inquiring(w) => job[w].id \notin known
        BY DEF BillInv, OwnerInv, Owner, OwnId
      <4> QED
        BY <1>3, <1>t, <4>1, OwnOnly DEF BillType
    <3>2. CASE IsPayment(p)
      <4>1. inquiryOf'[p] = inquiryOf[p] /\ account'[p] = account[p] /\ inquiryOf[p] \in known
        BY <1>3, <3>2, PaymentsStay, FirstRef
      <4>2. used["switch"] > 0 => used'["switch"] > 0
        BY <1>3, <1>t, SoundKept DEF Up, FaultKind, BillType
      <4> QED
        BY <1>t, <3>1, <3>2, <4>1, <4>2 DEF QuoteInv, AccountInv
    <3>3. CASE ~IsPayment(p)
      <4>1. PayingNew(w) /\ job[w].pc = "insert" /\ p = job[w].pay /\ Inserts(w)
        BY <1>3, <2>2, <3>3, PaymentsStay, NewPayments DEF IsPayment
      <4>2. job[w].id \in known /\ job[w].inq.seller = quoted[job[w].id]
        BY <4>1 DEF BillInv, PaymentInv, PaymentOk
      <4>3. inquiryOf' = [inquiryOf EXCEPT ![p] = job[w].id] /\ inquiryOf'[p] = job[w].id
        BY <1>t, <2>2, <3>3, <4>1 DEF Inserts, IsPayment, BillType
      <4>4. PICK s \in Seller : /\ s = job[w].inq.seller \/ (s \in Legacy /\ used'["switch"] > 0)
                               /\ account' = [account EXCEPT ![p] = s]
        BY <2>2, <3>3, <4>1 DEF Inserts, IsPayment
      <4>5. account'[p] = s
        BY <1>t, <4>4 DEF BillType
      <4> QED
        BY <3>1, <4>2, <4>3, <4>4, <4>5
    <3> QED
      BY <3>2, <3>3
  <2> QED
    BY <2>1, <2>2 DEF QuoteInv, AccountInv, IsPayment
<1> QED
  BY <1>1, <1>2, <1>3, Effects

LEMMA UniqueStep == ASSUME BillInv, [Next]_vars PROVE UniqueInv'
<1>t. UniqueInv /\ BillType /\ IdInv /\ IdInv'
  BY IdStep DEF BillInv
<1>1. CASE UNCHANGED vars
  BY <1>1, <1>t DEF vars, UniqueInv
<1>2. ASSUME NEW i \in Id \cup Ref, Settles(i) \/ Expires(i) PROVE UniqueInv'
  BY <1>2, <1>t DEF Settles, Expires, UniqueInv
<1>3. ASSUME NEW w \in Worker, WorkerEffect(w) PROVE UniqueInv'
  <2>1. unique' = unique
    BY <1>3, SoundKept
  <2>2. /\ \A p \in Id : row[p].status # "none" <=> IsPayment(p)
        /\ \A p \in Id : row'[p].status # "none" <=> IsPayment(p)'
    BY <1>t DEF IdInv
  <2>3. \A p \in Id : IsPayment(p)' /\ ~IsPayment(p) => Inserts(w) /\ p = job[w].pay
    BY <1>3, PaymentsStay, NewPayments DEF IsPayment
  <2>4. ASSUME NEW p \in Id, IsPayment(p)', ~IsPayment(p), unique PROVE \A q \in Id : ~IsPayment(q)
    <3>1. Inserts(w) /\ inquiryOf' # inquiryOf
      BY <2>3, <2>4 DEF IsPayment
    <3> QED
      BY <2>2, <2>4, <3>1 DEF Inserts
  <2> QED
    BY <1>t, <2>1, <2>2, <2>3, <2>4 DEF UniqueInv
<1> QED
  BY <1>1, <1>2, <1>3, Effects

\* A goroutine that pays has paid before, or has just begun to.
LEMMA PayingKept ==
    ASSUME BillInv, NEW w \in Worker, WorkerEffect(w), NEW v \in Worker, PayingNew(v)'
    PROVE  \/ PayingNew(v) /\ job'[v].id = job[v].id /\ job'[v].pay = job[v].pay
              /\ (v # w => job'[v] = job[v])
           \/ v = w /\ \E i \in Id : Opens(w, i)
<1>1. CASE v # w
  BY <1>1, Ownership DEF Others, PayingNew
<1>2. CASE v = w
  <2> DEFINE goal == \/ PayingNew(w) /\ job'[w].id = job[w].id /\ job'[w].pay = job[w].pay
                     \/ \E i \in Id : Opens(w, i)
  <2> SUFFICES goal
    BY <1>2
  <2>0. job'[w].pc \in PaymentPc /\ job'[w].kind = "payment"
    BY <1>2 DEF PayingNew
  <2>1. CASE Inquires(w) \/ Asks(w) \/ Caches(w) \/ Goes(w) \/ Notifies(w)
    BY <2>0, <2>1 DEF Inquires, Asks, Caches, Goes, Notifies, PaymentPc
  <2>2. CASE (Pays(w) \/ Persists(w)) /\ (PayingNew(w) \/ Calling(w))
    BY <2>0, <2>2 DEF Pays, Persists, Same, PayingNew, Calling, PaymentPc
  <2>3. CASE (Inserts(w) \/ Consumes(w)) /\ PayingNew(w)
    BY <2>0, <2>3 DEF Inserts, Consumes, Same, PaymentPc
  <2>4. CASE Stores(w) /\ Calling(w)
    BY <2>0, <2>4 DEF Stores, Same, Calling
  <2>5. ASSUME NEW i \in Id, Opens(w, i) PROVE goal
    BY <2>5
  <2>6. ASSUME NEW r \in Ref, Hears(w, r) PROVE goal
    BY <2>0, <2>6 DEF Hears, PaymentPc
  <2> HIDE DEF goal
  <2> QED
    BY <2>1, <2>2, <2>3, <2>4, <2>5, <2>6 DEF WorkerEffect
<1> QED
  BY <1>1, <1>2

\* The parts of CalmInv.
NothingOpen == cbs = {} /\ (\A r \in Ref : order[r] # "pending") /\ \A w \in Worker : ~Calling(w)
InTurn == \A v, w \in Worker : PayingNew(v) /\ PayingNew(w) /\ job[v].id = job[w].id => v = w
Consuming(w, i) == PayingNew(w) /\ job[w].pc = "consume" /\ job[w].id = i
Taken(p) ==
    /\ \A w \in Worker : PayingNew(w) /\ job[w].id = inquiryOf[p] =>
          job[w].pay = p /\ job[w].pc \in {"consume", "notify"}
    /\ primary[inquiryOf[p]] = None \/ \E w \in Worker : Consuming(w, inquiryOf[p])
OncePaid == \A p, q \in Id : row[p].status = "Success" /\ row[q].status = "Success"
               /\ inquiryOf[p] = inquiryOf[q] => p = q

LEMMA CalmStep == ASSUME BillInv, [Next]_vars PROVE CalmInv'
<1>t. BillType /\ IdInv
  BY DEF BillInv
<1>c. Calm => /\ NothingOpen /\ InTurn /\ OncePaid
              /\ \A w \in Worker : PayingNew(w) /\ job[w].pc = "consume" => job[w].mem.status = "Success"
              /\ \A p \in Id : row[p].status = "Success" => Taken(p)
  BY DEF BillInv, CalmInv, NothingOpen, InTurn, OncePaid, Taken, Consuming
<1>d. ASSUME Calm' => /\ NothingOpen' /\ InTurn' /\ OncePaid'
                      /\ \A w \in Worker : PayingNew(w)' /\ job'[w].pc = "consume" => job'[w].mem.status = "Success"
                      /\ \A p \in Id : row'[p].status = "Success" => Taken(p)'
      PROVE  CalmInv'
  BY <1>d DEF CalmInv, NothingOpen, InTurn, OncePaid, Taken, Consuming
<1>u. ASSUME Up, Calm' PROVE Calm
  BY <1>u, <1>t DEF Up, Calm, FaultKind, BillType
<1>1. CASE UNCHANGED vars
  BY <1>1, <1>c, <1>d DEF vars, Calm, NothingOpen, InTurn, OncePaid, Taken, Consuming, PayingNew, Calling
<1>2. ASSUME NEW i \in Ref, Settles(i) PROVE CalmInv'
  <2>1. ~Calm'
    BY <1>2, <1>c, <1>u DEF Settles, NothingOpen
  <2> QED
    BY <1>d, <2>1
<1>3. ASSUME NEW i \in Id, Expires(i) PROVE CalmInv'
  <2>1. Calm' => Calm
    BY <1>3, <1>u DEF Expires
  <2>2. \A k \in Id : primary'[k] \in {primary[k], None}
    BY <1>3, <1>t DEF Expires, BillType
  <2>3. \A p \in Id : row[p].status = "Success" => inquiryOf[p] \in Id
    BY <1>t DEF IdInv, IsPayment, BillType
  <2>4. UNCHANGED <<job, row, order, cbs, inquiryOf>>
    BY <1>3 DEF Expires
  <2>5. \A p \in Id : row[p].status = "Success" /\ Taken(p) => Taken(p)'
    BY <2>2, <2>3, <2>4 DEF Taken, Consuming, PayingNew
  <2> QED
    BY <1>c, <1>d, <2>1, <2>4, <2>5 DEF NothingOpen, InTurn, OncePaid, PayingNew, Calling
<1>4. ASSUME NEW w \in Worker, WorkerEffect(w) PROVE CalmInv'
  <2> SUFFICES ASSUME Calm'
               PROVE  /\ NothingOpen' /\ InTurn' /\ OncePaid'
                      /\ \A v \in Worker : PayingNew(v)' /\ job'[v].pc = "consume" => job'[v].mem.status = "Success"
                      /\ \A p \in Id : row'[p].status = "Success" => Taken(p)'
    BY <1>d
  <2>0. Calm
    <3>1. Up
      BY <1>4, SoundKept
    <3> QED
      BY <1>u, <3>1
  <2>c. /\ NothingOpen /\ InTurn /\ OncePaid
        /\ \A v \in Worker : PayingNew(v) /\ job[v].pc = "consume" => job[v].mem.status = "Success"
        /\ \A p \in Id : row[p].status = "Success" => Taken(p)
    BY <1>c, <2>0
  <2>z. used'["overlap"] = 0 /\ used'["pending"] = 0 /\ used'["net"] = 0 /\ used'["kios"] = 0
        /\ used'["crash"] = 0 /\ used'["redis"] = 0
    BY DEF Calm
  <2>1. NothingOpen'
    <3>1. cbs' = {}
      BY <1>4, <2>c, CbsTaken DEF NothingOpen
    <3>2. \A r \in Ref : order'[r] # "pending"
      BY <1>4, <1>t, <2>c, <2>z, OrdersChange DEF NothingOpen, BillType
    <3>3. \A v \in Worker : ~Calling(v)'
      BY <1>4, <2>c, CallingKept DEF NothingOpen, HearsOf
    <3> QED
      BY <3>1, <3>2, <3>3 DEF NothingOpen
  <2>n. \A v \in Worker : PayingNew(v) => Paying(v)
    BY DEF PayingNew, Paying, PaymentPc
  <2>o. ASSUME NEW i \in Id, Opens(w, i), NEW v \in Worker, PayingNew(v) PROVE job[v].id # i
    BY <2>n, <2>o, <2>z DEF Opens
  <2>w. ASSUME NEW i \in Id, Opens(w, i) PROVE job'[w].id = i
    BY <2>w DEF Opens
  <2>2. InTurn'
    <3>1. ASSUME NEW u \in Worker, NEW v \in Worker, PayingNew(u)', PayingNew(v)', job'[u].id = job'[v].id
          PROVE  u = v
      <4>1. CASE PayingNew(u) /\ job'[u].id = job[u].id /\ PayingNew(v) /\ job'[v].id = job[v].id
        BY <2>c, <3>1, <4>1 DEF InTurn
      <4>2. CASE u = w /\ \E i \in Id : Opens(w, i)
        BY <1>4, <2>o, <2>w, <3>1, <4>2, PayingKept
      <4>3. CASE v = w /\ \E i \in Id : Opens(w, i)
        BY <1>4, <2>o, <2>w, <3>1, <4>3, PayingKept
      <4> QED
        BY <1>4, <3>1, <4>1, <4>2, <4>3, PayingKept
    <3> QED
      BY <3>1 DEF InTurn
  <2>3. ASSUME NEW v \in Worker, PayingNew(v)', job'[v].pc = "consume" PROVE job'[v].mem.status = "Success"
    <3>1. CASE v # w
      BY <1>4, <2>c, <2>3, <3>1, Ownership DEF Others, PayingNew
    <3>2. CASE v = w
      <4>1. ~(Inquires(w) \/ Asks(w) \/ Caches(w) \/ Goes(w) \/ Inserts(w) \/ Pays(w) \/ Consumes(w)
              \/ Notifies(w) \/ Stores(w))
        BY <2>3, <3>2 DEF Inquires, Asks, Caches, Goes, Inserts, Pays, Consumes, Notifies, Stores
      <4>2. ~\E i \in Id \cup Ref : Opens(w, i) \/ Hears(w, i)
        BY <2>3, <3>2 DEF Opens, Hears
      <4>3. Persists(w)
        BY <1>4, <4>1, <4>2 DEF WorkerEffect
      <4> QED
        BY <2>3, <3>2, <4>3 DEF Persists
    <3> QED
      BY <3>1, <3>2
  \* A payment becomes Success when its goroutine stores the answer.
  <2>4. ASSUME NEW p \in Id, row'[p].status = "Success", row[p].status # "Success"
        PROVE  /\ PayingNew(w) /\ p = job[w].pay /\ job[w].id = inquiryOf[p] /\ Consuming(w, inquiryOf[p])'
               /\ inquiryOf' = inquiryOf /\ job'[w].pay = p /\ job'[w].id = inquiryOf[p]
    <3>1. PayingNew(w) /\ p = job[w].pay
      BY <1>4, <2>4, <2>c, OwnOnly DEF NothingOpen
    <3>2. row' # row /\ ~Calling(w)
      BY <2>4, <2>c DEF NothingOpen
    <3>3. ~(Inquires(w) \/ Asks(w) \/ Caches(w) \/ Goes(w) \/ Pays(w) \/ Consumes(w))
      BY <3>2 DEF Inquires, Asks, Caches, Goes, Pays, Consumes
    <3>4. ~\E i \in Id \cup Ref : Opens(w, i) \/ Hears(w, i)
      BY <3>2 DEF Opens, Hears
    <3>5. ~Inserts(w)
      BY <2>4, <3>1, <3>2 DEF Inserts
    <3>6. ~Notifies(w)
      BY <1>t, <2>4, <3>1, <3>2 DEF Notifies, BillInv, PaymentInv, PaymentOk, BillType
    <3>7. Persists(w)
      BY <1>4, <3>2, <3>3, <3>4, <3>5, <3>6 DEF WorkerEffect
    <3>8. row' = [row EXCEPT ![p] = job[w].mem] /\ job[w].mem.status = "Success"
      BY <1>t, <2>4, <3>1, <3>2, <3>7 DEF Persists, BillType
    <3>9. job'[w].pc = "consume" /\ Same(w, job[w]) /\ inquiryOf' = inquiryOf
      BY <3>1, <3>2, <3>7, <3>8 DEF Persists, PayingNew
    <3>10. job[w].id = inquiryOf[p]
      BY <3>1, <3>7 DEF Persists, BillInv, PaymentInv, PaymentOk
    <3>11. Consuming(w, inquiryOf[p])'
      BY <3>1, <3>9, <3>10 DEF Same, Consuming, PayingNew, PaymentPc
    <3> QED
      BY <3>1, <3>9, <3>10, <3>11 DEF Same
  <2>s. \A p \in Id : row[p].status = "Success" =>
           IsPayment(p) /\ inquiryOf[p] \in known /\ inquiryOf[p] \in Id /\ inquiryOf'[p] = inquiryOf[p]
    BY <1>4, <1>t, PaymentsStay DEF IdInv, BillType
  <2>5. OncePaid'
    <3>1. ASSUME NEW p \in Id, NEW q \in Id, row'[p].status = "Success", row'[q].status = "Success",
                 inquiryOf'[p] = inquiryOf'[q], row[p].status # "Success", row[q].status = "Success"
          PROVE  FALSE
      <4>1. PayingNew(w) /\ p = job[w].pay /\ job[w].id = inquiryOf[p] /\ inquiryOf' = inquiryOf
        BY <2>4, <3>1
      <4>2. job[w].pay = q
        BY <2>c, <3>1, <4>1 DEF Taken
      <4> QED
        BY <3>1, <4>1, <4>2
    <3>2. ASSUME NEW p \in Id, NEW q \in Id, row'[p].status = "Success", row'[q].status = "Success",
                 inquiryOf'[p] = inquiryOf'[q]
          PROVE  p = q
      <4>1. CASE row[p].status = "Success" /\ row[q].status = "Success"
        BY <2>c, <2>s, <3>2, <4>1 DEF OncePaid
      <4>2. CASE row[p].status # "Success" /\ row[q].status # "Success"
        BY <2>4, <3>2, <4>2
      <4> QED
        BY <3>1, <3>2, <4>1, <4>2
    <3> QED
      BY <3>2 DEF OncePaid
  <2>6. ASSUME NEW p \in Id, row'[p].status = "Success" PROVE Taken(p)'
    <3>1. CASE row[p].status # "Success"
      <4>1. /\ PayingNew(w) /\ p = job[w].pay /\ job[w].id = inquiryOf[p] /\ Consuming(w, inquiryOf[p])'
            /\ inquiryOf' = inquiryOf /\ job'[w].pay = p /\ job'[w].id = inquiryOf[p]
        BY <2>4, <2>6, <3>1
      <4>2. ASSUME NEW v \in Worker, PayingNew(v)', job'[v].id = inquiryOf[p] PROVE v = w
        BY <2>2, <4>1, <4>2 DEF InTurn, Consuming
      <4> QED
        BY <4>1, <4>2 DEF Taken, Consuming
    <3>2. CASE row[p].status = "Success"
      <4>i. PICK i \in Id : i = inquiryOf[p]
        BY <2>s, <3>2
      <4>1. i \in known /\ i = inquiryOf[p] /\ inquiryOf'[p] = i /\ Taken(p)
        BY <2>c, <2>s, <3>2, <4>i
      <4>2. ASSUME NEW k \in Id, Opens(w, k) PROVE k # i
        <5>1. SUFFICES ASSUME k = i PROVE FALSE
          OBVIOUS
        <5>2. primary[i] # None
          BY <4>2, <5>1 DEF Opens
        <5>3. PICK v \in Worker : Consuming(v, i)
          BY <4>1, <5>2 DEF Taken
        <5> QED
          BY <2>o, <4>2, <5>1, <5>3 DEF Consuming
      <4>3. ASSUME NEW v \in Worker, PayingNew(v)', job'[v].id = i
            PROVE  job'[v].pay = p /\ job'[v].pc \in {"consume", "notify"}
        <5>1. PayingNew(v) /\ job[v].id = i /\ job'[v].pay = job[v].pay /\ (v # w => job'[v] = job[v])
          BY <1>4, <2>w, <4>2, <4>3, PayingKept
        <5>2. job[v].pay = p /\ job[v].pc \in {"consume", "notify"}
          BY <4>1, <5>1 DEF Taken
        <5>3. CASE v = w
          <6>1. ~(Inquires(w) \/ Asks(w) \/ Caches(w) \/ Goes(w) \/ Inserts(w) \/ Pays(w) \/ Persists(w)
                  \/ Notifies(w) \/ Stores(w))
            BY <4>3, <5>2, <5>3 DEF Inquires, Asks, Caches, Goes, Inserts, Pays, Persists, Notifies, Stores, PayingNew, PaymentPc
          <6>2. ~\E k \in Id \cup Ref : Opens(w, k) \/ Hears(w, k)
            BY <5>2, <5>3 DEF Opens, Hears
          <6>3. Consumes(w)
            BY <1>4, <6>1, <6>2 DEF WorkerEffect
          <6> QED
            BY <5>1, <5>2, <5>3, <6>3 DEF Consumes
        <5> QED
          BY <5>1, <5>2, <5>3
      <4>4. primary'[i] = None \/ \E v \in Worker : Consuming(v, i)'
        <5>1. CASE primary[i] = None
          <6>1. ~(Caches(w) /\ job[w].id = i)
            BY <4>1, JobFacts DEF Caches, BillInv, OwnerInv, Owner, OwnId, InquiryPc
          <6> QED
            BY <1>4, <4>1, <5>1, <6>1, OwnOnly
        <5>2. ASSUME NEW v \in Worker, Consuming(v, i) PROVE primary'[i] = None \/ Consuming(v, i)'
          <6>1. CASE v # w
            BY <1>4, <5>2, <6>1, Ownership DEF Others, Consuming, PayingNew
          <6>2. CASE v = w
            <7>1. ~(Inquires(w) \/ Asks(w) \/ Caches(w) \/ Goes(w) \/ Inserts(w) \/ Pays(w) \/ Persists(w)
                    \/ Notifies(w) \/ Stores(w))
              BY <2>z, <5>2, <6>2 DEF Inquires, Asks, Caches, Goes, Inserts, Pays, Persists, Notifies, Stores, Consuming
            <7>2. ~\E k \in Id \cup Ref : Opens(w, k) \/ Hears(w, k)
              BY <5>2, <6>2 DEF Opens, Hears, Consuming
            <7>3. Consumes(w)
              BY <1>4, <7>1, <7>2 DEF WorkerEffect
            <7> QED
              BY <1>t, <2>z, <4>1, <5>2, <6>2, <7>3 DEF Consumes, Consuming, BillType
          <6> QED
            BY <6>1, <6>2
        <5> QED
          BY <4>1, <5>1, <5>2 DEF Taken
      <4> QED
        BY <4>1, <4>3, <4>4 DEF Taken, Consuming
    <3> QED
      BY <3>1, <3>2
  <2> QED
    BY <2>1, <2>2, <2>3, <2>5, <2>6
<1> QED
  BY <1>1, <1>2, <1>3, <1>4, Effects

THEOREM BillCorrect == Spec => []BillInv
<1>1. BillInv /\ [Next]_vars => BillInv'
  BY TypeStep, IdStep, OwnerStep, InquiryStep, PaymentStep, CallbackStep, PhaseStep, OrdersStep,
     TruthStep, QuoteStep, CalmStep, UniqueStep DEF BillInv
<1> QED
  BY BillInit, <1>1, PTL DEF Spec

\* Success and Failed are true of what was paid: whatever is lost, repeated or
\* stale, a payment reported as Success was paid, one reported as Failed was not
\* and will not be unless a provider other than Kiosbank lost its answer.
THEOREM AnswersTrue == Spec => []AnswersAreTrue
<1>1. BillInv => AnswersAreTrue
  <2> SUFFICES ASSUME BillInv, Sound, NEW p \in Id
               PROVE  /\ row[p].status = "Success" => "paid" \in Orders(p)
                      /\ row[p].status = "Failed" /\ used["net"] = 0 => Orders(p) \cap {"paid", "pending"} = {}
    BY DEF AnswersAreTrue, Sound
  <2>1. row[p].status \in FinalStatus => IsPayment(p) /\ True(p, row[p].status)
    BY DEF FinalStatus, BillInv, IdInv, TruthInv
  <2> QED
    BY <2>1 DEF True, Paid, Unpaid, Orders, First, FinalStatus
<1> QED
  BY BillCorrect, <1>1, PTL

\* Under an inquiry nobody is asked to pay but who quoted the bill in it, or
\* Digiflazz by a payment that has left the mode of the inquiry.
THEOREM QuoterPaid == Spec => []PaidByQuoter
<1>1. BillInv => PaidByQuoter
  <2> SUFFICES ASSUME BillInv, NEW s \in Seller, NEW i \in Id, inquiryOf[i] = None, order[<<s, i>>] # "none"
               PROVE  s = quoted[i] \/ (s \in Legacy /\ used["switch"] > 0)
    BY DEF PaidByQuoter
  <2>1. PICK p \in Id : IsPayment(p) /\ <<s, i>> \in {First(p), Own(p)}
    BY DEF BillInv, IdInv, Ref
  <2>2. <<s, i>> = First(p)
    BY <2>1, OwnRef DEF IsPayment
  <2> QED
    BY <2>1, <2>2 DEF First, BillInv, QuoteInv, AccountInv
<1> QED
  BY BillCorrect, <1>1, PTL

\* An inquiry is sold once if references are unique in the table, or if its
\* payments come one after the other and are answered at once.
THEOREM OneSale == Spec => []SoldOnce
<1>1. BillInv => SoldOnce
  <2> SUFFICES ASSUME BillInv PROVE SoldOnce
    OBVIOUS
  <2>1. CASE unique
    BY <2>1 DEF BillInv, UniqueInv, SoldOnce
  <2>2. CASE Calm
    BY <2>2 DEF BillInv, CalmInv, SoldOnce
  <2>3. CASE ~unique /\ ~Calm
    BY <2>3 DEF Calm, SoldOnce
  <2> QED
    BY <2>1, <2>2, <2>3
<1> QED
  BY BillCorrect, <1>1, PTL
=============================================================================
