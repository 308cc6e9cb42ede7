--------------------------- MODULE PostpaidPayment ---------------------------
(***************************************************************************)
(* The inquiries and payments a client makes for one bill under one        *)
(* reference id: processInquiry, executeInquiryWithProviders,              *)
(* executeInquiryWithDigiflazz, InquiryCache, processPayment,              *)
(* executePaymentWithProvider and the Digiflazz callback of a payment.     *)
(*                                                                         *)
(* An inquiry lives in Redis only, under its id, and under a second key    *)
(* that lets a repeated inquiry find the first.  A payment is a row of     *)
(* transactions of its own; the provider is asked under the id of the      *)
(* inquiry, so that it can tell a repetition.  Ids are numbered in the     *)
(* order in which they are given out.                                      *)
(*                                                                         *)
(* A request is live or sandbox, by the key the client sends.  The cached  *)
(* inquiry does not say which: it may be paid in the other mode, and then  *)
(* by an account with Digiflazz, whoever has quoted the bill.              *)
(*                                                                         *)
(* A Digiflazz callback may tell a failure that RetryWithNextSKU answers   *)
(* with purchases of the other SKUs; that loop is DigiTransaction, here it *)
(* is one order under the id of the payment.                               *)
(***************************************************************************)
EXTENDS Naturals, FiniteSets

CONSTANTS
    MaxId,      \* bound on the ids given out
    Provider,   \* providers an inquiry may be routed to
    Kiosbank,   \* those of them whose lost answers count as pending
    Digiflazz,  \* the live account of the legacy path
    Sandbox,    \* and that of requests in the sandbox
    Worker,     \* goroutines that may run a handler at one time
    None,       \* an absent key, a NULL column
    Budget,     \* how many faults of each kind the environment may cause
    MaxFault    \* and how many kinds of them in one behaviour

Id == 1..MaxId
Legacy == {Digiflazz, Sandbox}
Seller == Provider \cup Legacy
Ref == Seller \X Id  \* a ref_id, and who it is told

\* "gone": the adapter of a provider is no longer configured; "overlap": a
\* payment starts while another one of the same inquiry is under way;
\* "pending": a provider does not answer at once; "switch": a payment comes in
\* another mode than its inquiry, or finds the router gone.
FaultKind == {"net", "kios", "redis", "db", "crash", "gone", "overlap", "pending", "early", "switch"}

ASSUME ConstAssumption ==
    /\ MaxId \in Nat /\ MaxFault \in Nat
    /\ Kiosbank \subseteq Provider /\ Legacy \cap Provider = {} /\ Digiflazz # Sandbox
    /\ None \notin Id \cup Seller
    /\ Worker \subseteq Nat
    /\ Budget \in [FaultKind -> Nat]

FinalStatus == {"Success", "Failed"}

VARIABLES
    primary,    \* primary[i]: the inquiry under the key of its id
    secondary,  \* the id under the key of client, customer, SKU and reference
    row,        \* row[p]: the row of the payment p
    job,        \* job[w]: what the goroutine w is doing
    drawn,      \* ids given out
    known,      \* ids of inquiries the client has got
    order,      \* order[<<s, r>>]: what the seller s holds under ref_id r
    quoted,     \* quoted[i]: who quoted the bill in the inquiry i
    cbs,        \* orders whose callback is on its way
    inquiryOf,  \* inquiryOf[p]: the inquiry the payment p pays
    account,    \* account[p]: who is asked for p: its mode and its provider
    unique,     \* is (client_id, reference_id) unique in transactions?
    used        \* faults the environment has caused so far

vars == <<primary, secondary, row, job, drawn, known, order, quoted, cbs,
          inquiryOf, account, unique, used>>
cache == <<primary, secondary>>
sellers == <<order, quoted, cbs>>
payments == <<inquiryOf, account>>

Idle == [pc |-> "idle", kind |-> "none", id |-> None, todo |-> {},
         inq |-> None, pay |-> None, ref |-> None, mem |-> None]

\* The schema is not part of the repository; both are possible.
Init ==
    /\ primary = [i \in Id |-> None]
    /\ secondary = None
    /\ row = [p \in Id |-> [status |-> "none", ref |-> None]]
    /\ job = [w \in Worker |-> Idle]
    /\ drawn = 0
    /\ known = {}
    /\ order = [r \in Ref |-> "none"]
    /\ quoted = [i \in Id |-> None]
    /\ cbs = {}
    /\ inquiryOf = [p \in Id |-> None]
    /\ account = [p \in Id |-> None]
    /\ unique \in BOOLEAN
    /\ used = [k \in FaultKind |-> 0]

Spend(k) ==
    /\ used[k] < Budget[k]
    /\ Cardinality({f \in FaultKind : used[f] > 0} \cup {k}) <= MaxFault
    /\ used' = [used EXCEPT ![k] = @ + 1]
SpendIf(condition, k) == IF condition THEN Spend(k) ELSE UNCHANGED used

Become(w, j) == job' = [job EXCEPT ![w] = j]
Paying(w) == job[w].pc \in {"insert", "store", "pay", "persist", "consume", "notify"}

-----------------------------------------------------------------------------
(***************************************************************************)
(* Inquiries.                                                              *)
(***************************************************************************)

\* GetByCacheKey: the second key leads to an inquiry that is still there.
Hit == secondary # None /\ primary[secondary] # None

\* processInquiry answers from the cache.
InquireAgain(w) ==
    /\ job[w].pc = "idle"
    /\ Hit
    /\ known' = known \cup {secondary}
    /\ UNCHANGED <<cache, row, job, drawn, sellers, payments, unique, used>>

\* Not in the cache, or Redis cannot be asked: a new id.  Some providers have
\* the product (or the one the client named); without any, Digiflazz is asked.
Inquire(w) ==
    /\ job[w].pc = "idle"
    /\ drawn < MaxId
    /\ SpendIf(Hit, "redis")
    /\ drawn' = drawn + 1
    /\ \E available \in SUBSET Provider :
         Become(w, [Idle EXCEPT !.pc = IF available = {} THEN "digiflazz" ELSE "ask",
                                !.id = drawn', !.todo = available])
    /\ UNCHANGED <<cache, row, known, sellers, payments, unique>>

Found(j, ok, s) == [j EXCEPT !.pc = "primary", !.inq = [ok |-> ok, seller |-> s]]

\* One provider after the other, until one quotes the bill or refuses to; one
\* that cannot be reached is passed over, the last one is remembered.
AskProvider(w) ==
    LET j == job[w] IN
    /\ j.pc = "ask"
    /\ \E s \in j.todo :
         \/ /\ quoted' = [quoted EXCEPT ![j.id] = s]
            /\ Become(w, Found(j, TRUE, s))
         \/ /\ Become(w, Found(j, FALSE, s))
            /\ UNCHANGED quoted
         \/ /\ Become(w, IF j.todo = {s} THEN Found(j, FALSE, s)
                                         ELSE [j EXCEPT !.todo = @ \ {s}])
            /\ UNCHANGED quoted
    /\ UNCHANGED <<cache, row, drawn, known, order, cbs, payments, unique, used>>

\* executeInquiryWithDigiflazz, live or in the sandbox: a failure is an error
\* without an id.
AskDigiflazz(w) ==
    LET j == job[w] IN
    /\ j.pc = "digiflazz"
    /\ \/ \E s \in Legacy :
            /\ quoted' = [quoted EXCEPT ![j.id] = s]
            /\ Become(w, Found(j, TRUE, s))
       \/ Become(w, Idle) /\ UNCHANGED quoted
    /\ UNCHANGED <<cache, row, drawn, known, order, cbs, payments, unique, used>>

\* The client gets the id, whether the inquiry could be stored or not.
Reply(w) == known' = known \cup {job[w].id} /\ Become(w, Idle)

\* Set, or SetPrimaryOnly for a failed inquiry: the key of the id.
CachePrimary(w) ==
    LET j == job[w] IN
    /\ j.pc = "primary"
    /\ \/ /\ primary' = [primary EXCEPT ![j.id] = j.inq]
          /\ IF j.inq.ok
             THEN Become(w, [j EXCEPT !.pc = "secondary"]) /\ UNCHANGED known
             ELSE Reply(w)
          /\ UNCHANGED used
       \/ Spend("redis") /\ Reply(w) /\ UNCHANGED primary
    /\ UNCHANGED <<secondary, row, drawn, sellers, payments, unique>>

\* Set: the second key.
CacheSecondary(w) ==
    /\ job[w].pc = "secondary"
    /\ Reply(w)
    /\ \/ secondary' = job[w].id /\ UNCHANGED used
       \/ Spend("redis") /\ UNCHANGED secondary
    /\ UNCHANGED <<primary, row, drawn, sellers, payments, unique>>

\* The keys of an inquiry expire, at the end of the day or after 10 minutes;
\* they are set with one TTL, and one without the other is no inquiry.
Expire(i) ==
    /\ primary[i] # None
    /\ \A w \in Worker : ~(job[w].pc = "secondary" /\ job[w].id = i)
    /\ primary' = [primary EXCEPT ![i] = None]
    /\ secondary' = IF secondary = i THEN None ELSE secondary
    /\ UNCHANGED <<row, job, drawn, known, sellers, payments, unique, used>>

-----------------------------------------------------------------------------
(***************************************************************************)
(* Payments.                                                               *)
(***************************************************************************)
PayableAnyway(inq) == inq # None  \* mutant

\* The checks of processPayment: an inquiry that is there and has succeeded.
Payable(inq) == inq # None /\ (inq # None => inq.ok)

\* processPayment reads the inquiry and draws an id for the payment.
OpenPayment(w, i) ==
    /\ job[w].pc = "idle"
    /\ drawn < MaxId
    /\ drawn' = drawn + 1
    /\ i \in known
    /\ Payable(primary[i])
    /\ SpendIf(\E v \in Worker : Paying(v) /\ job[v].id = i, "overlap")
    /\ Become(w, [Idle EXCEPT !.pc = "insert", !.kind = "payment", !.id = i,
                              !.inq = primary[i], !.pay = drawn'])
    /\ UNCHANGED <<cache, row, known, sellers, payments, unique>>

\* Who is asked: the provider that has quoted, if the router is there and the
\* payment is live; else Digiflazz, on the account of the payment's mode.
Asked(inq) == {inq.seller} \cup Legacy

\* The INSERT, which fails if the database refuses a second payment with the
\* reference of the inquiry, and the choice of the seller.
InsertPayment(w) ==
    LET j == job[w] IN
    /\ j.pc = "insert"
    /\ \/ /\ ~(unique /\ \E q \in Id : row[q].status # "none")
          /\ row' = [row EXCEPT ![j.pay].status = "Processing"]
          /\ inquiryOf' = [inquiryOf EXCEPT ![j.pay] = j.id]
          /\ \E s \in Asked(j.inq) :
               /\ SpendIf(s # j.inq.seller, "switch")
               /\ account' = [account EXCEPT ![j.pay] = s]
               /\ Become(w, [j EXCEPT !.pc = "pay", !.mem = row'[j.pay], !.ref = <<s, j.id>>])
       \/ /\ SpendIf(~unique \/ \A q \in Id : row[q].status = "none", "db")
          /\ Become(w, Idle)
          /\ UNCHANGED <<row, payments>>
    /\ UNCHANGED <<cache, drawn, known, sellers, unique>>

\* executePaymentWithProvider without an adapter: an error, and a row that
\* stays as it was inserted.
AdapterGone(w) ==
    /\ job[w].pc = "pay" /\ job[w].ref[1] \in Provider
    /\ Spend("gone")
    /\ Become(w, Idle)
    /\ UNCHANGED <<cache, row, drawn, known, sellers, payments, unique>>

\* A request reaches the seller, which answers a ref_id it knows as before.
Submit(r, o) ==
    /\ order[r] = "none"
    /\ order' = [order EXCEPT ![r] = o]

Status(o) ==
    CASE o = "paid" -> "Success" [] o = "pending" -> "Processing" [] o = "failed" -> "Failed"

AnsweredNameless(j, o) ==  \* mutant: a pending answer does not store the ref_id
    [j EXCEPT !.pc = "persist", !.mem.status = Status(o),
              !.mem.ref = IF o = "pending" THEN @ ELSE j.ref[2]]

\* The row after an answer; that of Digiflazz comes with digi_ref_id.
Answered(j, o) ==
    [j EXCEPT !.pc = "persist",
              !.mem = [status |-> Status(o), ref |-> IF j.ref[1] \in Legacy THEN j.ref[2] ELSE @.ref]]

UnansweredFailed(j) == [j EXCEPT !.pc = "persist", !.mem.status = "Failed"]  \* mutant

\* The row after an error: Kiosbank may have paid all the same
\* (providerResponseFromError); of the others the gateway assumes it has not.
Unanswered(j) ==
    [j EXCEPT !.pc = "persist",
              !.mem.status = IF j.ref[1] \in Kiosbank THEN "Processing" ELSE "Failed"]

Pay(w) ==
    LET j == job[w]
        r == j.ref
    IN  /\ j.pc = "pay"
        /\ \/ \E o \in {"paid", "pending", "failed"} :
                /\ Submit(r, o)
                /\ SpendIf(o = "pending", "pending")
                /\ Become(w, Answered(j, o))
           \/ /\ order[r] # "none"
              /\ Become(w, Answered(j, order[r]))
              /\ UNCHANGED <<order, used>>
        /\ UNCHANGED <<cache, row, drawn, known, quoted, cbs, payments, unique>>

\* The request or its answer is lost.
PayLost(w) ==
    LET j == job[w] IN
    /\ j.pc = "pay"
    /\ Spend(IF j.ref[1] \in Kiosbank THEN "kios" ELSE "net")
    /\ (\E o \in {"paid", "pending", "failed"} : Submit(j.ref, o)) \/ UNCHANGED order
    /\ Become(w, Unanswered(j))
    /\ UNCHANGED <<cache, row, drawn, known, quoted, cbs, payments, unique>>

\* The UPDATE; what comes next depends on the status.
Persist(w) ==
    LET j == job[w] IN
    /\ j.pc = "persist"
    /\ \/ /\ row' = [row EXCEPT ![j.pay] = j.mem]
          /\ Become(w, CASE j.mem.status = "Processing" -> Idle
                         [] j.mem.status = "Success" /\ j.kind = "payment" ->
                              [j EXCEPT !.pc = "consume"]
                         [] OTHER -> [j EXCEPT !.pc = "notify"])
          /\ UNCHANGED used
       \/ Spend("db") /\ Become(w, Idle) /\ UNCHANGED row
    /\ UNCHANGED <<cache, drawn, known, sellers, payments, unique>>

KeepInquiry(w) ==  \* mutant
    /\ job[w].pc = "consume"
    /\ Become(w, [job[w] EXCEPT !.pc = "notify"])
    /\ UNCHANGED <<cache, row, drawn, known, sellers, payments, unique, used>>

\* InquiryCache.Delete: both keys, whatever inquiry the second leads to.
Consume(w) ==
    /\ job[w].pc = "consume"
    /\ Become(w, [job[w] EXCEPT !.pc = "notify"])
    /\ \/ /\ primary' = [primary EXCEPT ![job[w].id] = None]
          /\ secondary' = None
          /\ UNCHANGED used
       \/ Spend("redis") /\ UNCHANGED cache
    /\ UNCHANGED <<row, drawn, known, sellers, payments, unique>>

\* SendCallback writes the row once more if the client answers.
Notify(w) ==
    /\ job[w].pc = "notify"
    /\ Become(w, Idle)
    /\ row' \in {row, [row EXCEPT ![job[w].pay] = job[w].mem]}
    /\ UNCHANGED <<cache, drawn, known, sellers, payments, unique, used>>

-----------------------------------------------------------------------------
(***************************************************************************)
(* Callbacks.                                                              *)
(***************************************************************************)

\* The seller settles an order; Digiflazz reports it.
Settle(r) ==
    /\ order[r] = "pending"
    /\ \E o \in {"paid", "failed"} : order' = [order EXCEPT ![r] = o]
    /\ cbs' = IF r[1] \in Legacy THEN cbs \cup {r} ELSE cbs
    /\ UNCHANGED <<cache, row, job, drawn, known, quoted, payments, unique, used>>

\* processCallbackImmediate looks for a row with the ref_id, any of them, then
\* for the transaction whose id the ref_id starts with; nothing tells the accounts
\* apart.
Named(r) == {p \in Id : row[p].status # "none" /\ row[p].ref = r[2]}
Targets(r) == IF Named(r) # {} THEN Named(r) ELSE {p \in {r[2]} : row[p].status # "none"}

\* The order of another SKU for the payment p, in the mode of its row.
Own(p) == <<IF account[p] = Sandbox THEN Sandbox ELSE Digiflazz, p>>

\* What it does with it.  After a failure that may be retried other SKUs are
\* tried, if there are any left.
AfterCallback(p, r) ==
    LET j == [Idle EXCEPT !.kind = "callback", !.id = inquiryOf[p], !.pay = p, !.mem = row[p],
                          !.ref = Own(p)]
        concluded == [j EXCEPT !.pc = "persist", !.mem.status = Status(order[r])]
        again == [j EXCEPT !.pc = "store"]
    IN  IF row[p].status \in FinalStatus THEN {Idle}
        ELSE {concluded} \cup (IF order[r] = "failed" /\ order[Own(p)] = "none" THEN {again} ELSE {})

\* A callback no row is found for is forgotten.  It is early if it comes while
\* the payment it settles has not stored the answer yet.
ReceiveCallback(w, r) ==
    /\ job[w].pc = "idle"
    /\ cbs' = cbs \ {r}
    /\ \/ /\ SpendIf(\E v \in Worker : Paying(v) /\ job[v].ref = r, "early")
          /\ IF Targets(r) = {} THEN UNCHANGED job
             ELSE \E p \in Targets(r) : \E j \in AfterCallback(p, r) : Become(w, j)
       \/ /\ order[r] = "failed" /\ Spend("db")  \* transaction_logs cannot be read
          /\ UNCHANGED job
    /\ UNCHANGED <<cache, row, drawn, known, order, quoted, payments, unique>>

\* tryAllSKUs stores the new ref_id before it asks.
StoreRef(w) ==
    LET mem == [job[w].mem EXCEPT !.ref = job[w].ref[2]] IN
    /\ job[w].pc = "store"
    /\ Become(w, [job[w] EXCEPT !.pc = "pay", !.mem = mem])
    /\ \/ row' = [row EXCEPT ![job[w].pay] = mem] /\ UNCHANGED used
       \/ Spend("db") /\ UNCHANGED row
    /\ UNCHANGED <<cache, drawn, known, sellers, payments, unique>>

\* The process that runs w dies.
Crash(w) ==
    /\ job[w].pc # "idle"
    /\ Spend("crash")
    /\ Become(w, Idle)
    /\ UNCHANGED <<cache, row, drawn, known, sellers, payments, unique>>

-----------------------------------------------------------------------------
Step(w) ==
    \/ AskProvider(w) \/ AskDigiflazz(w) \/ CachePrimary(w) \/ CacheSecondary(w)
    \/ InsertPayment(w) \/ StoreRef(w) \/ Pay(w) \/ Persist(w) \/ Consume(w) \/ Notify(w)

\* Goroutines are alike: what begins is taken by the first that is idle.
Active == {w \in Worker : job[w].pc = "idle" => \A v \in Worker : job[v].pc = "idle" => w <= v}

Next ==
    \/ \E w \in Active :
         \/ InquireAgain(w) \/ Inquire(w) \/ Step(w)
         \/ AdapterGone(w) \/ PayLost(w) \/ Crash(w)
         \/ \E i \in Id : OpenPayment(w, i)
         \/ \E r \in cbs : ReceiveCallback(w, r)
    \/ \E i \in Id : Expire(i)
    \/ \E r \in Ref : Settle(r)

Spec == Init /\ [][Next]_vars

\* Handlers run on, sellers settle what is pending and callbacks arrive;
\* clients need not pay.
FairSpec ==
    /\ Spec
    /\ WF_vars(\E w \in Worker : Step(w))
    /\ WF_vars(\E r \in Ref : Settle(r))
    /\ WF_vars(\E w \in Worker : \E r \in cbs : ReceiveCallback(w, r))

-----------------------------------------------------------------------------
\* What was ordered for the payment p: under its inquiry, and under its own id.
Orders(p) == {order[r] : r \in {<<account[p], inquiryOf[p]>>, Own(p)}}

\* A payment reported as Success was paid by who was asked, whatever is lost,
\* repeated or stale; one reported as Failed was not paid and will not be, unless
\* the answer of a provider other than Kiosbank was lost.  If the database lets
\* an inquiry be paid twice, the two must not be in different modes: callbacks of
\* both accounts bear one ref_id.
AnswersAreTrue ==
    unique \/ used["switch"] = 0 =>
        \A p \in Id :
            /\ row[p].status = "Success" => "paid" \in Orders(p)
            /\ row[p].status = "Failed" /\ used["net"] = 0 => Orders(p) \cap {"paid", "pending"} = {}

\* A provider is asked to pay only what it has quoted in that very inquiry: none
\* that refused or was not reached.  Digiflazz is asked without having quoted,
\* but only in a payment that has left the mode of its inquiry.
PaidByQuoter ==
    \A s \in Seller, i \in Id :
        inquiryOf[i] = None /\ order[<<s, i>>] # "none" =>
            s = quoted[i] \/ (s \in Legacy /\ used["switch"] > 0)

\* One inquiry is not sold to the client twice: the database refuses a second
\* payment of its reference, or, if it does not, the inquiry is deleted with its
\* first Success.  The latter takes that payments come one after the other, are
\* answered at once (a callback deletes nothing) and no deletion fails.
SoldOnce ==
    unique \/ (\A k \in {"overlap", "pending", "net", "kios", "crash", "redis"} : used[k] = 0) =>
        \A p, q \in Id :
            row[p].status = "Success" /\ row[q].status = "Success"
                /\ inquiryOf[p] = inquiryOf[q] => p = q

\* A payment by Digiflazz ends, unless a process dies, a write fails, the
\* callback comes before its ref_id is stored or goes to another payment of the
\* same inquiry.  Nothing in the gateway ends a payment another provider left open.
EventuallyFinal ==
    []<>(\A p \in Id : row[p].status = "Processing" =>
            \/ used["crash"] + used["db"] + used["early"] > 0 \/ ~unique
            \/ account[p] \in Provider)
=============================================================================
