--------------------------- MODULE DigiTransaction ---------------------------
(***************************************************************************)
(* One prepaid transaction on the legacy Digiflazz path: the request that  *)
(* creates it (processPrepaid, tryAllSKUs), the handlers of Digiflazz      *)
(* callbacks (processCallbackImmediate, RetryWithNextSKU), operators'      *)
(* manual retries (ManualRetry, RetryTransaction, tryAllSKUsWithOffset)    *)
(* and the notification of the client (SendCallback), interleaved on one   *)
(* row of the table transactions.                                          *)
(*                                                                         *)
(* Every handler loads the row into its own models.Transaction, works on   *)
(* that copy through calls that take seconds, and writes the whole row     *)
(* back with an UPDATE that has no condition.  job[w].mem is that copy.    *)
(*                                                                         *)
(* A ref_id is the transaction id, or the transaction id with a numeric    *)
(* suffix: it is represented by its suffix, 0 for none.  SKUs are numbered *)
(* in the order of their priority.                                         *)
(***************************************************************************)
EXTENDS Naturals, FiniteSets

CONSTANTS
    NSku,          \* the product has SKUs 1..NSku
    MaxRef,        \* bound on the suffix of a ref_id
    MaxNetRetry,   \* maxNetworkRetries of tryAllSKUs
    Worker,        \* goroutines that may run a handler at one time
    None,          \* a NULL column
    Failure,       \* the failures Digiflazz answers with (see FailureClass)
    Budget,        \* how many faults of each kind the environment may cause
    Overtake,      \* may a callback arrive before the answer is stored?
    Patient        \* do operators retry only what nobody is working on?

\* The classes the response codes of a failure fall into.  "unknown" is a code
\* in none of the tables of rc_codes.go.
FailureClass == {"fatal", "switch", "wait", "unknown"}
Retryable == {"switch", "wait"}

FaultKind == {"net", "dup", "crash", "db", "manual", "wait"}

ASSUME ConstAssumption ==
    /\ NSku \in Nat /\ MaxRef \in Nat /\ MaxNetRetry \in Nat
    /\ None \notin Nat
    /\ Failure \subseteq FailureClass
    /\ Budget \in [FaultKind -> Nat]
    /\ Overtake \in BOOLEAN /\ Patient \in BOOLEAN

Sku == 1..NSku
Ref == 0..MaxRef

Outcome == Failure \cup {"success", "pending"}

FinalStatus == {"Success", "Failed"}
Status == FinalStatus \cup {"none", "Processing"}
Trx == [status : Status, ref : Ref \cup {None}, sent : BOOLEAN]
NoTrx == [status |-> "none", ref |-> None, sent |-> FALSE]

VARIABLES
    row,       \* the row of transactions; status "none" before the INSERT
    job,       \* job[w]: what the goroutine w is doing
    attempts,  \* number of rows of transaction_logs
    tried,     \* sku_id of the rows of transaction_logs
    digi,      \* digi[r]: what Digiflazz holds for ref_id r
    digiSku,   \* digiSku[r]: the SKU it was asked for under r
    cbs,       \* cbs[r]: callbacks for r on their way to the gateway
    told,      \* final statuses the client was notified of
    used       \* faults the environment has caused so far

vars == <<row, job, attempts, tried, digi, digiSku, cbs, told, used>>
external == <<digi, digiSku, cbs>>

Idle == [pc |-> "idle", kind |-> "none", mem |-> NoTrx, todo |-> {},
         sku |-> None, suffix |-> 0, net |-> 0, ans |-> "none"]

Job == [pc : {"idle", "plan", "store", "call", "log", "persist", "notify"},
        kind : {"none", "create", "manual", "callback"},
        mem : Trx, todo : SUBSET Sku, sku : Sku \cup {None},
        suffix : Nat, net : Nat,
        ans : Outcome \cup {"none", "dup", "neterr"}]

TypeOK ==
    /\ row \in Trx
    /\ job \in [Worker -> Job]
    /\ attempts \in Nat
    /\ tried \subseteq Sku
    /\ digi \in [Ref -> Outcome \cup {"none"}]
    /\ digiSku \in [Ref -> Sku \cup {None}]
    /\ cbs \in [Ref -> Nat]
    /\ told \subseteq FinalStatus
    /\ used \in [FaultKind -> Nat]
    /\ \A w \in Worker :
         /\ job[w].pc \in {"call", "log"} => job[w].sku # None /\ job[w].mem.ref # None
         /\ job[w].pc = "notify" => job[w].mem.status \in FinalStatus

Init ==
    /\ row = NoTrx
    /\ job = [w \in Worker |-> Idle]
    /\ attempts = 0
    /\ tried = {}
    /\ digi = [r \in Ref |-> "none"]
    /\ digiSku = [r \in Ref |-> None]
    /\ cbs = [r \in Ref |-> 0]
    /\ told = {}
    /\ used = [k \in FaultKind |-> 0]

Spend(k) ==
    /\ used[k] < Budget[k]
    /\ used' = [used EXCEPT ![k] = @ + 1]

Become(w, j) == job' = [job EXCEPT ![w] = j]
Active(w) == job[w].pc # "idle"

\* A handler whose outcome is decided: it still has to write the row.
Concluded(j, status) == [j EXCEPT !.pc = "persist", !.mem.status = status]

\* A handler that goes round the loop of tryAllSKUs again: with the same SKU
\* (i-- in the code) or the next one, under a new suffix.
SameSkuNewRef(j) == [j EXCEPT !.pc = "store", !.suffix = @ + 1, !.net = 0]
NextSkuSameRef(j) == [j EXCEPT !.pc = "store", !.net = 0, !.todo = @ \ {j.sku}]  \* mutant
NextSkuNewRef(j) == [SameSkuNewRef(j) EXCEPT !.todo = @ \ {j.sku}]

-----------------------------------------------------------------------------
(***************************************************************************)
(* Entry points.                                                           *)
(***************************************************************************)

\* processPrepaid up to the INSERT.
CreateTrx(w) ==
    /\ ~Active(w)
    /\ row.status = "none"
    /\ row' = [NoTrx EXCEPT !.status = "Processing"]
    /\ Become(w, [Idle EXCEPT !.pc = "plan", !.kind = "create", !.mem = row'])
    /\ UNCHANGED <<attempts, tried, external, told, used>>

MayRetryAnything(trx) == TRUE  \* mutant

\* RetryTransaction refuses a Processing transaction that names a ref_id.
MayRetry(trx) == ~(trx.status = "Processing" /\ trx.ref # None)

\* extractRefIDSuffix
SuffixOf(ref) == IF ref = None THEN 0 ELSE ref

\* ManualRetry loads the row; RetryTransaction starts after the last suffix.
ManualRetry(w) ==
    /\ ~Active(w)
    /\ Patient => \A v \in Worker : ~Active(v)
    /\ row.status = "Processing"
    /\ MayRetry(row)
    /\ Spend("manual")
    /\ Become(w, [Idle EXCEPT !.pc = "plan", !.kind = "manual", !.mem = row,
                              !.suffix = SuffixOf(row.ref) + 1])
    /\ UNCHANGED <<row, attempts, tried, external, told>>

\* Mutants: an unknown code is forgotten; an unknown code counts as success.
CallbackMutant(trx, rc, onUnknown) ==
    LET j == [Idle EXCEPT !.kind = "callback", !.mem = trx]
    IN  CASE trx.status \in FinalStatus -> Idle
          [] rc = "success" -> Concluded(j, "Success")
          [] rc \in Retryable -> [j EXCEPT !.pc = "plan"]
          [] rc = "fatal" -> Concluded(j, "Failed")
          [] OTHER -> [Concluded(j, onUnknown) EXCEPT
                          !.pc = IF onUnknown = "none" THEN "idle" ELSE @]
AfterCallbackDropsUnknown(trx, rc) == CallbackMutant(trx, rc, "none")
AfterCallbackTrustsUnknown(trx, rc) == CallbackMutant(trx, rc, "Success")

\* What processCallbackImmediate does with a transaction it found, depending
\* on the response code.  A transaction in a final state is left alone.
AfterCallback(trx, rc) ==
    LET j == [Idle EXCEPT !.kind = "callback", !.mem = trx]
    IN  IF trx.status \in FinalStatus THEN Idle
        ELSE IF rc = "success" THEN Concluded([j EXCEPT !.mem.sent = FALSE], "Success")
        ELSE IF rc \in Retryable THEN [j EXCEPT !.pc = "plan"]
        ELSE Concluded(j, "Failed")

\* ProcessDigiflazzCallback: the transaction is found by its digi_ref_id, or
\* by the id that the ref_id starts with; whether r is the attempt the row
\* names is not looked at.
ReceiveCallback(w, r) ==
    /\ ~Active(w)
    /\ cbs[r] > 0
    /\ row.status # "none"
    /\ Overtake \/ \A v \in Worker :
                      job[v].pc \in {"store", "call", "log", "persist"} => job[v].mem.ref # r
    /\ cbs' = [cbs EXCEPT ![r] = @ - 1]
    /\ Become(w, AfterCallback(row, digi[r]))
    /\ UNCHANGED <<row, attempts, tried, digi, digiSku, told, used>>

-----------------------------------------------------------------------------
(***************************************************************************)
(* The loop over the SKUs.                                                 *)
(***************************************************************************)

\* GetAvailableSKUs (any SKU may be inactive or in its cut-off), then the
\* start of the loop.  RetryWithNextSKU leaves out what transaction_logs
\* names and numbers on from the number of its rows.
Plan(w) ==
    LET j == job[w]
        retry == j.kind = "callback"
    IN  /\ j.pc = "plan"
        /\ \E available \in SUBSET Sku :
             Become(w, [j EXCEPT
                !.pc = "store",
                !.todo = IF retry THEN available \ tried ELSE available,
                !.suffix = IF ~retry THEN @ ELSE IF attempts = 0 THEN 1 ELSE attempts])
        /\ UNCHANGED <<row, attempts, tried, external, told, used>>

\* RetryWithNextSKU cannot read transaction_logs: nothing is retried.
Abandon(w) ==
    /\ job[w].pc = "plan" /\ job[w].kind = "callback"
    /\ Spend("db")
    /\ Become(w, Idle)
    /\ UNCHANGED <<row, attempts, tried, external, told>>

\* No SKU (left) to try: handleAllSKUsFailed.
Exhaust(w) ==
    /\ job[w].pc = "store"
    /\ job[w].todo = {}
    /\ Become(w, Concluded(job[w], "Failed"))
    /\ UNCHANGED <<row, attempts, tried, external, told, used>>

WithRef(j) == [j.mem EXCEPT !.ref = j.suffix]

\* The next SKU in priority order.  The ref_id is written to the row before the
\* call; a failing UPDATE is only logged.
StoreRef(w) ==
    /\ job[w].pc = "store"
    /\ job[w].suffix \in Ref
    /\ \E s \in job[w].todo :
         /\ \A t \in job[w].todo : s <= t
         /\ Become(w, [job[w] EXCEPT !.pc = "call", !.mem = WithRef(job[w]), !.sku = s])
    /\ \/ row' = WithRef(job[w]) /\ UNCHANGED used
       \/ Spend("db") /\ UNCHANGED row
    /\ UNCHANGED <<attempts, tried, external, told>>

\* A request reaches Digiflazz.  It is idempotent: a ref_id it knows gets the
\* answer it had, and RC 49 when it comes with another SKU.
Submit(r, s, o) ==
    /\ digi[r] = "none"
    /\ digi' = [digi EXCEPT ![r] = o]
    /\ digiSku' = [digiSku EXCEPT ![r] = s]

Answer(w, ans) == Become(w, [job[w] EXCEPT !.pc = "log", !.ans = ans])

CallAnswered(w) ==
    LET r == job[w].mem.ref
        s == job[w].sku
    IN  /\ job[w].pc = "call"
        /\ \/ \E o \in Outcome :
                /\ Submit(r, s, o)
                /\ IF o = "wait" THEN Spend("wait") ELSE UNCHANGED used
                /\ Answer(w, o)
           \/ /\ digi[r] # "none"
              /\ Answer(w, IF digiSku[r] = s THEN digi[r] ELSE "dup")
              /\ UNCHANGED <<digi, digiSku, used>>
        /\ UNCHANGED <<row, attempts, tried, cbs, told>>

\* The request or its answer is lost.
CallLost(w) ==
    LET r == job[w].mem.ref
        s == job[w].sku
    IN  /\ job[w].pc = "call"
        /\ Spend("net")
        /\ \/ \E o \in Outcome \ {"wait"} : Submit(r, s, o)
           \/ UNCHANGED <<digi, digiSku>>
        /\ Answer(w, "neterr")
        /\ UNCHANGED <<row, attempts, tried, cbs, told>>

\* Mutants: a pending purchase is passed over, failed or trusted.
BranchMutant(j, onPending) ==
    CASE j.ans = "success" -> {Concluded(j, "Success")}
      [] j.ans = "pending" -> onPending
      [] j.ans = "fatal" -> {Concluded(j, "Failed")}
      [] OTHER -> {NextSkuNewRef(j)}
NextJobTrustsPending(j) == BranchMutant(j, {Concluded(j, "Success")})

\* The branch on the response code.  While a handler waits to try again its
\* context may end: the client hung up, or the 30 seconds of a callback handler
\* are over, which they always are before the 60 seconds of RC 85 and 86.
NextJob(j) ==
    CASE j.ans = "success" -> {Concluded(j, "Success")}
      [] j.ans = "pending" -> {Concluded(j, "Processing")}
      [] j.ans = "fatal" -> {Concluded(j, "Failed")}
      [] j.ans = "dup" -> {SameSkuNewRef(j)}
      [] j.ans = "wait" -> {Concluded(j, "Failed")}
                              \cup (IF j.kind = "callback" THEN {} ELSE {SameSkuNewRef(j)})
      [] j.ans = "neterr" /\ j.net < MaxNetRetry ->
            {Concluded(j, "Failed"), [j EXCEPT !.pc = "store", !.net = @ + 1]}
      [] OTHER -> {NextSkuNewRef(j)}

\* logAttempt, then the branch.
HandleAnswer(w) ==
    /\ job[w].pc = "log"
    /\ attempts' = attempts + 1
    /\ tried' = tried \cup {job[w].sku}
    /\ \E j \in NextJob(job[w]) : Become(w, j)
    /\ UNCHANGED <<row, external, told, used>>

-----------------------------------------------------------------------------
(***************************************************************************)
(* Writing the result and telling the client.                              *)
(***************************************************************************)

\* The UPDATE of handleSuccess, handlePending, handleFatal,
\* handleAllSKUsFailed and processCallbackImmediate.
Persist(w) ==
    /\ job[w].pc = "persist"
    /\ \/ /\ row' = job[w].mem
          /\ Become(w, IF job[w].mem.status \in FinalStatus
                       THEN [job[w] EXCEPT !.pc = "notify"] ELSE Idle)
          /\ UNCHANGED used
       \/ /\ Spend("db")
          /\ Become(w, Idle)
          /\ UNCHANGED row
    /\ UNCHANGED <<attempts, tried, external, told>>

NotifyMarksAnyway(w) ==  \* mutant: a failed delivery counts as sent
    LET mem == [job[w].mem EXCEPT !.sent = TRUE]
    IN  /\ job[w].pc = "notify"
        /\ Become(w, Idle)
        /\ row' = mem
        /\ told' \in {told, told \cup {mem.status}}
        /\ UNCHANGED <<attempts, tried, external, used>>

\* SendCallback: after a delivery it writes the whole row once more.
Notify(w) ==
    LET mem == [job[w].mem EXCEPT !.sent = TRUE]
    IN  /\ job[w].pc = "notify"
        /\ Become(w, Idle)
        /\ \/ /\ told' = told \cup {mem.status}
              /\ \/ row' = mem /\ UNCHANGED used
                 \/ Spend("db") /\ UNCHANGED row
           \/ UNCHANGED <<row, told, used>>
        /\ UNCHANGED <<attempts, tried, external>>

\* The process that runs w dies.
Crash(w) ==
    /\ Active(w)
    /\ Spend("crash")
    /\ Become(w, Idle)
    /\ UNCHANGED <<row, attempts, tried, external, told>>

\* Digiflazz settles a pending purchase and sends the callback, perhaps twice.
Resolve(r) ==
    /\ digi[r] = "pending"
    /\ \E o \in Outcome \ {"pending", "wait"} : digi' = [digi EXCEPT ![r] = o]
    /\ \/ cbs' = [cbs EXCEPT ![r] = 1] /\ UNCHANGED used
       \/ cbs' = [cbs EXCEPT ![r] = 2] /\ Spend("dup")
    /\ UNCHANGED <<row, job, attempts, tried, digiSku, told>>

-----------------------------------------------------------------------------
WorkerStep(w) ==
    \/ Plan(w) \/ Exhaust(w) \/ StoreRef(w) \/ CallAnswered(w)
    \/ HandleAnswer(w) \/ Persist(w) \/ Notify(w)

Next ==
    \/ \E w \in Worker :
         \/ CreateTrx(w)
         \/ ManualRetry(w)
         \/ \E r \in Ref : ReceiveCallback(w, r)
         \/ WorkerStep(w)
         \/ CallLost(w)
         \/ Abandon(w) \/ Crash(w)
    \/ \E r \in Ref : Resolve(r)

Spec == Init /\ [][Next]_vars

\* A goroutine that can take a step does; Digiflazz settles what is pending
\* and its callback reaches a handler.  Clients and operators owe nothing.
Fairness ==
    /\ \A w \in Worker : WF_vars(WorkerStep(w))
    /\ \A r \in Ref : WF_vars(Resolve(r))
    /\ \A r \in Ref : WF_vars(\E w \in Worker : ReceiveCallback(w, r))

FairSpec == Spec /\ Fairness

-----------------------------------------------------------------------------
(***************************************************************************)
(* Properties.                                                             *)
(***************************************************************************)

\* The customer is never charged twice for one transaction: Digiflazz
\* completes at most one of the purchases asked for under its ref_ids, however
\* the switching of SKUs (tryAllSKUs), the retries from callbacks and the
\* manual retries interleave.
Charged == {r \in Ref : digi[r] = "success"}
NoDoublePurchase == \A r, q \in Charged : r = q

\* A purchase is asked for under a new ref_id only when the ref_ids before it
\* have definitely failed ("We only increment refIDSuffix when we get a
\* DEFINITE response").
NewRefOnlyWhenSettled ==
    \A w \in Worker : job[w].pc = "call" =>
        \A r \in Ref \ {job[w].mem.ref} : digi[r] \notin {"success", "pending"}

\* A transaction reported as Failed has bought nothing and buys nothing any
\* more: no ref_id of it is complete or pending at Digiflazz.
FailedMeansNotCharged ==
    row.status = "Failed" => \A r \in Ref : digi[r] \notin {"success", "pending"}

\* A transaction reported as Success was bought, whatever is lost, repeated or
\* overtaken: no stale copy of the row turns into a Success of its own.
SuccessMeansCharged ==
    /\ row.status = "Success" => Charged # {}
    /\ "Success" \in told => Charged # {}

\* A purchase pending at Digiflazz shows in the row, so that RetryTransaction
\* sees it and refuses ("CRITICAL: Store digiRefID BEFORE making API call for
\* recovery").
PendingIsRecorded == (\E r \in Ref : digi[r] = "pending") => row.ref # None

\* No process has died and no answer was lost so far.
Smooth == used["crash"] + used["net"] = 0

\* A ref_id stands for one SKU ("UNIQUE per SKU attempt"): Digiflazz is never
\* asked for another SKU under a ref_id it knows, although the loop counts in
\* memory and RetryWithNextSKU counts on from the rows of transaction_logs.
\* After a crash the two counts differ.
RefForOneSku == Smooth => \A w \in Worker : job[w].ans # "dup"

\* Success and Failed are final: no handler's write changes them.
FinalIsFinal == [][row.status \in FinalStatus => row'.status = row.status]_row

\* The client never hears both that its transaction succeeded and that it
\* failed, and callback_sent, which SendCallback writes with the rest of its
\* copy, is set only on a row whose status the client was told.
ToldTruly == told # FinalStatus /\ (row.sent => row.status \in told)

\* A transaction that was created reaches a final state, unless a process dies:
\* one that stored a ref_id and never made the call leaves a transaction for
\* which no callback comes and which RetryTransaction refuses to retry.
EventuallyFinal ==
    (row.status = "Processing") ~> (row.status \in FinalStatus \/ ~Smooth)

\* Over a reliable link the whole machinery of attempts, callbacks and retries
\* is a single purchase with a truthful answer.
Contract == INSTANCE PurchaseContract WITH
                open <- {r \in Ref : digi[r] = "pending"},
                bought <- Charged,
                answer <- row.status
KeepsContract == Contract!Spec

-----------------------------------------------------------------------------
(***************************************************************************)
(* Why at most one purchase is ever completed.  There is one token.  A     *)
(* goroutine holds it while it may still ask for a purchase or is about to *)
(* report that there was none; a ref_id holds it from the moment it is     *)
(* pending until the callback of its failure is taken up, for ever if the  *)
(* purchase completes.  The link is reliable when the token is not copied: *)
(* no answer is lost, no callback sent twice, no UPDATE fails, and         *)
(* operators leave alone what somebody works on.                           *)
(***************************************************************************)
Reliable ==
    /\ Budget["net"] = 0 /\ Budget["dup"] = 0 /\ Budget["db"] = 0
    /\ Patient

Live(r) == digi[r] \in {"success", "pending"} \/ cbs[r] > 0

ReportsFailure(w) == job[w].pc = "notify" /\ job[w].mem.status = "Failed"
Holds(w) ==
    \/ job[w].pc \in {"plan", "store", "call"}
    \/ job[w].pc = "log" /\ job[w].ans \notin {"success", "pending"}
    \/ job[w].pc = "persist" /\ job[w].mem.status = "Failed"

OneHolder ==
    /\ \A v, w \in Worker : Holds(v) /\ Holds(w) => v = w
    /\ \A w \in Worker, r \in Ref : Holds(w) => ~Live(r)
    /\ \A q, r \in Ref : Live(q) /\ Live(r) => q = r

\* Once a failure is reported the token is gone.
FailureIsSettled ==
    (row.status = "Failed" \/ \E w \in Worker : ReportsFailure(w)) =>
        /\ \A w \in Worker : ~Holds(w)
        /\ \A r \in Ref : ~Live(r)

\* Digiflazz was asked only for what the row records, and the copies of the
\* row agree on whether it was asked for anything at all.
RowRecordsCalls ==
    /\ row.ref = None => \A r \in Ref : digi[r] = "none"
    /\ \A w \in Worker : Active(w) =>
         /\ job[w].mem.ref = None <=> row.ref = None
         /\ job[w].mem.ref = None => Holds(w) \/ ReportsFailure(w)

CallbacksAreSettled ==
    \A r \in Ref : cbs[r] > 0 => cbs[r] = 1 /\ digi[r] \notin {"none", "pending"}

NothingBeforeCreate ==
    row.status = "none" => row.ref = None /\ \A w \in Worker : ~Active(w)

\* Purchases are asked for only on a copy of the row that says Processing.
WorkIsOpen ==
    \A w \in Worker :
        /\ Active(w) => job[w].mem.status # "none"
        /\ job[w].pc \in {"plan", "store", "call", "log"} => job[w].mem.status = "Processing"

\* The inductive invariant behind NoDoublePurchase, FailedMeansNotCharged,
\* NewRefOnlyWhenSettled and PendingIsRecorded: the token is never copied.
TokenInv ==
    /\ TypeOK
    /\ OneHolder
    /\ FailureIsSettled
    /\ RowRecordsCalls
    /\ CallbacksAreSettled
    /\ NothingBeforeCreate
    /\ WorkIsOpen
=============================================================================
