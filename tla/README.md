# TLA+ models of the GTD gateway

The gateway sells prepaid credit, bill payments, QRIS/virtual-account/e-wallet
payments and payouts to client applications. It buys from providers (Digiflazz,
Kiosbank, Alterra, payment providers) over HTTP, keeps its state in PostgreSQL and
a bill-inquiry cache in Redis, and tells its clients the outcome through callbacks.
The services offer more operations than the program in `cmd/api` starts: the
retry workers, the expiry worker and the provider webhooks are methods other
programs built on the same packages call, on the same database.

There are no in-process locks around a transaction or a payment and no database
transaction spans two statements. Nearly every handler has one shape: *read a row
into a struct, talk to somebody for seconds, write every column back*. Nearly every
interesting question is what happens when two of them overlap or one of them dies.

## Inventory

| Component | State | Operations | What is hard | What makes it correct |
|---|---|---|---|---|
| Prepaid over Digiflazz (`transaction_service.go`, `callback_service.go`, `pkg/digiflazz`) | row of `transactions`, rows of `transaction_logs`, a copy of the row in every handler | `CreateTransaction`, `tryAllSKUs`, Digiflazz callback, `RetryWithNextSKU`, `ManualRetry`, `SendCallback` | SKU switching under new ref_ids, callbacks beside retries, stale copies, crashes | one purchase at most, an answer that agrees with it, a final status that stays |
| Prepaid over several providers (`provider_router.go`) | the row; attempts in memory until `Execute` returns | `Execute`, `executeWithProvider`, `RetryWithNextProvider`, `RetryTransaction` | nothing is stored before a call; options come and go | one purchase at most, only untried providers are retried |
| Postpaid bills (`processInquiry`, `processPayment`, `inquiry_cache.go`) | two Redis keys per inquiry, row of the payment | inquiry, payment, expiry | inquiry is consumed after the payment and does not remember its mode | a bill is paid once, by the provider that quoted it unless the payment came in another mode |
| Payments (`payment_service.go`, `admin_reconciliation_service.go`) | row of `payments`, row of `reconciliations` | create, refresh, cancel, webhook, expire, resolve | all of them overlap on one row | final is final, announced once, never a Success nobody paid |
| Callbacks of transactions (`callback_service.go`, `callback_repo.go`) | row of `callback_logs`, `callback_sent` | `SendCallback`, `RetryPendingCallbacks` | two workers, lost results, clients that cannot be used | bounded attempts, every event of a usable client settled |
| Callbacks of payments (`payment_callback_service.go`) | row of `payment_callback_logs`, `callback_sent` | `EnqueueEvent`, `RetryPendingCallbacks`, operator's `RetryCallback` | first attempt beside the worker, a URL no request can be made to | the same |
| Inbox of Digiflazz callbacks | rows of `digiflazz_callbacks` | insert, process, mark | the id of the row is not returned | nothing: no code reads the mark |
| Server-sent events (`sse/`, `sse_handler.go`) | clients and their buffers under a read-write lock, Redis subscription | register, unregister, count, broadcast, consume, subscribe again, stop | slow readers, streams leaving during a broadcast, a subscription that drops | no send on a closed channel, no event lost that had room, nobody waits for a reader |
| Product catalog (`product_master_service.go`, `product_management_service.go`) | rows of categories, brands, variants, products, SKUs | create, change, delete | references by name, a check before each write, reads whose error is dropped | no product refers to what is gone; names and codes stay unique |
| Providers' prices (`ppob_provider_handler.go`, `ppob_provider_repo.go`) | rows of `ppob_provider_skus`, switches of providers | map, change, delete, synchronise; route, show the best price | the list and the router choose in SQL of their own, the router in one query for each type of product | the price shown is the one a prepaid purchase begins with, and what can be said of it for postpaid |
| Clients and keys, payment methods and bindings, payout routes and methods, QRIS merchants (`client_service.go`, `admin_payment_service.go`, `admin_payout_service.go`, `qris_service.go`) | one row each | read, change, write every column | lost updates; bindings written one by one | an edit stands, a replaced key stays replaced |
| Order intake (`GenerateTransactionID`, `CreatePayment`, `createPaymentWithGeneratedID`) | reference ids and public ids of one day | look up, draw, insert, draw again | check before insert | one reference is one order |
| Failure contract (`provider_public_contract.go`) | none; tables | public code of an answer, choice among attempts | three tables that have to agree | the client hears what it can mend |
| Fees, EMVCo, sandbox, auth, HTTP, storage, scripts | none | pure functions and I/O | | |

**How they interact.** `ManualRetry` and the Digiflazz callback both run the loop over
the SKUs on the row that `CreateTransaction` inserted. Every final status starts
`SendCallback`, which writes the transaction again. `RetryPendingCallbacks` writes
`callback_sent` of the same row. Payments announce through `EnqueueEvent`, whose
result goes into the row of the payment. A reconciliation writes a payment. The router
over providers takes its options from the tables administrators edit, and its last failure
goes through the failure contract to the client. Events for the dashboard go over Redis to
the SSE hub.

## Modules

| Module | Stands for | Correspondence |
|---|---|---|
| `DigiTransaction` | the legacy path, one transaction | `row` is the row; `job[w]` a goroutine with its copy (`mem`) and the locals of `tryAllSKUs` (`todo`, `suffix`, `net`); `digi[r]`, `digiSku[r]`, `cbs[r]` are Digiflazz' side; `attempts`, `tried` are `transaction_logs`. One action per database write or remote call |
| `PurchaseContract` | what a prepaid transaction promises | open and completed purchases, the status the client reads |
| `DigiTransaction_proofs` | theorems about `DigiTransaction` | |
| `ProviderTransaction` | the multi-provider path, one transaction | as above; a purchase is an option and a suffix; `made` and `last` are `ExecuteResult`; `logged` is the provider SKUs in `transaction_logs`; `heard` the public codes of the attempts; `env` the environment a behaviour is in, with the options whose providers name what they accept (`env.named`); `ref` of a copy is `provider_ref_id`, written only when the answer names one |
| `ProviderTransaction_proofs` | theorems about `ProviderTransaction` | |
| `FailureContract` | the public codes of failures | operators: the tables as functions from codes to RCs, `PublicCode` of an answer, `Better` and `Chosen` of several; `ProviderTransaction` extends it |
| `PaymentLifecycle` | one payment | `row`, `job`, the provider's side (`prov`, `hooks`), the clock (`due`), what was announced (`told`), the reconciliation; `used["overlap"]` counts handlers that started while another was at work |
| `PaymentLifecycle_proofs` | theorems about `PaymentLifecycle` | |
| `PostpaidPayment` | inquiries and payments of one reference id | `primary`, `secondary` are the two Redis keys; `row[p]` the row of a payment; `order[<<s, r>>]` what the seller `s` holds for a ref_id, where Digiflazz has a live and a sandbox account (`Legacy`); `quoted` who quoted; `account[p]` whom the payment asks |
| `PostpaidPayment_proofs` | theorems about `PostpaidPayment` | |
| `TrxCallbackDelivery` | one event in `callback_logs` | the first attempt (`first`), the workers (`job`), the row (`log`); `usable`: the client can be read and has a URL a request can be made to |
| `PaymentCallbackDelivery` | one event in `payment_callback_logs` | the same for `EnqueueEvent`, the workers and the operator; `valid`: a request to the payment's URL can be made; `readable`: payment and client can be read |
| `TrxCallbackDelivery_proofs`, `PaymentCallbackDelivery_proofs` | theorems about the two deliveries | |
| `EventHub` | the hub, its lock, streams, notifiers, the Redis bridge | `cast[b]` where a broadcast stands ("send" holds the read lock), `pending` the writer that waits, `channel[s]` and `conn[s]` a stream, `link` the subscription; an event is its broadcaster and its number |
| `EventHub_proofs` | theorems about `EventHub` | |
| `Requests` | how requests to the tables meet | `job[w]` is the request in progress with what it has read; `crossed` the places two of them met at, `blind` a check whose read failed, `constrained` whether the schema has unique constraints |
| `ProductCatalog`, `ProviderPrices` | catalog and prices | the tables as functions from ids to rows, one action for the reads and checks of a request and one for its write |
| `AdminRecords` | what is edited row by row | one table of six per behaviour; a value is the number of the edit that gave it |
| `OrderIntake` | rows of new orders | `trxs`, `pays` the rows, `answers` what clients were told |
| `Office` | the composition of the four | `desks`: which groups of tables are in use in a behaviour |
| `Office_proofs` | theorems about the four and `Office` | |
| `MC*` | instances for TLC | budgets of faults, symmetry |

An action is one step between two points where others can interfere: a database statement or a remote call together
with the branch that follows it. Every fault is bounded by `Budget` (`net`: lost calls; `db`: failing statements;
`dup`: repeated messages; `crash`: a dying process; `manual`, `admin`, `refresh`, `recon`: what people do; `overlap`,
`early`, `pending`: timings that matter; `switch`: a payment in another mode than its inquiry), which are the only
bounds besides the number of SKUs, options and workers, `MaxRef` (suffixes of a ref_id), `MaxAttempt(s)` (the code's
own limit), `MaxFault` (of a payment: faults of all kinds; of a bill: kinds of faults in one behaviour) and
`MaxRequest` (requests to the office).

Digiflazz and the providers are outside `src/`: they are modelled as the code relies
on them, answering a ref_id they know as they answered before.
The program that receives provider webhooks is outside too; `ReportFailure` of
`ProviderTransaction` assumes it finds the transaction with `GetByProviderRefID`.

## Runs

There are twelve runs. Passing runs hold; `Digi_retryrace` and `Prov_forced` check a property taken from a
comment in the code, and TLC finds that the code breaks it in two ways (the findings in `PROJECT.json`).

| Run | Instance | States | Shows |
|---|---|---|---|
| `Digi_reliable` | 2 SKUs, 3 goroutines, a crash, a manual retry, a rate limit, callbacks that overtake answers | 162 000 | the inductive invariant `TokenInv` (one purchase at most, Failed only of what was not bought, a new ref_id only when the old ones failed, a pending purchase is in the row) and the refinement of `PurchaseContract` |
| `Digi_any` | 2 SKUs, a lost call, a repeated callback, a failing statement, operators who do not wait | 726 000 | Success is reported only of what was bought |
| `Digi_orderly` | 3 SKUs, two crashes, two manual retries, a rate limit, fairness | 121 000 | a final status stays, the client hears one, `callback_sent` is truthful; without a crash a ref_id has one SKU and every transaction ends |
| `Digi_retryrace` | a manual retry beside the creating request | | violation: buys twice |
| `Prov_routes` | two environments: 4 options that do not change, 2 crashes, 2 manual retries; or 2 options that come and go, providers that may not name what they accept, a lost call, a failing statement, a repeated report, a hasty operator | 1 500 000 | Success is truthful; the row names a purchase at its provider, or, where that provider names none, nothing or an earlier one that failed; a failed client is told what it can mend; in the first environment also the refinement of `PurchaseContract`, final is final and only untried options are retried |
| `Prov_forced` | 2 options, the second of which a client forces; a crash, a manual retry | | violation: buys twice, since the retry does not know what was forced |
| `Postpaid_bill` | 3 ids, 2 handlers, two providers and two accounts with Digiflazz, with and without a unique reference, one fault of each of any two kinds, fairness | 748 000 | truthful answers; a bill is paid by who quoted it, or by Digiflazz when the payment left the mode of its inquiry; an inquiry is sold once; payments by Digiflazz end |
| `Pay_faults` | 2 handlers, any three of: lost calls, repeated webhooks, a failing write, a crash, refreshes, a reconciliation, overlaps; fairness | 599 000 | no Success nobody paid; a final status was announced; once, and a resolution stands, while handlers come in turn; no payment stays Pending |
| `TrxCb_worker` | two workers that may overlap once, a client that becomes unusable and usable again, a crash, a failing write, fairness | 24 000 | nothing is marked sent that was not answered; every event is settled if its client stays usable from some time on; without overlap attempts are bounded and a delivery stays |
| `PayCb_worker` | first attempt, a worker, an operator, a URL that is valid or not, records that cannot be read for a time, a crash, a failing write, fairness | 179 000 | the same for payments with a valid URL, and the payment remembers its delivery |
| `Sse_hub` | 2 streams, a goroutine and the bridge, channels of capacity 1, 2 events, one drop of the subscription, a shutdown, fairness | 248 000 | no send on a closed channel; a stream misses only what found its buffer full, in order; nobody waits for a reader; the bridge comes back or stops |
| `Office` | 3 requests of 2 goroutines at catalog and prices, at the records or at the orders; with and without constraints; a failing read, failing writes | 837 000 | products keep their master data and can be mended; the price shown is the one a prepaid purchase begins with and no dearer than a priced one a postpaid purchase begins with; edits stand; a reference is one order |

**Bounds.** Two goroutines are enough for any race on one row (two stale copies); the third in `Digi_reliable` lets a
callback arrive while a retry and a notification are under way. With two SKUs the loop switches once, with three it
can also exhaust some SKUs in a callback's retry. `MaxRef` is large enough that no run is stopped by it: the loop uses
one suffix per SKU, one per rate limit and a retry starts one further. Handlers of bills are alike, so that the first
idle one takes what begins (`Active`; the run checks liveness, where TLC's symmetry would not be sound). Three ids are
an inquiry with two payments or two inquiries with one. Two kinds of faults of a bill are a fault and a timing (an
overlap, a payment in another mode) that makes it matter. Three faults of a payment are two handlers that overlap and
two things that go wrong. In `Office` three requests are a cause, an overlap and a later request that sees the result;
two ids, names, codes, rows, keys, references and public ids tell own from other; three providers are two main ones
and a backup, the offers are an unknown and a high price with a low fee and a low price with a high fee, so that the
two queries disagree; the five draws of a payment's id are the code's. A request gives one field or all that it may, a
mapping of a provider is created active (an update may switch it off), and one read fails at most. The groups of
tables share only the products, so catalog and prices are open together and records and orders each alone.

**Conditions.** Some properties carry a condition on what went wrong so far (`used`), because
without it the code does not have the property. The conditions mark the limits of the code:

- `Digi_reliable` assumes a reliable link. After the retries of a network error the loop goes on under a
  new ref_id while the old purchase may be open, and an UPDATE of the ref_id that fails leaves a
  purchase the row does not know; both can buy twice and break `TokenInv` and `KeepsContract`.
- `Digi_orderly` lets callbacks come after the answer was stored: an earlier one writes Success and the
  handler then writes Processing over it. `RefForOneSku` and `EventuallyFinal` hold while nothing crashed
  (`Smooth`): the suffixes counted in memory and those counted from `transaction_logs` differ after a
  crash, and a crash between storing a ref_id and the call leaves a transaction nobody finishes.
- `Prov_routes`: `KeepsContract`, `FinalIsFinal` and `NextIsUntried` speak of the calm environment
  (`Calm`), where answers are not lost, name the purchase, and options are stable: an answer that names none leaves
  `provider_ref_id` as it was, beside the new provider, so that the row of a pending purchase may name none, and then neither a retry is
  refused nor does a webhook find the row (a second purchase follows); after a network error a second provider may take the
  order. It may as well after a crash when the client had forced a provider that is not the first: the retry begins
  at the first (`Prov_forced`); in `Prov_routes` only the first option is forced where processes die.
- `Pay_faults`: `AnnouncedOnce` and `ResolutionStands` hold until two handlers overlap (the former until a write
  fails, too). When two operators resolve one payment, or a customer pays while the cancellation runs, the later write wins and both statuses are announced, although
  `models/payment.go:28` calls a final status one for which "callbacks must not fire again".
- `Postpaid_bill`: `SoldOnce` needs a unique reference or payments in turn, answered at once; in
  `AnswersAreTrue` a Failed payment was not paid only if no answer of a provider other than Kiosbank was lost, and if the reference
  is unique or no payment left the mode of its inquiry: otherwise two payments of one inquiry may ask two accounts under one ref_id, and the callback of one
  concludes the other. `PaidByQuoter` names the code's exception: the cached inquiry does not say whether it was live or
  sandbox, and a payment in the other mode, or without a router, goes to Digiflazz whoever quoted the bill (`transaction_service.go:657`).
- `Office`: each property names what the code does not guard against. `crossed`: two requests met between
  a read and a write; `blind`: the error of a read was dropped ("existing, _ :="); `constrained`: the
  database refuses duplicates (no schema is kept with the code, so both cases are checked);
  `renamed`: a category or brand got a new name, which products do not follow; `halfway`: `UpdateProviders`
  stopped between two bindings; `rekeyed`: an update changed a client id, which nothing checks.
- The delivery modules: `SKIP LOCKED` outside a database transaction keeps no lock, so two workers may
  deliver one event ("overlap"); an operator writes a stale copy ("admin"); and a freshly inserted row of
  `payment_callback_logs` could be taken by the worker during its first attempt (constant `Prompt`).
  `EventuallySettled` speaks of clients that can be used from some time on, and of payments to whose URL a request can be made:
  `RetryPendingCallbacks` passes over the row of another one (`Skip`) without counting an attempt or moving `next_retry_at`, and
  `markFailure` of a request that cannot be made (`Refuse`) counts the first attempt only, so that the row is selected for ever.
  Such rows also take places of the worker's batch (`LIMIT`), which a model of one event does not show.
  The first interval (30 seconds) of a transaction callback is never used: the number of the attempt
  is already 1 when the list is indexed.

**Deadlock** is not checked where a settled transaction or payment really has nothing left to do. In the two delivery runs the
client's records may always change once more, so that the check is on and shows nothing; that workers get on is `EventuallySettled`.

**Fairness.** A goroutine that can take a step takes it (the Go scheduler; all calls have
timeouts). Digiflazz settles what is pending and its callback reaches a handler, which is
what the code relies on when it answers "please wait for callback". Time passes (`Deadline`,
`Elapse`), and workers keep polling and passing over what they cannot use. Clients, operators and faults owe nothing. In `EventHub` entering the
lock as a reader is strongly fair, since streams that come and go may close it again and again and
`sync.RWMutex` lets every waiting goroutine in; the streams' `Receive` is not fair at all, because an
administrator may stop reading.

**Refinement.** Under the budget of `Digi_reliable` and in the calm environment of `Prov_routes` both paths implement
`PurchaseContract`: open, bought and answer are defined from the provider's side and the row.

## Proofs

`DigiTransaction_proofs` (TLAPS, as the others) holds for any number of SKUs, suffixes, goroutines and any budgets.

- `TypeCorrect`: the type invariant.
- `SuccessIsCharged`: Success is never reported of a purchase that was not completed,
  under every fault. The invariant is `TruthInv`: every copy of the row, and what the client was
  told, says Success only if some purchase is complete, and completed purchases stay so. It has to
  cover the copies because each of them may be written to the row at any time.
- Under the assumption `Reliable` (no lost call, no repeated callback, no failing statement, operators
  who wait until nobody works on the transaction; processes may still die and the rate may be
  limited): `TokenCorrect`, and from it `ChargedOnce`, `FailedIsNotCharged`, `NewRefIsSettled`,
  `PendingInRow` and the refinement `ImplementsContract`. `Digi_retryrace` and the list of conditions
  above say what fails as soon as a part of the assumption is dropped.
- Under `Reliable` and without callbacks that overtake answers (`~Overtake`): `HandlersTakeTurns`, and from its invariant `OrderInv` (the row
  says Processing until the one at work has stored its answer; a purchase still open is one it is about to store; what was told is the status
  of the row) `FinalStatusStays` and
  `ClientToldTruly`. `RefIdsAreFresh` needs `CountInv` as well: until a process dies, the suffixes counted in memory are those counted
  from `transaction_logs` (`Counted`). A callback that overtakes is overwritten by the handler's Processing, which is why the
  theorems exclude it.

The argument behind `TokenInv`: the right to ask for a purchase, or to report that there was
none, is a token. A goroutine holds it from the moment it may ask until it has learnt of a pending
or complete purchase or reported Failed; a ref_id holds it while it is pending, complete or has a
callback under way. `OneHolder` says it is never in two hands. For that to be inductive one needs that a
reported failure has used it up (`FailureIsSettled`), that the row names a ref_id whenever Digiflazz was
asked, so that `MayRetry` does not hand out a second token (`RowRecordsCalls`), that callbacks are sent
once and about settled purchases (`CallbacksAreSettled`), and that copies are those of an open transaction.

`ProviderTransaction_proofs` holds for any number of options and goroutines, any answers and any environment:

- `SuccessIsCharged` and `RefsMatch`: the invariant `TruthInv` says of the row and of every copy that Success means a
  completed purchase and that a ref_id names a purchase its provider has answered: one at the provider of the row, or, if that one names
  none, one that failed before; it stays true of stale copies because
  providers take nothing back (`Grown`). That every attempt has a suffix (`Room`: the options left and the suffixes used
  are no more than the options) is part of the type invariant.
- `FinalStatusStays`: in a calm environment (`Calm`) handlers take turns. `Turns` says that one is at work, that the row
  says Processing until it has stored what it learnt (`RowFollows`), and that it starts from a purchase that failed and whose failure nobody
  will report again (`OldIsSettled`).
- `RetryIsUntried`: in a calm environment, as long as no process died, what was asked is in `transaction_logs` or in the memory of
  the one who will log it (`Recorded`).
- `RoutingKeepsContract`, the refinement of `PurchaseContract`, in a calm environment through any crashes and retries: `Single` says that
  one purchase is pending or complete. What a crash forgets is asked again under the same ref_id, because the attempts climb a ladder: every
  option before the last one asked has failed, and the suffix counts them (`Ladder`, `Climbs`). The hypothesis `ForcedFirst` says that
  a client forces the first option or no process dies; `Prov_forced` shows that it is needed.
- `ClientHearsWhatItCanMend`: while it asks, a handler holds the code that comes first of those it has heard (`Keeps`), and the
  codes a client can mend come before the others (`ClientErrorsFirst`, from the two tables). It assumes `TablesAreFunctions`,
  which TLC evaluates.

`PaymentLifecycle_proofs` holds for any number of handlers, however they overlap, and any budget:

- `SuccessIsReal`: the invariant `Grounded` says of the row, the webhooks, the copies, the events still to be told and what
  was told that Success is there only if the payment was collected. It needs that a payment is created once (`CreatedOnce`), because a second
  creation would reset the provider's side, and that webhooks and operators bring final statuses (`WellFormed`).
- `FinalIsTold`: whoever is about to write a final status announces it afterwards, unless the copy had that status, and then it
  was announced before (`AnnounceInv`, `AnnouncedStays`).
- `ResolutionHolds` and `ToldOnce`: until two handlers overlap, and for the latter until a write fails (`used`, whose counts are never
  taken back). `TurnInv` says that there is one handler, that the status it was started for still stands, and that a closed reconciliation
  leaves nothing to do; `OnceInv` that a handler about to announce is the first. The list of conditions above says what
  overlapping handlers do to them.

`PostpaidPayment_proofs` holds for any number of ids, providers and goroutines and any budget, with a unique reference or without:

- `BillCorrect`: the invariant `BillInv`. An id drawn for a request is in the hands of one goroutine until it is in the table (`OwnerInv`), so that
  nobody else asks under it; a payment buys under the id of its inquiry, and under its own only after a callback said that the first
  order failed (`OrdersInv`), and its row is as it was inserted until the first answer is stored (`PaymentInv`).
- `AnswersTrue`: the row, and the copy of whoever is about to write it, say Success only of what was paid, and Failed of what was
  paid nowhere, unless an answer was lost or, without a unique reference, a payment left the mode of its inquiry (`TruthInv`).
- `QuoterPaid`: a quote in the cache or in a handler is the seller's own (`QuoteInv`), and a payment asks that one or an account with
  Digiflazz, the latter of another's quote only if it left the mode of the inquiry or found no router.
- `OneSale`: with a unique reference there is one payment at all (`UniqueInv`); without it, while payments come in turn and are answered, whoever has paid
  is about to consume the inquiry that nobody else has taken (`CalmInv`).

`TrxCallbackDelivery_proofs` and `PaymentCallbackDelivery_proofs` hold for any limit, list of delays and budget:

- `SentOnlyIfHeard`, for any number of workers, overlapping as they like: the invariant `HeardInv` says
  of every copy of the row, and of every process about to set the flag, what the property says of the row.
- `DeliveryIsFlagged` (payments): a delivered row is flagged or its writer is about to flag it (`FlagInv`), for which
  one must know that an operator about to write back a copy holds one that is not delivered.
- `CallsAreBounded` and `DeliveredIsForGood`: as long as no two workers hold an event of a transaction at once, or, for
  payments, with one worker and no operator (`OneWorker`). The invariant `CountInv` says that at most one process is busy,
  that its copy agrees with the row (`Alone`), and that each attempt the row does not count is
  in the copy about to be stored, or was lost in a crash or a failing write (`Counted`). The premises are
  needed: `UpdateCallbackLog` and `UpdatePaymentCallbackLog` write every column of a copy,
  so that a stale one takes back counts and marks.

`EventHub_proofs` holds for any number of streams, broadcasters and events, and any capacity:

- `NoSendOnClosed` (`NeverPanics`), from `HubCorrect`: the invariant `HubInv`. The property is not inductive: that `Unregister`
  may close a channel needs that nobody is inside the read lock, hence that who is not inside holds no clients (`LockInv`),
  that only the announced writer is about to register or to unregister, and that a client is exactly a
  stream whose channel is open. `LinkInv` says the bridge broadcasts a message it has.
- `EveryEventAccounted` (`NothingMissed`): an event sent since a stream was registered is in its channel, received, dropped at a full buffer or
  still to be sent by the broadcast under way (`AccountedInv`); an event in a channel is older than what its broadcaster will send
  (`OlderInv`), so that what one broadcaster sent stays in order (`OrderInv`).

`Office_proofs` holds for any number of goroutines, rows, names, providers and keys, any bound on requests, any desks open together, and with constraints or
without. `OfficeHolds` is the inductive invariant `OfficeInv`, from which the properties of the run follow (`CatalogStaysConsistent`,
`MendableOneByOne`, `PricesShownArePaid`, `EditsStayMade`, `OrdersHaveOneRow`):

- a place that is not `crossed` is written by one request in progress at most, and read by no other (`Met`), so that what a request read
  and checked there still holds when it writes. `CatalogChecked`, `PriceChecked`, `RecordRead` and `LookedUp` say for each kind of request what
  that is: the name is free, the entry exists, the copy is the row, nobody has the reference;
- the two queries of the router share `Offered` and the backups at the end, so that the best price is the least of the prepaid options before them
  (`LeastPrice`: a set of prices has a least one, since < is well-founded) and a lower bound for what the postpaid ones cost;
- the tables then keep what the checks are for: no two rows with one name, code, pair or reference, no product with a reference that is
  stale for no named reason (`MayBeStale`), no column that is not the last edit's (`Stands`), every answer in a row (`AnswersKnown`);
- a step at one desk leaves the tables and the requests of the others alone (`Serves`), so that the parts are proved apart.

It rests on the assumptions on the constants that `ProductCatalog` and `AdminRecords` state: some name and some key exist, and what stands
for "no value" is none.

Every invariant and every safety property of the passing runs is stated by a theorem. Only model-checked are the four liveness properties
(`EventuallyFinal`, `EventuallySettled`, `NobodyWaitsForReaders`, `BridgeReturns`), because the prover does not handle fairness or `ENABLED`.
Induction over data and recursive operators are beyond the prover as well; no theorem needs them: `MaxFault` bounds a fold over the
faults, and no proof uses that bound.

## Plan

1. *Done:* `PurchaseContract`, `DigiTransaction`, `ProviderTransaction` with `FailureContract`, `PaymentLifecycle`,
   `PostpaidPayment`, the two deliveries, `EventHub` and the tables of `Office`, each with its proofs.
2. The conditions of `DigiTransaction_proofs` as counts of what happened so far instead of assumptions on the budget, as in
   `PaymentLifecycle` and `ProviderTransaction`.
3. `PaymentLifecycle` composed with the delivery of its events (the `callback_sent` that `UpdatePayment` takes back).

## Not modelled

- Fees: `CalculateFee` is one expression in floating point with two clamps, better tested than modelled.
- The mark `is_processed` of the Digiflazz inbox: no code reads it. What a callback does is in
  `DigiTransaction` and `PostpaidPayment`.
- The checksum and the parsing of QR codes (EMVCo): bitwise arithmetic over strings. What a readable code brings
  to a merchant is in `AdminRecords`. QRIS documents are made by another program and only read or revoked here.
- Health figures of providers: counters that no decision reads.
- Descriptions of failures: only the codes are modelled, not the wording and its sanitizing.
- Lists, filters and statistics only read; the upserts of the catalog import have no caller, nor has
  `UpdateProviderSKUPrice`, which is modelled all the same (`SyncPrice`), as it is what a price synchronisation writes.
- Formatting of responses, logging, authentication, the HTTP layer, object storage, the sandbox table and the
  scripts keep no state that interacts with the above.

PostgreSQL and Redis are assumed to execute single statements atomically. The database schema is
not in the repository: uniqueness constraints are assumed only where the code handles their violation, and
`Office` and `Postpaid_bill` are checked without them as well.
