------------------------ MODULE ProviderTransaction ------------------------
(***************************************************************************)
(* One prepaid transaction on the multi-provider path: the request that    *)
(* creates it, the manual retry and the retry after a provider reported a  *)
(* failure, each running ProviderRouter.Execute over the options of the    *)
(* product and then logging the attempts, writing the row and telling the  *)
(* client.  Unlike the Digiflazz path, nothing is stored before a call:    *)
(* the attempts live in the memory of the goroutine until Execute returns. *)
(*                                                                         *)
(* An option is a provider's SKU for the product, one for each provider;   *)
(* options are numbered in the order of GetProvidersForProduct.  A         *)
(* purchase is an option and the suffix of the ref_id it was asked for     *)
(* under; a provider answers a ref_id it knows as it did before.           *)
(***************************************************************************)
EXTENDS FailureContract, FiniteSets

CONSTANTS
    NOption,    \* there are options 1..NOption
    Backup,     \* the options of backup providers, the last ones
    Forced,     \* the options clients may ask for by name
    Worker,     \* goroutines that may run a handler at one time
    None,       \* a NULL column
    Provider,   \* Provider[o]: the provider of the option o
    Refusals,   \* Refusals[o]: the answers by which it may refuse
    Loss,       \* the text of an error and the number in it, when a call is lost
    Scenario    \* the environments to be met

Option == 1..NOption
Purchase == Option \X (0..NOption)

FaultKind == {"net", "crash", "db", "manual", "dup"}

\* How many faults of each kind an environment may cause; the options of the
\* product, and those whose providers name every purchase they accept (a
\* provider_ref_id); whether all are available, in one order, all the time;
\* whether operators retry only what nobody is working on.
Environment == [budget : [FaultKind -> Nat], offer : SUBSET Option, named : SUBSET Option,
                stable : BOOLEAN, patient : BOOLEAN]

ASSUME ConstAssumption ==
    /\ NOption \in Nat
    /\ Backup \subseteq Option /\ Forced \subseteq Option
    /\ \A o \in Option \ Backup, b \in Backup : o < b
    /\ None \notin Option /\ None \notin Purchase
    /\ None \notin Code
    /\ Scenario \subseteq Environment
    /\ \A o \in Option : \A r \in Refusals[o] : r.public \in Code \cup {""}

FinalStatus == {"Success", "Failed"}
Trx == [status : FinalStatus \cup {"none", "Processing"},
        ref : Purchase \cup {None}, opt : Option \cup {None},
        code : Code \cup {None}]
NoTrx == [status |-> "none", ref |-> None, opt |-> None, code |-> None]

VARIABLES
    env,     \* the environment of this behaviour
    row,     \* the row of transactions: provider_ref_id, provider_sku_id, failed_code
    job,     \* job[w]: what the goroutine w is doing, and its copy of the row
    logged,  \* provider_sku_id of the rows of transaction_logs
    prov,    \* prov[p]: what the provider holds for the purchase p
    hooks,   \* purchases whose failure a provider is reporting
    told,    \* final statuses the client was notified of
    used     \* faults the environment has caused so far

vars == <<env, row, job, logged, prov, hooks, told, used>>
external == <<env, prov, hooks>>

Idle == [pc |-> "idle", kind |-> "none", mem |-> NoTrx, todo |-> {},
         suffix |-> 0, made |-> {}, last |-> None, best |-> NoCode, heard |-> {}]

Job == [pc : {"idle", "options", "ask", "log", "persist", "notify"},
        kind : {"none", "execute", "forced", "retry"},
        mem : Trx, todo : SUBSET Option, suffix : 0..NOption,
        made : SUBSET Purchase,         \* ExecuteResult.Attempts
        last : Option \cup {None},      \* ExecuteResult.ProviderUsed
        best : Code \cup {NoCode},      \* the code of the failures so far
        heard : SUBSET Code]            \* the codes of those that count

Init ==
    /\ env \in Scenario
    /\ row = NoTrx
    /\ job = [w \in Worker |-> Idle]
    /\ logged = {}
    /\ prov = [p \in Purchase |-> "none"]
    /\ hooks = {}
    /\ told = {}
    /\ used = [k \in FaultKind |-> 0]

Spend(k) == used[k] < env.budget[k] /\ used' = [used EXCEPT ![k] = @ + 1]
Active(w) == job[w].pc # "idle"
Become(w, j) == job' = [job EXCEPT ![w] = j]

\* Execute is about to start on a copy of the row.
Starts(kind, trx) == [Idle EXCEPT !.pc = "options", !.kind = kind, !.mem = trx]

-----------------------------------------------------------------------------
(***************************************************************************)
(* Entry points.                                                           *)
(***************************************************************************)

\* processPrepaid up to the INSERT, for a product with options (without any
\* the transaction goes the way of DigiTransaction).
CreateTrx(w) ==
    /\ ~Active(w)
    /\ row.status = "none"
    /\ row' = [NoTrx EXCEPT !.status = "Processing"]
    /\ \/ Become(w, Starts("execute", row'))
       \/ \E o \in Forced \cap env.offer : Become(w, [Starts("forced", row') EXCEPT !.todo = {o}])
    /\ UNCHANGED <<logged, external, told, used>>

MayRetryAnything(trx) == TRUE  \* mutant

\* RetryTransaction refuses a Processing transaction that names a purchase.
MayRetry(trx) == ~(trx.status = "Processing" /\ trx.ref # None)

\* ManualRetry, RetryTransaction: without exclusions, and without the option
\* the client asked for.
ManualRetry(w) ==
    /\ ~Active(w)
    /\ env.patient => \A v \in Worker : ~Active(v)
    /\ row.status = "Processing" /\ MayRetry(row)
    /\ Spend("manual")
    /\ Become(w, Starts("execute", row))
    /\ UNCHANGED <<row, logged, external, told>>

\* A provider reports that the purchase the row names has failed; the webhook
\* handler, which is not in this repository, finds the transaction
\* (GetByProviderRefID) and calls RetryWithNextProvider.
ReportFailure(w, p) ==
    /\ ~Active(w)
    /\ p \in hooks
    /\ row.status = "Processing" /\ row.ref = p
    /\ \/ hooks' = hooks \ {p} /\ UNCHANGED used
       \/ Spend("dup") /\ UNCHANGED hooks
    /\ Become(w, Starts("retry", row))
    /\ UNCHANGED <<env, row, logged, prov, told>>

-----------------------------------------------------------------------------
(***************************************************************************)
(* ProviderRouter.Execute and executeWithProvider.                         *)
(***************************************************************************)

TriedForgotten(j) == {}  \* mutant

\* getTriedProviderSKUs
Tried(j) == IF j.kind = "retry" THEN logged ELSE {}

\* GetProvidersForProduct: an option may be switched off, unpriced, without a
\* client or unhealthy.  A failing query ends RetryWithNextProvider, and fails
\* the transaction elsewhere.
Options(w) ==
    LET j == job[w] IN
    /\ j.pc = "options"
    /\ \/ /\ \E available \in IF env.stable THEN {env.offer} ELSE SUBSET env.offer :
               Become(w, [j EXCEPT !.pc = "ask",
                             !.todo = IF j.kind = "forced" THEN j.todo \cap available
                                      ELSE available \ Tried(j)])
          /\ UNCHANGED used
       \/ /\ Spend("db")
          /\ Become(w, IF j.kind = "retry" THEN Idle
                       ELSE [j EXCEPT !.pc = "log",
                                      !.mem = [@ EXCEPT !.status = "Failed",
                                                        !.code = Chosen(NoCode)]])
    /\ UNCHANGED <<row, logged, external, told>>

\* The option whose turn it is: the backup providers come last.
Turn(todo, o) ==
    /\ o \in todo
    /\ o \in Backup => todo \subseteq Backup
    /\ env.stable => \A q \in todo : o <= q

\* One more attempt in the result, a failure or an error for which there is the
\* public code "code"; the loop moves on.
Attempted(j, o, code) ==
    [j EXCEPT !.made = @ \cup {<<o, j.suffix>>}, !.last = o,
              !.todo = @ \ {o}, !.suffix = @ + 1,
              !.best = Better(@, code), !.heard = @ \cup {code}]

\* Execute returns an answer of the option o; the row will say so, with the
\* purchase r.
Accepted(j, o, status, r) ==
    [j EXCEPT !.made = @ \cup {<<o, j.suffix>>}, !.last = o, !.pc = "log",
              !.mem = [status |-> status, opt |-> o, ref |-> r, code |-> None]]

\* The purchase is the one that was asked for if the answer names it; else the
\* copy keeps what it named before, or nothing.
NamedBy(j, o) == {<<o, j.suffix>>} \cup IF o \in env.named THEN {} ELSE {j.mem.ref}
AcceptedAs(j, o, status) == {Accepted(j, o, status, r) : r \in NamedBy(j, o)}

\* A failure may name a purchase (a provider_ref_id) or not.
Rejected(j, opt, code, refs) ==
    {[j EXCEPT !.pc = "log", !.mem = [status |-> "Failed", opt |-> opt, ref |-> r, code |-> code]] :
        r \in refs \cup {j.mem.ref}}

\* Execute returns the refusal of the option o, and asks nobody what was heard before.
LastWord(j, o, code) == [Attempted(j, o, code) EXCEPT !.heard = {code}]

\* Mutants: a pending purchase is passed over, failed or trusted.
AfterMutant(j, o, ans, code, onPending) ==
    CASE ans = "success" -> AcceptedAs(j, o, "Success")
      [] ans = "pending" -> onPending
      [] OTHER -> IF j.kind = "forced" \/ o \in Backup
                  THEN Rejected(LastWord(j, o, code), o, code, {})
                  ELSE {Attempted(j, o, code)}
AfterForgetsPending(j, o, ans, code) ==
    AfterMutant(j, o, ans, code, Rejected(Attempted(j, o, Default), o, Default, {}))
AfterTrustsPending(j, o, ans, code) == AfterMutant(j, o, ans, code, AcceptedAs(j, o, "Success"))
AfterKeepsOption(j, o, ans, code) ==
    AfterMutant(j, o, ans, code,
                {[k EXCEPT !.mem.opt = j.mem.opt] : k \in AcceptedAs(j, o, "Processing")})

\* The branch on the answer.  A failure of a backup provider ends the loop;
\* a failure or a network error of another option leads to the next one, under
\* the next suffix.  The attempt of a forced option is forgotten when its call fails.
After(j, o, ans, code) ==
    CASE ans = "success" -> AcceptedAs(j, o, "Success")
      [] ans = "pending" -> AcceptedAs(j, o, "Processing")
      [] ans = "failed" /\ (j.kind = "forced" \/ o \in Backup) ->
            Rejected(LastWord(j, o, code), o, code, {<<o, j.suffix>>})
      [] ans = "neterr" /\ j.kind = "forced" -> Rejected(j, j.mem.opt, Chosen(NoCode), {})
      [] OTHER -> {Attempted(j, o, code)}

\* The public code of the answer, for a payment.
CodesOf(o, ans) ==
    CASE ans = "failed" -> {PublicCode(Provider[o], "initial_payment", r) : r \in Refusals[o]}
      [] ans = "neterr" ->
            {PublicCode(Provider[o], "initial_payment",
                        FromError(Provider[o], "initial_payment", e[1], e[2])) : e \in Loss}
      [] OTHER -> {NoCode}

Asked(w, o, ans) ==
    \E code \in CodesOf(o, ans) : \E j \in After(job[w], o, ans, code) : Become(w, j)

\* A call that is answered.
Ask(w) ==
    /\ job[w].pc = "ask"
    /\ \E o \in Option :
         LET p == <<o, job[w].suffix>> IN
         /\ Turn(job[w].todo, o)
         /\ \/ prov[p] # "none" /\ Asked(w, o, prov[p]) /\ UNCHANGED prov
            \/ /\ prov[p] = "none"
               /\ \E ans \in {"success", "pending", "failed"} :
                    prov' = [prov EXCEPT ![p] = ans] /\ Asked(w, o, ans)
    /\ UNCHANGED <<env, row, logged, hooks, told, used>>

\* A call that is lost, or whose answer is.
AskInVain(w) ==
    /\ job[w].pc = "ask"
    /\ Spend("net")
    /\ \E o \in Option :
         LET p == <<o, job[w].suffix>> IN
         /\ Turn(job[w].todo, o)
         /\ \/ UNCHANGED prov
            \/ /\ prov[p] = "none"
               /\ \E ans \in {"success", "pending", "failed"} : prov' = [prov EXCEPT ![p] = ans]
         /\ Asked(w, o, "neterr")
    /\ UNCHANGED <<env, row, logged, hooks, told>>

\* No option (left): the answer is built from the best ranked attempt, which
\* may be any, and names the provider of the last one.  A retry that finds no
\* option at all tells what the provider reported.
Exhaust(w) ==
    LET j == job[w]
        reported == IF j.kind = "retry" /\ j.made = {} THEN CodesOf(j.mem.opt, "failed") ELSE {}
    IN
    /\ j.pc = "ask" /\ j.todo = {}
    /\ \E code \in {Chosen(j.best)} \cup reported :
         \E k \in Rejected(j, IF j.last = None THEN j.mem.opt ELSE j.last, code, j.made) : Become(w, k)
    /\ UNCHANGED <<row, logged, external, told, used>>

-----------------------------------------------------------------------------
(***************************************************************************)
(* What executeWithProviderRouter does with the result.                    *)
(***************************************************************************)

\* logProviderAttempts: a failing INSERT is only logged.
LogAttempts(w) ==
    LET options == {p[1] : p \in job[w].made} IN
    /\ job[w].pc = "log"
    /\ \/ logged' = logged \cup options /\ UNCHANGED used
       \/ Spend("db") /\ \E o \in options : logged' = logged \cup (options \ {o})
    /\ Become(w, [job[w] EXCEPT !.pc = "persist"])
    /\ UNCHANGED <<row, external, told>>

\* The UPDATE of handleProviderSuccess, -Pending and -Failed: every column,
\* whatever the row says by now.
Persist(w) ==
    /\ job[w].pc = "persist"
    /\ \/ /\ row' = job[w].mem
          /\ Become(w, IF job[w].mem.status \in FinalStatus
                       THEN [job[w] EXCEPT !.pc = "notify"] ELSE Idle)
          /\ UNCHANGED used
       \/ Spend("db") /\ Become(w, Idle) /\ UNCHANGED row
    /\ UNCHANGED <<logged, external, told>>

\* SendCallback; it writes the row again when the client has answered.
Notify(w) ==
    /\ job[w].pc = "notify"
    /\ Become(w, Idle)
    /\ \/ /\ told' = told \cup {job[w].mem.status}
          /\ \/ row' = job[w].mem /\ UNCHANGED used
             \/ Spend("db") /\ UNCHANGED row
       \/ UNCHANGED <<row, told, used>>
    /\ UNCHANGED <<logged, external>>

Crash(w) ==
    /\ Active(w)
    /\ Spend("crash")
    /\ Become(w, Idle)
    /\ UNCHANGED <<row, logged, external, told>>

\* A provider settles a pending purchase.
Settle(p) ==
    /\ prov[p] = "pending"
    /\ \/ prov' = [prov EXCEPT ![p] = "success"] /\ UNCHANGED hooks
       \/ prov' = [prov EXCEPT ![p] = "failed"] /\ hooks' = hooks \cup {p}
    /\ UNCHANGED <<env, row, job, logged, told, used>>

Next ==
    \/ \E w \in Worker :
         \/ CreateTrx(w) \/ ManualRetry(w)
         \/ \E p \in Purchase : ReportFailure(w, p)
         \/ Options(w) \/ Ask(w) \/ AskInVain(w) \/ Exhaust(w)
         \/ LogAttempts(w) \/ Persist(w) \/ Notify(w)
         \/ Crash(w)
    \/ \E p \in Purchase : Settle(p)

Spec == Init /\ [][Next]_vars

-----------------------------------------------------------------------------
(***************************************************************************)
(* Properties.                                                             *)
(***************************************************************************)
Open == {p \in Purchase : prov[p] = "pending"}
Bought == {p \in Purchase : prov[p] = "success"}

\* Answers arrive and name what was bought, statements succeed, reports come
\* once, operators wait.
Calm == /\ env.stable /\ env.patient /\ env.named = Option
        /\ \A k \in {"net", "db", "dup"} : env.budget[k] = 0

\* A transaction reported as Success was bought, whatever is lost, repeated or
\* overwritten; copies and rows are of the types they should be.
SuccessMeansCharged ==
    /\ row \in Trx /\ job \in [Worker -> Job]
    /\ row.status = "Success" \/ "Success" \in told => Bought # {}

\* provider_sku_id and provider_ref_id are written under different conditions.
\* While an outcome is awaited they agree: the row names a purchase asked of the
\* provider it names.  If that provider has named none, the purchase is either
\* missing, so that no webhook finds the row and no retry is refused, or one
\* that has failed and that the row was retried for, never one still open.
RefMatchesProvider ==
    row.status = "Processing" /\ ~(row.opt = None /\ row.ref = None) =>
        \/ row.ref # None /\ row.ref[1] = row.opt /\ prov[row.ref] # "none"
        \/ row.opt \in Option \ env.named /\ (row.ref = None \/ prov[row.ref] = "failed")

\* RetryWithNextProvider retries with the next untried provider: it never asks
\* a provider again that this transaction has bought from or was refused by, as
\* long as no process died before it could log its attempts.
NextIsUntried ==
    Calm /\ used["crash"] = 0 => \A w \in Worker :
        job[w].kind = "retry" /\ job[w].pc = "ask" =>
            \A p \in Purchase \ job[w].made : prov[p] # "none" => p[1] \notin job[w].todo

\* A failed transaction tells a code one of the attempts has heard, and if any
\* of them heard of something the client can mend, the client is told so and
\* not that a provider was down (two tables of the contract, the statuses and
\* the precedence, have to agree on that).  Only a backup provider, which is
\* asked last, has the last word when it refuses.
ClientIsTold ==
    \A w \in Worker :
      LET j == job[w] IN
      j.pc \in {"log", "persist", "notify"} /\ j.mem.status = "Failed" /\ j.heard # {} =>
        /\ j.mem.code \in j.heard
        /\ j.heard \cap ClientError # {} => j.mem.code \in ClientError

\* Success and Failed are final.
FinalIsFinal == [][Calm /\ row.status \in FinalStatus => row'.status = row.status]_row

\* The routing over providers, with its retries, is a single purchase with a
\* truthful answer, as long as the environment is calm: at most one purchase
\* is under way or complete, whichever providers it was routed to ("CRITICAL:
\* Must check if there's a pending transaction at any provider first to avoid
\* duplicates").
Contract == INSTANCE PurchaseContract WITH
                Ref <- Purchase,
                open <- IF Calm THEN Open ELSE {}, bought <- IF Calm THEN Bought ELSE {},
                answer <- IF Calm THEN row.status ELSE "none"
KeepsContract == Contract!Spec

\* At most one purchase is completed, whatever clients and operators ask for.
\* It does not hold where a client may force an option that is not the first:
\* the retry after a crash forgets what was forced, and buys elsewhere.
OnePurchase == Calm => \A p, q \in Bought : p = q
=============================================================================
