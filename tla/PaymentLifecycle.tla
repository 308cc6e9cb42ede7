-------------------------- MODULE PaymentLifecycle --------------------------
(***************************************************************************)
(* One payment (virtual account, e-wallet, QRIS, retail): its creation at  *)
(* the provider, the refreshes of its status, the client's cancellation,   *)
(* the expiry worker, the provider's webhooks and the operator's decision  *)
(* on a reconciliation, interleaved on one row of the table payments.      *)
(*                                                                         *)
(* Every handler reads the row, talks to the provider, and writes all the  *)
(* columns back with UpdatePayment, whose WHERE names the id only.         *)
(***************************************************************************)
EXTENDS Naturals, FiniteSets, Functions

CONSTANTS
    Worker,        \* goroutines that may run a handler at one time
    None,
    Budget,        \* how many faults of each kind the environment may cause
    MaxFault       \* and how many of all kinds

FaultKind == {"net", "db", "dup", "crash", "refresh", "recon", "overlap"}

\* IsFinal
Final == {"Success", "Expired", "Cancelled", "Failed"}
Status == Final \cup {"none", "Pending"}
Payment == [status : Status, paid : BOOLEAN]
NoPayment == [status |-> "none", paid |-> FALSE]

ASSUME ConstAssumption ==
    /\ Budget \in [FaultKind -> Nat] /\ MaxFault \in Nat
    /\ None \notin Status

VARIABLES
    row,       \* the row of payments: its status, and whether paid_at is set
    job,       \* job[w]: what the goroutine w is doing
    prov,      \* the payment at the provider
    hooks,     \* webhooks of the provider on their way: the statuses they name
    told,      \* told[s]: how often payment.<s> was handed to the callback service
    due,       \* has expired_at passed?
    recon,     \* the reconciliation of the payment
    ruled,     \* the statuses operators decided on
    used       \* faults the environment has caused so far

vars == <<row, job, prov, hooks, told, due, recon, ruled, used>>
outside == <<prov, hooks, due>>
operator == <<recon, ruled>>

Idle == [pc |-> "idle", kind |-> "none", mem |-> NoPayment, event |-> None]
Job == [pc : {"idle", "create", "inquire", "cancel", "write", "announce", "close"},
        kind : {"none", "create", "refresh", "cancel", "expire", "webhook", "resolve"},
        mem : Payment, event : Final \cup {"Pending", None}]

TypeOK ==
    /\ row \in Payment
    /\ job \in [Worker -> Job]
    /\ prov \in {"none", "Pending"} \cup Final
    /\ hooks \subseteq Final
    /\ told \in [Final \cup {"Pending"} -> Nat]
    /\ due \in BOOLEAN
    /\ recon \in [status : {"none", "open", "resolved"}, resolved : Final \cup {None}]
    /\ ruled \subseteq Final
    /\ used \in [FaultKind -> Nat]

Init ==
    /\ row = NoPayment
    /\ job = [w \in Worker |-> Idle]
    /\ prov = "none"
    /\ hooks = {}
    /\ told = [s \in Final \cup {"Pending"} |-> 0]
    /\ due = FALSE
    /\ recon = [status |-> "none", resolved |-> None]
    /\ ruled = {}
    /\ used = [k \in FaultKind |-> 0]

\* The environment causes a fault of each kind in K.
Cause(K) ==
    /\ \A k \in K : used[k] < Budget[k]
    /\ FoldFunction(+, 0, used) + Cardinality(K) <= MaxFault
    /\ used' = [k \in FaultKind |-> IF k \in K THEN used[k] + 1 ELSE used[k]]
Spend(k) == Cause({k})
Active(w) == job[w].pc # "idle"
Become(w, j) == job' = [job EXCEPT ![w] = j]

\* A handler starts: in turn, or while others are at work.
Enter(w, K) ==
    /\ ~Active(w)
    /\ Cause(IF \E v \in Worker : Active(v) THEN K \cup {"overlap"} ELSE K)

\* A handler of the given kind that has read the row.
Handler(kind, pc) == [Idle EXCEPT !.pc = pc, !.kind = kind, !.mem = row]

StampsAnyFinal(p, s) == [status |-> s, paid |-> p.paid \/ s \in Final]  \* mutant

\* The copy with a new status; paid_at is set by the first Success.
WithStatus(p, s) == [status |-> s, paid |-> p.paid \/ s = "Success"]

\* A handler about to write the row, and to announce the status if it changed.
Writes(j, s) ==
    [j EXCEPT !.pc = "write", !.mem = WithStatus(@, s),
              !.event = IF s = j.mem.status THEN None ELSE s]

-----------------------------------------------------------------------------
(***************************************************************************)
(* Entry points.                                                           *)
(***************************************************************************)

\* CreatePayment up to the INSERT.
CreatePayment(w) ==
    /\ Enter(w, {})
    /\ row.status = "none"
    /\ row' = [NoPayment EXCEPT !.status = "Pending"]
    /\ Become(w, [Handler("create", "create") EXCEPT !.mem = row'])
    /\ UNCHANGED <<outside, told, operator>>

\* GetPayment on a row that has not changed for 15 seconds, or the worker's
\* ProcessPendingPayments.
Refresh(w) ==
    /\ Enter(w, {"refresh"})
    /\ row.status = "Pending"
    /\ Become(w, Handler("refresh", "inquire"))
    /\ UNCHANGED <<row, outside, told, operator>>

\* CancelPayment
Cancel(w) ==
    /\ Enter(w, {})
    /\ row.status = "Pending"
    /\ Become(w, Handler("cancel", "cancel"))
    /\ UNCHANGED <<row, outside, told, operator>>

ExpireSilently(w) ==  \* mutant: the expiry is not announced
    /\ Enter(w, {})
    /\ due /\ row.status = "Pending"
    /\ Become(w, [Writes(Handler("expire", "write"), "Expired") EXCEPT !.event = None])
    /\ UNCHANGED <<row, outside, told, operator>>

ExpireTogether(w) ==  \* mutant: expires only what has expired at the provider
    /\ Enter(w, {})
    /\ due /\ row.status = "Pending" /\ prov = "Expired"
    /\ Become(w, Writes(Handler("expire", "write"), "Expired"))
    /\ UNCHANGED <<row, outside, told, operator>>

\* ExpirePendingPayments: the provider is not asked.
Expire(w) ==
    /\ Enter(w, {})
    /\ due /\ row.status = "Pending"
    /\ Become(w, Writes(Handler("expire", "write"), "Expired"))
    /\ UNCHANGED <<row, outside, told, operator>>

IgnoresNothing(p) == FALSE  \* mutant

\* A webhook for a payment in a final state is a duplicate.
Ignores(p) == p.status \in Final

\* ApplyWebhook; the provider may send a webhook twice.
ApplyWebhook(w, s) ==
    /\ s \in hooks
    /\ row.status # "none"
    /\ \/ hooks' = hooks \ {s} /\ Enter(w, {})
       \/ UNCHANGED hooks /\ Enter(w, {"dup"})
    /\ Become(w, IF Ignores(row) THEN Idle ELSE Writes(Handler("webhook", "write"), s))
    /\ UNCHANGED <<row, prov, due, told, operator>>

\* Resolve of AdminReconciliationService, up to the write.
Resolve(w, s) ==
    /\ Enter(w, {})
    /\ recon.status = "open"
    /\ Become(w, Writes(Handler("resolve", "write"), s))
    /\ ruled' = ruled \cup {s}
    /\ UNCHANGED <<row, outside, told, recon>>

-----------------------------------------------------------------------------
(***************************************************************************)
(* Calls to the provider.                                                  *)
(***************************************************************************)

\* The provider creates the payment, or the call fails before or after it has.
\* CreatePayment announces payment.pending, or marks the row Failed.
CreateAtProvider(w) ==
    /\ job[w].pc = "create"
    /\ \/ /\ prov' = "Pending"
          /\ Become(w, [job[w] EXCEPT !.pc = "write", !.event = "Pending"])
          /\ UNCHANGED used
       \/ /\ prov' \in {"none", "Pending"}
          /\ Spend("net")
          /\ Become(w, Writes(job[w], "Failed"))
    /\ UNCHANGED <<row, hooks, due, told, operator>>

\* refreshStatus: the answer is written even when it is the status it was, or
\* names none.  Without an answer the handler returns.
Inquire(w) ==
    /\ job[w].pc = "inquire"
    /\ \/ prov # "none" /\ Become(w, Writes(job[w], prov)) /\ UNCHANGED used
       \/ prov = "none" /\ Become(w, Writes(job[w], job[w].mem.status)) /\ UNCHANGED used
       \/ prov = "none" /\ Become(w, Idle) /\ UNCHANGED used
       \/ Spend("net") /\ Become(w, Idle)
    /\ UNCHANGED <<row, outside, told, operator>>

\* The provider cancels what is pending and refuses otherwise; either way, and
\* when the call fails, the row becomes Cancelled.
CancelAtProvider(w) ==
    /\ job[w].pc = "cancel"
    /\ \/ /\ prov = "Pending"
          /\ prov' = "Cancelled" /\ hooks' = hooks \cup {"Cancelled"}
          /\ UNCHANGED used
       \/ prov # "Pending" /\ UNCHANGED <<prov, hooks, used>>
       \/ Spend("net") /\ UNCHANGED <<prov, hooks>>
    /\ Become(w, Writes(job[w], "Cancelled"))
    /\ UNCHANGED <<row, due, told, operator>>

-----------------------------------------------------------------------------
(***************************************************************************)
(* Writing the row and telling the client.                                 *)
(***************************************************************************)

Finished(j) == IF j.kind = "resolve" THEN [j EXCEPT !.pc = "close"] ELSE Idle

\* UpdatePayment.  When it fails the handlers return, the webhook is refused
\* and sent again, and markFailed announces all the same.
Write(w) ==
    LET j == job[w] IN
    /\ j.pc = "write"
    /\ \/ /\ row' = j.mem
          /\ Become(w, IF j.event = None THEN Finished(j) ELSE [j EXCEPT !.pc = "announce"])
          /\ UNCHANGED <<hooks, used>>
       \/ /\ Spend("db")
          /\ Become(w, IF j.kind = "create" /\ j.event = "Failed"
                       THEN [j EXCEPT !.pc = "announce"] ELSE Idle)
          /\ hooks' = IF j.kind = "webhook" THEN hooks \cup {j.mem.status} ELSE hooks
          /\ UNCHANGED row
    /\ UNCHANGED <<prov, due, told, operator>>

\* EnqueueCallback
Announce(w) ==
    /\ job[w].pc = "announce"
    /\ told' = [told EXCEPT ![job[w].event] = @ + 1]
    /\ Become(w, Finished(job[w]))
    /\ UNCHANGED <<row, outside, operator, used>>

\* ResolveByID: WHERE status = 'open'; no row means "resolved concurrently".
CloseReconciliation(w) ==
    /\ job[w].pc = "close"
    /\ recon' = IF recon.status = "open"
                THEN [status |-> "resolved", resolved |-> job[w].mem.status] ELSE recon
    /\ Become(w, Idle)
    /\ UNCHANGED <<row, outside, told, ruled, used>>

Crash(w) ==
    /\ Active(w)
    /\ Spend("crash")
    /\ Become(w, Idle)
    /\ UNCHANGED <<row, outside, told, operator>>

-----------------------------------------------------------------------------
(***************************************************************************)
(* Outside the gateway.                                                    *)
(***************************************************************************)

\* The customer pays, or the payment fails or expires at the provider.
ProviderSettles(s) ==
    /\ prov = "Pending"
    /\ s = "Expired" => due
    /\ prov' = s
    /\ hooks' = hooks \cup {s}
    /\ UNCHANGED <<row, job, due, told, operator, used>>

\* expired_at passes.
Deadline ==
    /\ ~due /\ row.status # "none"
    /\ due' = TRUE
    /\ UNCHANGED <<row, job, prov, hooks, told, operator, used>>

\* The service that shares the database opens a reconciliation.
OpenReconciliation ==
    /\ recon.status = "none" /\ row.status # "none"
    /\ Spend("recon")
    /\ recon' = [recon EXCEPT !.status = "open"]
    /\ UNCHANGED <<row, job, outside, told, ruled>>

-----------------------------------------------------------------------------
Step(w) ==
    \/ CreateAtProvider(w) \/ Inquire(w) \/ CancelAtProvider(w)
    \/ Write(w) \/ Announce(w) \/ CloseReconciliation(w)

Next ==
    \/ \E w \in Worker :
         \/ CreatePayment(w) \/ Refresh(w) \/ Cancel(w) \/ Expire(w)
         \/ \E s \in Final : ApplyWebhook(w, s) \/ Resolve(w, s)
         \/ Step(w)
         \/ Crash(w)
    \/ \E s \in {"Success", "Failed", "Expired"} : ProviderSettles(s)
    \/ Deadline
    \/ OpenReconciliation

Spec == Init /\ [][Next]_vars

\* Time passes, the expiry worker keeps polling, goroutines take their steps.
FairSpec ==
    /\ Spec
    /\ WF_vars(Deadline)
    /\ WF_vars(\E w \in Worker : Expire(w))
    /\ \A w \in Worker : WF_vars(Step(w))

-----------------------------------------------------------------------------
(***************************************************************************)
(* Properties.                                                             *)
(***************************************************************************)

\* Nobody is told that a payment succeeded, and paid_at is not set, unless the
\* customer paid or an operator ruled so, however handlers overlap and fail:
\* no stale copy of the row turns into a Success.  The row and its copies keep
\* their types.
Collected == prov = "Success" \/ "Success" \in ruled
SuccessIsCollected ==
    /\ TypeOK
    /\ row.status = "Success" \/ row.paid \/ told["Success"] > 0 => Collected

\* A final status the row was left with has been announced to the client, even
\* where handlers overwrite each other, unless the process died in between.
FinalIsAnnounced ==
    (/\ \A w \in Worker : ~Active(w)
     /\ used["crash"] = 0
     /\ row.status \in Final) => told[row.status] > 0

\* Callbacks do not fire again: the client hears one final status, once, unless
\* an operator ruled otherwise, two handlers overlapped or a write was lost.
AnnouncedOnce ==
    ruled = {} /\ used["overlap"] = 0 /\ used["db"] = 0 =>
                  /\ \A s \in Final : told[s] <= 1
                  /\ Cardinality({s \in Final : told[s] > 0}) <= 1

\* The status a reconciliation was resolved with is the status of the payment
\* (Resolve: "Only open rows ... are accepted"), until two handlers overlap.
ResolutionStands ==
    used["overlap"] = 0 /\ recon.status = "resolved" /\ (\A w \in Worker : ~Active(w)) =>
        row.status = recon.resolved

\* A payment does not stay Pending for ever.
EventuallyFinal == (row.status = "Pending") ~> (row.status \in Final)
=============================================================================
