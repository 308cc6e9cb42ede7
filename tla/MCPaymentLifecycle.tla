------------------------- MODULE MCPaymentLifecycle -------------------------
(* An instance of PaymentLifecycle for TLC: the budget of faults. *)
EXTENDS PaymentLifecycle

\* Calls and writes fail, webhooks repeat, the process dies, handlers overlap,
\* operators decide.
AnyFault ==
    [k \in FaultKind |-> CASE k \in {"db", "crash", "recon"} -> 1
                          [] k \in {"net", "dup", "overlap"} -> 2
                          [] k = "refresh" -> 3]
=============================================================================
