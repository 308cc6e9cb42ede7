-------------------------- MODULE PurchaseContract --------------------------
(***************************************************************************)
(* What a prepaid transaction promises its client: one purchase at a time  *)
(* is open at the provider, at most one is ever completed, and the answer  *)
(* agrees with what was bought.  DigiTransaction implements it as long as  *)
(* no request, answer or write is lost and no callback repeated.           *)
(***************************************************************************)
CONSTANT Ref

VARIABLES
    open,      \* purchases in progress at the provider
    bought,    \* purchases the provider completed
    answer     \* the status the client reads

vars == <<open, bought, answer>>

Init == open = {} /\ bought = {} /\ answer = "none"

\* A purchase is asked for only when none is open or complete, and not after
\* the client was told Failed.  The provider may complete it at once.
Buy(r) ==
    /\ open = {} /\ bought = {} /\ answer = "Processing"
    /\ \/ open' = {r} /\ UNCHANGED bought
       \/ bought' = {r} /\ UNCHANGED open
    /\ UNCHANGED answer

Complete(r) == r \in open /\ open' = {} /\ bought' = {r} /\ UNCHANGED answer
Reject(r) == r \in open /\ open' = {} /\ UNCHANGED <<bought, answer>>

Report(s) ==
    /\ s = "Success" => bought # {}
    /\ s = "Failed" => open = {} /\ bought = {}
    /\ answer' = s
    /\ UNCHANGED <<open, bought>>

Next ==
    \/ \E r \in Ref : Buy(r) \/ Complete(r) \/ Reject(r)
    \/ \E s \in {"Processing", "Success", "Failed"} : Report(s)

Spec == Init /\ [][Next]_vars
=============================================================================
