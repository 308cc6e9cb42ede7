----------------------- MODULE MCTrxCallbackDelivery -----------------------
(* An instance of TrxCallbackDelivery for TLC: one fault of each kind. *)
EXTENDS TrxCallbackDelivery

Faults == [k \in FaultKind |-> 1]
=============================================================================
