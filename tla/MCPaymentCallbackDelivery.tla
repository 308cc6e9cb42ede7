--------------------- MODULE MCPaymentCallbackDelivery ---------------------
(* An instance of PaymentCallbackDelivery for TLC: one fault of each kind. *)
EXTENDS PaymentCallbackDelivery

Everything == [k \in FaultKind |-> 1]
=============================================================================
