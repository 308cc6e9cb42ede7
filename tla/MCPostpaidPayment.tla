------------------------- MODULE MCPostpaidPayment -------------------------
(* An instance of PostpaidPayment for TLC: one fault of each of any two kinds. *)
EXTENDS PostpaidPayment

OneOfEach == [k \in FaultKind |-> 1]
=============================================================================
