------------------------- MODULE MCDigiTransaction -------------------------
(* Instances of DigiTransaction for TLC: the budgets of faults of each run. *)
EXTENDS DigiTransaction, TLC

Faults(f) == [k \in FaultKind |-> IF k \in DOMAIN f THEN f[k] ELSE 0]

\* A reliable link to Digiflazz: processes may die, operators may retry.
ReliableLink == Faults([crash |-> 1, manual |-> 1, wait |-> 1])
\* Everything at once.
AnyFault == Faults([net |-> 1, dup |-> 1, db |-> 1])
\* One manual retry.
ManualOnly == Faults([manual |-> 1])
\* Processes die, operators retry, Digiflazz limits the rate.
Restarts == Faults([crash |-> 2, manual |-> 2, wait |-> 1])

Symmetry == Permutations(Worker)
=============================================================================
