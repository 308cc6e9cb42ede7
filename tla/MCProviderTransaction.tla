------------------------ MODULE MCProviderTransaction ------------------------
(* An instance of ProviderTransaction for TLC: the environments, and what the *)
(* providers of the options answer when they refuse.                          *)
EXTENDS ProviderTransaction, TLC

Faults(f) == [k \in FaultKind |-> IF k \in DOMAIN f THEN f[k] ELSE 0]

\* Processes die and operators retry.
Restarts == [budget |-> Faults([crash |-> 2, manual |-> 2]), offer |-> 1..4, named |-> Option,
             stable |-> TRUE, patient |-> TRUE]
\* Everything at once.
AnyFault == [budget |-> Faults([net |-> 1, db |-> 1, dup |-> 1, manual |-> 1]), offer |-> {1, 4}, named |-> {1},
             stable |-> FALSE, patient |-> FALSE]
Environments == {Restarts, AnyFault}
RestartsOnly == {Restarts}

Answer(rc, http, text) == [rc |-> rc, http |-> http, text |-> text, public |-> ""]
Providers == <<"kiosbank", "alterra", "kiosbank", "digiflazz">>
Answers == <<{Answer("86", 200, "")},
             {Answer("98", 200, ""), Answer("", 450, "")},
             {Answer("12", 200, "")}, {Answer("40", 200, "")}>>
Losses == {<<"timeout", "">>, <<"", "65">>}

Symmetry == Permutations(Worker)
=============================================================================
