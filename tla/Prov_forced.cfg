SPECIFICATION Spec
CONSTANTS
    NOption = 4
    Backup = {4}
    Forced = {2}
    Worker = {w1, w2}
    None = None
    Provider <- Providers
    Refusals <- Answers
    Loss <- Losses
    Scenario <- RestartsOnly
SYMMETRY Symmetry
INVARIANT OnePurchase
\* A transaction that is settled has nothing left to do.
CHECK_DEADLOCK FALSE
