SPECIFICATION Spec
CONSTANTS
    NOption = 4
    Backup = {4}
    Forced = {1}
    Worker = {w1, w2}
    None = None
    Provider <- Providers
    Refusals <- Answers
    Loss <- Losses
    Scenario <- Environments
SYMMETRY Symmetry
INVARIANT SuccessMeansCharged
INVARIANT RefMatchesProvider
INVARIANT NextIsUntried
INVARIANT ClientIsTold
PROPERTY FinalIsFinal
PROPERTY KeepsContract
\* A transaction that is settled has nothing left to do.
CHECK_DEADLOCK FALSE
