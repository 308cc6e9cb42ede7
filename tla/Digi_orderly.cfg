SPECIFICATION FairSpec
CONSTANTS
    NSku = 3
    MaxRef = 6
    MaxNetRetry = 2
    Worker = {w1, w2}
    None = None
    Failure = {"fatal", "switch", "wait", "unknown"}
    Budget <- Restarts
    Overtake = FALSE
    Patient = TRUE
INVARIANT RefForOneSku
INVARIANT ToldTruly
PROPERTY FinalIsFinal
PROPERTY EventuallyFinal
\* A transaction that is settled has nothing left to do.
CHECK_DEADLOCK FALSE
