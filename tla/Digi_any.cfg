SPECIFICATION Spec
CONSTANTS
    NSku = 2
    MaxRef = 2
    MaxNetRetry = 0
    Worker = {w1, w2}
    None = None
    Failure = {"switch"}
    Budget <- AnyFault
    Overtake = TRUE
    Patient = FALSE
SYMMETRY Symmetry
INVARIANT SuccessMeansCharged
\* A transaction that is settled has nothing left to do.
CHECK_DEADLOCK FALSE
