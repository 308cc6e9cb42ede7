SPECIFICATION Spec
CONSTANTS
    NSku = 2
    MaxRef = 5
    MaxNetRetry = 2
    Worker = {w1, w2}
    None = None
    Failure = {"fatal", "switch", "wait", "unknown"}
    Budget <- ManualOnly
    Overtake = TRUE
    Patient = FALSE
SYMMETRY Symmetry
INVARIANT NoDoublePurchase
\* A transaction that is settled has nothing left to do.
CHECK_DEADLOCK FALSE
