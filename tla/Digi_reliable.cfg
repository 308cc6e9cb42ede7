SPECIFICATION Spec
CONSTANTS
    NSku = 2
    MaxRef = 5
    MaxNetRetry = 2
    Worker = {w1, w2, w3}
    None = None
    Failure = {"fatal", "switch", "wait", "unknown"}
    Budget <- ReliableLink
    Overtake = TRUE
    Patient = TRUE
SYMMETRY Symmetry
INVARIANT TokenInv
PROPERTY KeepsContract
\* A transaction that is settled has nothing left to do.
CHECK_DEADLOCK FALSE
