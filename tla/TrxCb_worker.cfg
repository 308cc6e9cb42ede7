SPECIFICATION FairSpec
CONSTANTS
    Worker = {w1, w2}
    None = None
    MaxAttempt = 5
    NInterval = 5
    Budget <- Faults
INVARIANT PostsBounded
INVARIANT SentIsHeard
PROPERTY DeliveredStays
PROPERTY EventuallySettled
