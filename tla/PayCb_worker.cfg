SPECIFICATION FairSpec
CONSTANTS
    Poller = {p1}
    None = None
    MaxAttempts = 5
    NInterval = 5
    Prompt = TRUE
    Budget <- Everything
INVARIANT PostsBounded
INVARIANT SentIsHeard
INVARIANT DeliveredIsFlagged
PROPERTY DeliveredStays
PROPERTY EventuallySettled
