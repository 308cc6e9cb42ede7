SPECIFICATION FairSpec
CONSTANTS
    Worker = {w1, w2}
    None = None
    Budget <- AnyFault
    MaxFault = 3
INVARIANT SuccessIsCollected
INVARIANT FinalIsAnnounced
INVARIANT AnnouncedOnce
INVARIANT ResolutionStands
PROPERTY EventuallyFinal
\* A settled payment has nothing left to do.
CHECK_DEADLOCK FALSE
