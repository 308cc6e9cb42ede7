SPECIFICATION FairSpec
CONSTANTS
    Stream = {s1, s2}
    Goroutine = {g1}
    Bridge = bridge
    None = None
    Capacity = 1
    MaxEvent = 2
    MaxBreak = 1
INVARIANT NeverPanics
INVARIANT NothingMissed
PROPERTY NobodyWaitsForReaders
PROPERTY BridgeReturns
\* Once every stream is over and every event sent nothing is left to do.
CHECK_DEADLOCK FALSE
