SPECIFICATION FairSpec
CONSTANTS
    MaxId = 3
    Provider = {kiosbank, alterra}
    Kiosbank = {kiosbank}
    Digiflazz = digiflazz
    Sandbox = sandbox
    Worker = {1, 2}
    None = None
    Budget <- OneOfEach
    MaxFault = 2
INVARIANT AnswersAreTrue
INVARIANT PaidByQuoter
INVARIANT SoldOnce
PROPERTY EventuallyFinal
\* A bill that is paid has nothing left to do.
CHECK_DEADLOCK FALSE
