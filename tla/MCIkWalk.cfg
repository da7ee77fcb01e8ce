SPECIFICATION IkSpec
CONSTANTS
    SingleSupport = 3
    DoubleSupport = 2
    LateLanding = 2
    StepNumDes = 8
    MaxPhaseTime = 0
    WalkStart = 3
    Duration = 24
    SolveEvery = 2
    Frame = 5
    SolvesStanding = FALSE
INVARIANT LoadFollowsContacts
INVARIANT StanceCarried
INVARIANT PaceKept
