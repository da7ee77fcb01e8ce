SPECIFICATION MrtSpec
CONSTANTS
    SimEnd = 4
    Horizon = 2
INVARIANT MrtTypeOK
INVARIANT LatestPolicyInUse
INVARIANT SolverGivesUpOnlyLate
INVARIANT NeverLimp
PROPERTY PolicyNeverOlder
PROPERTY ProgramEnds
