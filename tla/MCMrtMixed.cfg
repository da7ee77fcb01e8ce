SPECIFICATION MrtSpec
CONSTANTS
    SimEnd = 2
    Horizon = 2
INVARIANT OnePolicyPerAction
