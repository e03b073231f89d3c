\* Fair scheduling; at time 3 a slot at 1 is too old and one at 2 is late.
CONSTANTS
    NEntries = 1
    Plans <- MCPlans
    Jitter = 0
    Late = 0
    Window = 1
    MaxNow = 3
    MaxSessions = 1
    Fires = 1
    MaxFaults = 0
    MaxRestarts = 1
    MaxRemoves = 0
SPECIFICATION FairSpec
PROPERTY TimeoutEnforced
PROPERTY DueIsHandled
PROPERTY SurvivorsClosed
PROPERTY AnchorsAdvance
