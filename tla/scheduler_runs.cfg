CONSTANTS
    NEntries = 1
    Plans <- MCJobs
    Jitter = 0
    Late = 0
    Window = 1
    MaxNow = 2
    MaxSessions = 2
    Fires = 1
    MaxFaults = 1
    MaxRestarts = 1
    MaxRemoves = 1
SPECIFICATION Spec
INVARIANT TypeOK
INVARIANT OnePerSlot
INVARIANT FileIsCurrent
INVARIANT RunsAreTracked
INVARIANT NoOverlap
