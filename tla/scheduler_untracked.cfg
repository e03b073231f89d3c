\* The daemon ends once; no entry is removed and every save works.
CONSTANTS
    NEntries = 1
    Plans <- MCJobs
    Jitter = 0
    Late = 0
    Window = 1
    MaxNow = 2
    MaxSessions = 2
    Fires = 1
    MaxFaults = 0
    MaxRestarts = 1
    MaxRemoves = 0
SPECIFICATION Spec
INVARIANT NothingUntracked
