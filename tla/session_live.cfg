\* Fair scheduling, no faults, nobody attached while the session exits.
CONSTANTS
    MaxGen = 2
    MaxInput = 2
    MaxFaults = 0
    Watched = FALSE
SPECIFICATION FairSpec
PROPERTY CloseEnds
PROPERTY SleepEnds
PROPERTY WakeEnds
PROPERTY SleepInputSettles
\* A removed session has nothing left to do.
CHECK_DEADLOCK FALSE
