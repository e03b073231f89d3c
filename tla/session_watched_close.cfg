\* A client stays attached while the session exits.
CONSTANTS
    MaxGen = 2
    MaxInput = 0
    MaxFaults = 0
    Watched = TRUE
SPECIFICATION FairSpec
PROPERTY CloseEnds
\* A removed session has nothing left to do.
CHECK_DEADLOCK FALSE
