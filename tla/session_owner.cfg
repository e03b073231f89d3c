\* Nobody is attached while the session exits; one fault.
CONSTANTS
    MaxGen = 3
    MaxInput = 1
    MaxFaults = 1
    Watched = FALSE
SPECIFICATION Spec
INVARIANT TypeOK
INVARIANT OneAgent
INVARIANT NoOrphan
PROPERTY NoRevival
PROPERTY LifeSpec
\* A removed session has nothing left to do.
CHECK_DEADLOCK FALSE
