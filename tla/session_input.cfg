\* Clients may stay attached while the session exits; two pieces of input.
CONSTANTS
    MaxGen = 2
    MaxInput = 2
    MaxFaults = 1
    Watched = TRUE
SPECIFICATION Spec
INVARIANT KeptOnce
INVARIANT InOrder
PROPERTY NoStrayKill
\* A removed session has nothing left to do.
CHECK_DEADLOCK FALSE
