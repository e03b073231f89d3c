\* Any order of calls, two mounts or overflows, the host may close.
CONSTANTS
    Credit = 2
    MaxQueued = 1
    MaxSnap = 1
    MaxOut = 4
    NCalls = 4
    MaxMounts = 3
    MaxResyncs = 1
    HostCanClose = TRUE
SPECIFICATION FairSpec
INVARIANT TypeOK
INVARIANT NoTear
INVARIANT Accounted
PROPERTY ExitComesLast
PROPERTY Drains
PROPERTY ExitIsTold
CHECK_DEADLOCK FALSE
