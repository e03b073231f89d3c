\* Two slots, a retry, two calls of the owner or faults; the code pauses after 3.
\* The windows (5, 5 and 3 records in the code) are one record wide, so that
\* they bite at two slots.
CONSTANTS
    PauseAfter = 2
    FindRuns = 1
    CancelRuns = 1
    SettleRuns = 1
    MaxSlots = 2
    MaxRetries = 1
    MaxUpsets = 2
SPECIFICATION Spec
INVARIANT TypeOK
INVARIANT EntryFollowsStore
INVARIANT NoneForgotten
PROPERTY ConcludedOnce
\* At the bounds nothing is left to do.
CHECK_DEADLOCK FALSE
