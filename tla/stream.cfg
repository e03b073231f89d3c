\* One process that sleeps and wakes, a slow daemon and a slow client.
CONSTANTS
    RingCap = 1
    HoldQueue = 2
    Backlog = 1
    Outbox = 1
    MaxWrite = 2
    Lives = 2
    NAttach = 2
    NRestarts = 1
SPECIFICATION FairSpec
INVARIANT TypeOK
INVARIANT FeedIsWhole
INVARIANT ScreenIsRight
PROPERTY CatchesUp
CHECK_DEADLOCK FALSE
