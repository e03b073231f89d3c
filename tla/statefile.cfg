\* Two sessions, one exited record kept, one restart, one fault.
CONSTANTS
    NIds = 2
    Agents = {1}
    MaxExited = 1
    MaxStarts = 2
    MaxFaults = 1
    EndsInLoad = FALSE
SPECIFICATION FairSpec
INVARIANT TypeOK
INVARIANT FileShowsAll
INVARIANT AnswerOutlives
INVARIANT AgentOnRecord
PROPERTY Settles
\* After the last daemon nothing is left to do.
CHECK_DEADLOCK FALSE
