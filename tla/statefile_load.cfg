\* No fault; the daemon may end at any time.
CONSTANTS
    NIds = 2
    Agents = {}
    MaxExited = 1
    MaxStarts = 2
    MaxFaults = 0
    EndsInLoad = TRUE
SPECIFICATION Spec
INVARIANT AnswerOutlives
CHECK_DEADLOCK FALSE
