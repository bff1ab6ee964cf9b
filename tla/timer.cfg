SPECIFICATION FairSpec
CONSTANTS
    MaxTimers = 3
    Durations <- MCDurations
    MaxTime = 2
    StopInWindow = FALSE
INVARIANTS TypeOK TimersAccounted BlockedLongEnough
PROPERTIES EarliestFirst TimersEnd StopEnds
CHECK_DEADLOCK FALSE
