SPECIFICATION FairSpec
CONSTANTS
    s1 = s1
    s2 = s2
    Subscribers <- TwoSubscribers
    Demands <- ThreeTests
    Recoveries = 1
    MaxBursts = 1
    MaxFaults = 1
INVARIANTS TypeOK PromptAreRigged SamplesAccounted ResultsAddUp ReadersRemoved NoEarlierReader
PROPERTY AllStop
CHECK_DEADLOCK FALSE
