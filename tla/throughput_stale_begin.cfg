SPECIFICATION Spec
CONSTANTS
    s1 = s1
    s2 = s2
    Subscribers <- TwoSubscribers
    Demands <- OneTest
    Recoveries = 1
    MaxBursts = 1
    MaxFaults = 1
INVARIANT RiggedBeforeTest
CHECK_DEADLOCK FALSE
