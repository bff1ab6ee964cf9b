SPECIFICATION FairSpec
CONSTANTS
    s1 = s1
    s2 = s2
    Subscribers <- TwoSubscribers
    Samples = 1
    Rounds = 2
    MaxFailures = 1
INVARIANTS TypeOK EndpointsNested SamplingTogether RoundtripsMatch UndisturbedMeasuresAll
PROPERTIES TestCompletes WaitsForReply
CHECK_DEADLOCK FALSE
