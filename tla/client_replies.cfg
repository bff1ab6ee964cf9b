SPECIFICATION Spec
CONSTANTS
    s1 = s1
    s2 = s2
    Servers <- TwoServers
    NumRequests = 2
    MaxSignals = 0
    MaxStrays = 1
    SignalInWaitWindow = TRUE
SYMMETRY ServerSymmetry
INVARIANTS TypeOK NoOwnReplyUnknown EndsComplete AnswersAreReplies OnlyFirstUntimed
CHECK_DEADLOCK FALSE
