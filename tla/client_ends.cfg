SPECIFICATION FairSpec
CONSTANTS
    s1 = s1
    s2 = s2
    Servers <- OneServer
    NumRequests = 4
    MaxSignals = 1
    MaxStrays = 0
    SignalInWaitWindow = FALSE
PROPERTIES RepliesEndClient StopEndsClient
CHECK_DEADLOCK FALSE
