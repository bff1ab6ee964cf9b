SPECIFICATION FairSpec
CONSTANTS
    c1 = c1
    c2 = c2
    Half = 4
    Clients <- OneClient
    Operands <- MCOperands
    Operations <- OneOperation
    MaxSignals = 1
    MaxWriteFailures = 0
    SerialDelivery = TRUE
    MatchCallbackFirst = TRUE
    EarlyClients = FALSE
    SignalInWaitWindow = TRUE
PROPERTY StopTerminates
CHECK_DEADLOCK FALSE
