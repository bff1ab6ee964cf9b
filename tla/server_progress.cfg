SPECIFICATION FairSpec
CONSTANTS
    c1 = c1
    c2 = c2
    Half = 4
    Clients <- OneClient
    Operands <- MCOperands
    Operations <- TwoOperations
    MaxSignals = 1
    MaxWriteFailures = 1
    SerialDelivery = FALSE
    MatchCallbackFirst = FALSE
    EarlyClients = FALSE
    SignalInWaitWindow = FALSE
PROPERTIES EveryRequestSettled StopTerminates
CHECK_DEADLOCK FALSE
