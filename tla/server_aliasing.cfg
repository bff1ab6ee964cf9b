SPECIFICATION Spec
CONSTANTS
    c1 = c1
    c2 = c2
    Half = 4
    Clients <- OneClient
    Operands <- MCOperands
    Operations <- TwoOperations
    MaxSignals = 0
    MaxWriteFailures = 0
    SerialDelivery = FALSE
    MatchCallbackFirst = TRUE
    EarlyClients = FALSE
    SignalInWaitWindow = FALSE
INVARIANT RepliesMatchRequests
CHECK_DEADLOCK FALSE
