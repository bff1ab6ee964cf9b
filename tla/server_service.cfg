SPECIFICATION Spec
CONSTANTS
    c1 = c1
    c2 = c2
    Half = 4
    Clients <- TwoClients
    Operands <- MCOperands
    Operations <- OneOperation
    MaxSignals = 1
    MaxWriteFailures = 0
    SerialDelivery = TRUE
    MatchCallbackFirst = TRUE
    EarlyClients = FALSE
    SignalInWaitWindow = TRUE
INVARIANTS RepliesMatchRequests OnlyGoneClientsIgnored
PROPERTY ImplementsService
CHECK_DEADLOCK FALSE
