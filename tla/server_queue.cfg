SPECIFICATION Spec
CONSTANTS
    c1 = c1
    c2 = c2
    Half = 4
    Clients <- TwoClients
    Operands <- MCOperands
    Operations <- OneOperation
    MaxSignals = 0
    MaxWriteFailures = 1
    SerialDelivery = FALSE
    MatchCallbackFirst = FALSE
    EarlyClients = TRUE
    SignalInWaitWindow = FALSE
INVARIANTS TypeOK RequestsAccounted
PROPERTY ClearedRepliesUnwanted
CHECK_DEADLOCK FALSE
