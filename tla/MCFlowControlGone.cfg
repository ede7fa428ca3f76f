CONSTANTS
    Senders = {s1}
    InitialWindow = 2
    MaxDebt = 3
    MaxPending = 1
    MaxCancels = 0
    Responses = FALSE
    ActorMayStop = TRUE
    ConnMayFail = FALSE
SPECIFICATION FairSpec
CHECK_DEADLOCK FALSE
PROPERTIES
    SendEnds
