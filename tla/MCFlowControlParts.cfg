CONSTANTS
    Senders = {s1, s2}
    InitialWindow = 5
    MaxDebt = 5
    MaxPending = 1
    MaxCancels = 1
    Responses = TRUE
    ActorMayStop = TRUE
    ConnMayFail = TRUE
SPECIFICATION PartsSpec
CHECK_DEADLOCK FALSE
INVARIANTS
    WindowsConserved
    BudgetsUsable
PROPERTIES
    WideSendEnds
