CONSTANTS
    Requests = {any, all}
    AllRequests = {all}
    N = 2
SPECIFICATION PartsSpec
CHECK_DEADLOCK FALSE
INVARIANTS
    TablesSound
    ResultsComplete
PROPERTIES
    RequestsEnd
