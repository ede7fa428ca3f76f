CONSTANTS
    Requests = {any}
    AllRequests = {}
    N = 3
SPECIFICATION Spec
CHECK_DEADLOCK FALSE
PROPERTIES
    OkKept
