SPECIFICATION Spec
CONSTANTS
    NumKeys = 1
    Clients = {c1, c2}
    Quota = 2
    Requests = 2
    Window = 1
PROPERTIES
    ExhaustedTimestampStops
