SPECIFICATION Spec
CONSTANTS
    NumKeys = 2
    Clients = {c1}
    Quota = 1
    Requests = 2
    Window = 1
INVARIANT ShutKeysNotLeased
PROPERTIES
    ExhaustedRecovers
