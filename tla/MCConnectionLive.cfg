SPECIFICATION Spec
CONSTANTS
    e1 = e1
    e2 = e2
    Endpoint = {e1, e2}
    NoEndpoint = none
    Carries = {e1}
    Paired = {e1, e2}
    Pairable = {}
    MaxGen = 2
    MaxSocket = 1
    Rungs = 1
PROPERTIES
    KeepsLink
    CancelledLoopsEnd
CHECK_DEADLOCK FALSE
