SPECIFICATION SafeSpec
CONSTANTS
    e1 = e1
    e2 = e2
    Endpoint = {e1}
    NoEndpoint = none
    Carries = {}
    Paired = {e1}
    Pairable = {}
    MaxGen = 2
    MaxSocket = 1
    Rungs = 1
INVARIANT ForgottenLeavesNoPin
CHECK_DEADLOCK FALSE
