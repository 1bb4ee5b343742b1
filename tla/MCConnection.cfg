SPECIFICATION SafeSpec
CONSTANTS
    e1 = e1
    e2 = e2
    Endpoint = {e1}
    NoEndpoint = none
    Carries = {}
    Paired = {}
    Pairable = {e1}
    MaxGen = 2
    MaxSocket = 2
    Rungs = 1
INVARIANTS
    TypeOK
    LoopAlive
    LiveIsCurrent
    SessionPure
    NoLeak
PROPERTY HardStopStays
CHECK_DEADLOCK FALSE
