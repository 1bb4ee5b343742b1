SPECIFICATION Spec
CONSTANTS
    w1 = w1
    w2 = w2
    d1 = d1
    c1 = c1
    c2 = c2
    Workspace = {w1, w2}
    Primary = Primary
    None = None
    Window = {d1}
    Call = {c1, c2}
    MaxSocket = 2
    MaxWire = 3
INVARIANTS
    TypeOK
    NeverMovesDesk
    PinsWereAccepted
    ScreenIsRight
PROPERTY
    ComesBack
CHECK_DEADLOCK FALSE
