CONSTANTS
    Call = {c1, c2}
    Closer = {k1}
    NoCall = NoCall
    MaxInbox = 1
    Pushed = {"welcome", "welcomeRefused", "push"}
    Verdict = {TRUE}
SYMMETRY CallSymmetry
SPECIFICATION SafeSpec
INVARIANTS
    TypeOK
    ExactlyOneSettler
    OwnResult
    NobodyWaitsOnceClosed
    CloseIsFinal
CHECK_DEADLOCK FALSE
