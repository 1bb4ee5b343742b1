CONSTANTS
    Call = {c1}
    Closer = {k1, k2}
    NoCall = NoCall
    MaxInbox = 1
    Pushed = {"welcomeOtherVersion", "junk"}
    Verdict = {FALSE}
SPECIFICATION Spec
PROPERTIES
    KeepsPromise
    CloseReturnsEventually
CHECK_DEADLOCK FALSE
