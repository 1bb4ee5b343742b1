SPECIFICATION Spec
CONSTANTS
    w1 = w1
    w2 = w2
    a1 = a1
    i1 = i1
    d1 = d1
    d2 = d2
    red = red
    NoCopy = NoCopy
    UI = UI
    HostEvents = HostEvents
    RenderLoop = RenderLoop
    Word = {w1, w2}
    Clip = {w2}
    MaxSend = 2
    Text <- Texts
    ByHand <- Typed
    Blank = Blank
    MaxLogin = 2
    NoPort = NoPort
    NoErr = NoErr
    NoGrant = NoGrant
    Desk = {d1, d2}
    Id = {i1}
    Answer = {a1}
    MaxGen = 2
    Glyph = {" ", "a", "W", ""}
    Color = {DefFg, DefBg, red}
    DefFg = DefFg
    DefBg = DefBg
    Inherit = Inherit
    Rollups <- SmallRollups
    Rows <- SmallRows
CONSTRAINT Followed
INVARIANTS
    ScreensTypeOK
    SlotTellsTheTruth
    EveryWordOnce
    LinksInTheOpen
    FormTellsTheTruth
    StaleMeansPassPending
    SpentMeansAnswered
    RosterReads
    PaintsTheCells
CHECK_DEADLOCK FALSE
