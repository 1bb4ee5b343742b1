SPECIFICATION Spec
CONSTANTS
    p1 = p1
    p2 = p2
    Pane = {p1, p2}
    MaxGen = 2
    MaxWire = 2
SYMMETRY Panes
INVARIANTS
    TypeOK
    BannersCurrent
    AnnouncedOnce
    RosterIsTrue
