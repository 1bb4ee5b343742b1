SPECIFICATION Spec
CONSTANTS
    p1 = p1
    p2 = p2
    Pane = {p1}
    MaxGen = 2
    MaxWire = 2
SYMMETRY Panes
INVARIANT PaneShowsRoster
