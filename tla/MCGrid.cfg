SPECIFICATION Spec
CONSTANTS
    Sizes <- MCSizes
    Cell <- MCCell
    Default = {1, 2}
    MaxWire = 1
INVARIANTS
    TypeOK
    Mirrors
    CleanRowsArePainted
