SPECIFICATION Spec
CONSTANTS
    Pages <- MCPages
    Cuts <- MCCuts
    Readers = {"entries", "children", "containers", "objects"}
INVARIANTS
    TypeOK
    CutReadsSame
    PlacementIsOneRecord
    NamesCollideVisibly
CHECK_DEADLOCK FALSE
