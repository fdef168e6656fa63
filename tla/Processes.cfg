SPECIFICATION Spec
CONSTANTS
    Pages = {p1, p2, p3}
    Zero = zero
    InitTask = init
    Null = null
    Slots = {2, 3, 4}
    MaxPid = 4
    Codes = {1}
    Waits <- AnyChild
    Options <- NoOptions
    Uses <- SomeUses
SYMMETRY PagesAlike
INVARIANTS FamilyOK UniquePid NothingMissed TtyHasLeader
PROPERTIES OrphansContinued
CHECK_DEADLOCK FALSE
