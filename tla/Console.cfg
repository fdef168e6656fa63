SPECIFICATION Spec
CONSTANTS
    Columns = 2
    Rows = 3
    Tab = 2
    Memory = 17
    MAX_CONSOLES = 2
    NPAR = 2
    Videos = {"EGA", "CGA"}
    Chars <- MCChars
    Written = {0}
    MaxInk = 1
    MaxPar = 2
    Saved <- MCSaved
    Echoed = {"a"}
    Risks = {}
INVARIANTS PlacesOK
PROPERTIES Separate
