SPECIFICATION Spec
CONSTANTS
    NSlots = 3
    Blocks = {0, 2, 4}
    Pages = {0}
    Size = 6
    PageSectors = 3
    NrHd = 2
    MaxErrors = 3
    Wants = {"read", "write", "swap"}
    Risks = {}
INVARIANTS EndedComplete Served
PROPERTIES Ends
