SPECIFICATION Spec
CONSTANTS
    Procs = {p1, p2}
    NoProc = NoProc
    NFiles = 2
    NFds = 2
    Size = 4
    NVals = 3
    MaxCount = 2
    Risks = {}
SYMMETRY Symmetric
INVARIANTS Counted Waiting
PROPERTIES InOrder
CHECK_DEADLOCK FALSE
