SPECIFICATION Spec
CONSTANTS
    Procs = {p1, p2}
    NoProc = NoProc
    NPages = 4
    Sizes = {3, 4}
    NAddrs = 2
    NFile = 1
    NSwap = 1
    Exes = {x1, x2}
    NoExe = NoExe
    Vals = {v1}
    Risks = {}
INVARIANTS Accounted WriterAlone
PROPERTY PrivateMemory
SYMMETRY Symmetric
CHECK_DEADLOCK FALSE
