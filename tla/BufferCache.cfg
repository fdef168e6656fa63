SPECIFICATION Spec
CONSTANTS
    Procs = {p1, p2}
    NoProc = NoProc
    NBufs = 3
    Blocks = {x1, x2, x3, x4}
    NoBlock = NoBlock
    d1 = d1
    Devs = {d1}
    NoDev = NoDev
    Dev <- OneDevice
    NSlots = 2
    Ops = {"breada", "new_block", "file_write", "sys_sync"}
    Errors = {"read"}
    Faults = TRUE
    MaxAhead = 1
    MaxOps = 3
ACTION_CONSTRAINT NoWriteInCopy
SYMMETRY Symmetric
INVARIANTS UniqueBlock BuffersOK DataKept
PROPERTY HeldStays
CHECK_DEADLOCK FALSE
