SPECIFICATION Spec
CONSTANTS
    Procs = {p1, p2}
    NoProc = NoProc
    Inodes = {e1, e2, e3, e4}
    NoInode = NoInode
    f1 = f1
    Regular = {f1, f2}
    First = f1
    Blocks = {b1, b2}
    NoBlock = NoBlock
    Risks = {}
SYMMETRY Symmetric
INVARIANTS TableOK BlockOwned NamesLead InUseMounted
