SPECIFICATION Spec
CONSTANTS
    Procs = {p1, p2}
    Root = root
    NoIno = NoIno
    i1 = i1
    i2 = i2
    i3 = i3
    Inos = {root, i1, i2}
    Names = {"a", "b"}
    Paths <- MCPaths
    NSlots = 2
    Risks = {"create", "link"}
SYMMETRY Symmetric
INVARIANTS DirsOK CountsExact
