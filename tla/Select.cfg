SPECIFICATION Spec
CONSTANTS
    p1 = p1
    p2 = p2
    p3 = p3
    Procs = {p1, p2, p3}
    None = None
    Wants <- MCWants
    Calls <- MCCalls
    Cap = 1
    Risks = {}
INVARIANTS QueuesOK NoLostWakeup
PROPERTIES SelectEnds
