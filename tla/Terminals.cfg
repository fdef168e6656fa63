SPECIFICATION Spec
CONSTANTS
    Kinds = {"console", "serial"}
    Modes <- MCModes
    Keys <- MCKeys
    Size = 3
    Room = 2
    Startup = 1
    Reads = {2}
    Vmins = {0, 2}
    MaxWrite = 2
    Risks = {"stop"}
INVARIANTS QueuesOK  Waiting
PROPERTIES CallsEnd
