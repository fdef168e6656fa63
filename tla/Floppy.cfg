SPECIFICATION Spec
CONSTANTS
    Drives = {0, 1}
    Checked = {1}
    Asked <- MCAsked
    Tracks = {0, 1}
    BadTrack = 9
    MaxQueue = 2
    MaxErrors = 1
    SpinUp = 2
    Select = 2
    Off = 5
    MaxFaults = 1
    Risks = {}
INVARIANTS DriveOK Driven
PROPERTIES AllEnd
