SPECIFICATION Spec
CONSTANTS
    Devices = {d1, d2}
    Files = {srm, rtc}
    NoFile = NoFile
    Syncs = {"postExit"}
    MaxContent = 4
    MaxSaves = 4
    MaxFaults = 0
    MaxReplaced = 0
    Truncated = {}
    RenameFails = FALSE
    PlayAnyway = FALSE
SYMMETRY Symmetry
PROPERTIES
    StaleOnlyIfMoved
