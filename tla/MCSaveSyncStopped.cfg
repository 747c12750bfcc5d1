SPECIFICATION Spec
CONSTANTS
    Devices = {d1, d2}
    Files = {srm, rtc}
    NoFile = NoFile
    Syncs = {"preLaunch"}
    MaxContent = 2
    MaxSaves = 3
    MaxFaults = 1
    MaxReplaced = 1
    Truncated = {}
    RenameFails = TRUE
    PlayAnyway = TRUE
SYMMETRY Symmetry

    
PROPERTIES
    AcknowledgedIsCurrent
