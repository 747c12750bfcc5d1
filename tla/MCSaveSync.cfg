SPECIFICATION FairSpec
CONSTANTS
    Devices = {d1, d2}
    Files = {srm}
    NoFile = NoFile
    Syncs = {"postExit"}
    MaxContent = 3
    MaxSaves = 5
    MaxFaults = 1
    MaxReplaced = 0
    Truncated = {3}
    RenameFails = TRUE
    PlayAnyway = FALSE
INVARIANTS
    TypeOK
    NoLostWork
    
PROPERTIES
    
    
    ConflictIsReal
    Converges
