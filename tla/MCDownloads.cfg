SPECIFICATION Spec
CONSTANTS
    Roms = {r1, r2}
    Attempts = {1, 2}
    Slots = 1
    Blocks = 2
    MaxRemovals = 1
    None = None
    NoFile = NoFile
INVARIANTS
    TypeOK
    WholeUnlessCrossed
    
    ClaimHeld
    EntryIsWorked
    NobodyStuck
PROPERTIES
    OnlyOwnerReleases
    EndedStaysEnded
CONSTRAINT MCBound
CHECK_DEADLOCK FALSE
