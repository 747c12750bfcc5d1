SPECIFICATION Spec
CONSTANTS
    Roms = {r1}
    Attempts = {1, 2}
    Slots = 1
    Blocks = 2
    MaxRemovals = 0
    None = None
    NoFile = NoFile
INVARIANT InstalledIsWhole
CHECK_DEADLOCK FALSE
