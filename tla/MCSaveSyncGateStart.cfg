SPECIFICATION Spec
CONSTANTS
    Runs = {r1, r2}
    Others = {o1}
    LastRom = 2
    Played = {2}
    MaxFiles = 1
    Nobody = Nobody
PROPERTIES
    RunningGameIsKept
