SPECIFICATION FairSpec
CONSTANTS
    u1 = u1  u2 = u2  a = a  b = b  c = c
    Queue <- MCQueue
    GamesOf <- MCGamesOf
    ChunkSize = 1
    MaxRuns = 2
    MaxUpsets = 2
    Copies = 2
CHECK_DEADLOCK FALSE
INVARIANTS
    TypeOK GenerationsHonest SkipIsSafe StagingKept OneShortcutPerGame
PROPERTIES
    RecordedAsEnded AckIsKept RunEnds
