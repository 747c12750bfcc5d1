SPECIFICATION FairSpec
CONSTANTS
    Games = 1
    MaxChanges = 1
    MaxDeaths = 1
    Shutdowns = 1
    MaxResends = 1
INVARIANTS
    TypeOK
    SourceIsKept
    ResultIsTrue
PROPERTIES
    GivenUpStaysUnclaimed
    RunEnds
CHECK_DEADLOCK FALSE
