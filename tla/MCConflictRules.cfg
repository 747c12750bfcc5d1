SPECIFICATION FairSpec
CONSTANTS
    Calls = {guarded, reading}
    GuardedCalls = {guarded}
    ReadOnlyCalls = {reading}
    Tokens = {t1}
    Starts = {s1, s2}
    Presses = {p1, p2}
    NoRun = NoRun
INVARIANTS
    TypeOK
    HoldsAreOwned
PROPERTIES
    StartIsAnswered
    PromiseKept
