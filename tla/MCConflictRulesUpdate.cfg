SPECIFICATION Spec
CONSTANTS
    Calls = {guarded, unguarded, reading}
    GuardedCalls = {guarded}
    ReadOnlyCalls = {reading}
    Tokens = {t1}
    Starts = {s1, s2}
    Presses = {p1, p2}
    NoRun = NoRun
INVARIANT UpdateExcludesCleanup
