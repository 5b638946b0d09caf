SPECIFICATION Spec
CONSTANTS
    p1 = p1
    p2 = p2
    s1 = s1
    s2 = s2
    i1 = i1
    i2 = i2
    NoShell = NoShell
    Servers = {p1, p2}
    Shells = {s1, s2}
    MaxRounds = 2
    MaxCrashes = 2
    Starts = {i1, i2}
    Faults = {"stuck", "slow", "again", "beside"}
SYMMETRY Symmetric
INVARIANTS
    TypeOK
    SingleUnlessStruck
    StopIsFinal
    OneWatchdog
PROPERTIES
    OnlyLateCommandsRevive
CHECK_DEADLOCK FALSE
