SPECIFICATION FairSpec
CONSTANTS
    Poll = 1
    Wait = 4
    LongestWait = 8
    Command = 1
    Backoffs <- Schedule
    LoadTimes <- Loads
    Budget <- ScheduleBudget
    MaxCrashes = 1
    MaxRefused = 2
INVARIANTS
    DowntimeBounded
    LoadNotCutShort
PROPERTIES
    SlowNodesRecover
