SPECIFICATION FairSpec
CONSTANTS
    Modes = {"distribution", "text", "multiturn", "thinking", "affinity",
             "sampling", "streaming", "concurrent", "routing", "queue",
             "throughput", "image"}
    Requests = 5
    Concurrency = 3
    MaxTrouble = 1
    Slots <- DeployedSlots
    QueueLimit <- ShortQueue
    RateLimit <- DeployedLimit
INVARIANTS
    TypeOK
    ResultsComplete
    ThrottledOnlyBeyondLimit
PROPERTIES
    QueuedOnlyOversubscribed
    Finishes
    WorkRunsOut
CHECK_DEADLOCK FALSE
