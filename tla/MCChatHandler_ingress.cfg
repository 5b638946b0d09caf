SPECIFICATION Spec
CONSTANTS
    r1 = r1
    r2 = r2
    text = text
    multimodal = multimodal
    Requests = {r1, r2}
    Streams = {r1}
    Keys = {text, multimodal}
    Limit <- OneEach
    Window = 3
    Slack = 1
    MaxDelay = 1
    MaxClock = 7
INVARIANTS
    TypeOK
    LimitRespected
    RejectedOnlyOverLimit
    Accounted
CHECK_DEADLOCK FALSE
