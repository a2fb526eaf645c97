SPECIFICATION TasksSpec
CONSTANTS
    Task = {t1, t2}
    Server = {v1}
    NoServer = NoServer
    Failed = Failed
    MaxCalls = 2
    MaxSessions = 2
    MaxTriggers = 2
    MaxEdits = 1
    MaxIncs = 2
    MaxChunks = 2
    MaxTagged = 1
    EventCap = 2
    StreamCap = 1
    MaxCrashes = 1
    Conn = {c1}
    Session = {s1}
    Chan = {n1}
    SubId = {i1, i2}
    Id = {a}
    None = None
    Cap = 1
    Retain = 1
    MaxSends = 2
    MaxTime = 0
CHECK_DEADLOCK FALSE
INVARIANTS
    TasksTypeOK
    NoStaleAnswer
    OneRuntime
    WatchIsExact
    ExecutedAtMostOnce
PROPERTIES
    AwaitedIsKept
    EveryCallEnds
    TriggersArrive
    EveryMatchIsSeen
    AudioIsSent
    EveryChunkArrives
