SPECIFICATION McpSpec
CONSTANTS
    Task = {t1, t2}
    Server = {v1}
    NoServer = NoServer
    Failed = Failed
    MaxCalls = 1
CHECK_DEADLOCK FALSE
INVARIANTS
    AnswerIsOwn
