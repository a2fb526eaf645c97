SPECIFICATION ServicesSpec
CONSTANTS
    Parts = 2
    MaxPosts = 3
    MaxRemovals = 1
    MaxFrames = 2
    MaxSdkCalls = 2
    MaxBusStops = 1
    MaxHistory = 3
    AgentName = {a, b}
    NoAgent = NoAgent
    MaxPath = 2
    MaxChanges = 2
    Docs = {1, 2}
    Uploads <- MCUploads
    MaxKbCalls = 2
    MaxKbCrashes = 1
    MaxCommands = 3
    MaxEpCrashes = 1
    MaxGone = 1
    MaxActs = 3
    MaxLost = 1
    MaxSent = 3
    MaxCutoffs = 1
CHECK_DEADLOCK FALSE
INVARIANTS
    ServicesTypeOK
    StoredIsWhole
    CutsDoNotShow
    CodecIsAgreed
    RequestIsFaithful
    AgentsFollowFiles
    KnowledgeIsKept
    CallsAreTold
    EventsAreCurrent
    ScreenSettles
PROPERTIES
    CompletionIsTrue
    NarrationResumes
