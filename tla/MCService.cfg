SPECIFICATION FairHistorySpec
CONSTANTS
    Models <- MCModels
    m1 = m1
    m2 = m2
    NoModel = NoModel
    SessionIds = {s1}
    ConversationIds = {c1, Once}
    Once = Once
    ContextLength <- MCContextLength
    Weights <- MCWeights
    MaxContexts = 2
    MaxContextTokens = 4
    DefaultContext = 2
    MaxModels = 2
    Budget = 12
    Reserve = 1
    Available <- MCAvailable
    KeepAlives = {0, 1}
    DefaultKeepAlive = 1
    MaxSessions = 1
    LoadContexts = {0, 3, 5}
    MaxTurns = 2
INVARIANTS
    TablesAgree
    ContextsOfLiveModels
    LeaseIsHeld
    MemoryIsReserved
    ContextsMatchHistory
PROPERTIES
    ReloadKeepsConfiguration
    RequestsEnd
    ExpiredModelsGo
