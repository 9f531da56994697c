SPECIFICATION FairSpec
CONSTANTS
    Requests = {r1, r2, r3}
    Capacity = 2
    NoRequest = NoRequest
INVARIANTS
    ServedInOrder
    StopReachesEveryone
    StateOutlivesWork
PROPERTIES
    ImplementsSettlement
    ShutdownCompletes
    CancelledWaitingNeverRuns
    EverybodyIsAnswered
