SPECIFICATION FairSpec
CONSTANTS
    Requests = {p}
    Methods <- MCMethods
    NoMethod = NoMethod
    Workers = 1
    Controls = 1
    Spare = 1
    OutputLimit = 2
    MaxEvents = 4
INVARIANTS
    WireInOrder
    NothingIsOrphaned
PROPERTIES
    DeliveredIsLeftAlone
    InterruptedEnds
CHECK_DEADLOCK FALSE
