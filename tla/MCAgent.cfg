SPECIFICATION AgentSpec
CONSTANTS
    Fields <- MCFields
    Schemas <- MCSchemas
    Scalars <- MCScalars
    Names <- MCNames
    MaxNesting = 2
    Exclusive = {"training"}
    Values <- MCValues
    MaxDepth = 4
    MaxGroups = 1
    Tools = {"look"}
    CallIds <- MCCallIds
    MaxCalls = 2
    MaxMessages = 6
INVARIANTS
    RedactionIsComplete
    HistoryStaysValid
