SPECIFICATION DaemonSpec
CONSTANTS
    Processes = {p, q}
    Ids <- MCIds
    Files <- MCFiles
    Contents = {a}
    Torn = Torn
    Pins <- MCPins
    Inventories <- MCInventories
    Nobody = Nobody
    Leftover = Leftover
    x = x
    y = y
    f = f
    g = g
    a = a
SYMMETRY Symmetry
INVARIANTS
    OneOwner
    LoadedStaysPublished
    EndpointIsServed
PROPERTIES
    PublishedWhole
    EngineGetsThePinned
