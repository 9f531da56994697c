SPECIFICATION ManagerSpec
CONSTANTS
    Models = {m, n}
    Runtimes <- MCRuntimes
    Kind <- MCKind
    Inventories <- MCInventories
    Limit = 2
INVARIANTS
    SelectionIsBest
CHECK_DEADLOCK FALSE
