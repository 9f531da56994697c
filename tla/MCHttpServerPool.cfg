SPECIFICATION Spec
CONSTANTS
    Requests = {p, q}
    Methods <- MCMethods
    NoMethod = NoMethod
    Workers = 1
    Controls = 1
    Spare = 1
    OutputLimit = 1
    MaxEvents = 1
SYMMETRY Symmetry
INVARIANTS
    AdmissionBalances
CHECK_DEADLOCK FALSE
