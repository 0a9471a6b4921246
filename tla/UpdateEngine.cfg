SPECIFICATION Spec
CONSTANTS
    Nodes = {1, 2}
    Entry = 1
    Leader = 2
    Jobs = {1, 2}
    Requests = {r1, r2}
    Tags = {2}
    Handlers = {h1, h2}
    MaxCalls = 3
    MaxEvents = 1
SYMMETRY Symmetry
INVARIANTS
    OneJobInFlight
    RollsOneByOne
    OwnRestartLosesNothing
    WorkerOwnsTarget
    CancelStopsTheRoll
    NoOrphanJob
PROPERTIES
    SuccessKept
CHECK_DEADLOCK FALSE
