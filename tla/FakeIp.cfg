SPECIFICATION Spec
CONSTANTS
    Hosts = {h1, h2, h3}
    NoHost = NoHost
    Queries = {q1, q2}
    First = 4
    Last = 7
    Sizes = {2, 3}
    MaxOps = 5
    MaxEvents = 2
INVARIANTS Mirrored
PROPERTIES PoolIsTable
SYMMETRY Symmetry
CHECK_DEADLOCK FALSE
