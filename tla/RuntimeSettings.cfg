\* Two administrators and two threads that need the memory client.
SPECIFICATION Spec
CONSTANTS
    v1 = v1
    v2 = v2
    Values = {v1, v2}
    Requests <- EachRoute
    Admins = {a1, a2}
    Readers = {r1, r2}
    DefaultMem0 = FALSE
    MaxRequests = 2
    Missing = Missing
SYMMETRY Symmetry
INVARIANTS
    TypeOK
    SecretsStand
    SettledAgrees
    ClientIsCurrent
CHECK_DEADLOCK FALSE
