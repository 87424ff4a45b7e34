\* Two requests in two seconds of two ticks, two threads.
SPECIFICATION Spec
CONSTANTS
    Tenants = {t1}
    Threads = {h1, h2}
    MaxRequests <- Two
    WindowSeconds <- Two
    TicksPerSecond = 2
    Lag = 1
    MaxTime = 10
    MaxGrants = 4
SYMMETRY ThreadSymmetry
INVARIANTS
    WindowLimit
PROPERTY
    RetryIsHonoured
CHECK_DEADLOCK FALSE
