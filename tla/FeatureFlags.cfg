\* Two threads, each of which calls again and again, and two changes of the flags.
SPECIFICATION Spec
CONSTANTS
    Threads = {t1, t2}
    TTL = 2
    Lag = 1
    Config = Config
    Nothing = Nothing
    MaxTime = 5
    MaxVersion = 2
SYMMETRY Symmetry
INVARIANTS
    TypeOK
    FlagsAreFresh
    OutageIsBridged
CHECK_DEADLOCK FALSE
