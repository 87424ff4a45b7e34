\* One memory: its deletion races with a generation, a service client and crashes.
SPECIFICATION FairSpec
CONSTANTS
    s1 = s1
    s2 = s2
    m1 = m1
    Nothing = Nothing
    Scopes = {s1}
    Ids = {m1}
    Keys <- OneKey
    Deleters = {d1}
    Generations = {g1}
    Clients = {c1}
INVARIANTS
    TypeOK
    AnswersExcludeOwed
    AckedGoverned
    HiddenStaysHidden
PROPERTIES
    KeepsPromise
    AckedLeavesCache
