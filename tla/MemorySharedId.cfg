\* The same entity id deleted in two applications, then a restart.
SPECIFICATION Spec
CONSTANTS
    s1 = s1
    s2 = s2
    m1 = m1
    Nothing = Nothing
    Scopes = {s1, s2}
    Ids = {m1}
    Keys <- SharedId
    Deleters = {d1}
    Generations = {g1}
    Clients = {}
INVARIANT
    AnswersExcludeOwed
