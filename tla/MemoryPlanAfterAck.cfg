\* A plan made after the deletion was answered.
SPECIFICATION Spec
CONSTANTS
    s1 = s1
    s2 = s2
    m1 = m1
    Nothing = Nothing
    Scopes = {s1}
    Ids = {m1}
    Keys <- OneKey
    Deleters = {d1}
    Generations = {g1, g2}
    Clients = {}
INVARIANT
    PlanExcludesAcked
