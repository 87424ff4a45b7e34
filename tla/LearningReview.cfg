\* Two reviewers decide, one by one or in batches, what a run has found.
SPECIFICATION FairSpec
CONSTANTS
    Keys = {k1, k2}
    Hashes = {c1, c2}
    Promotable = {c1}
    MaxRuns = 1
    Scanners = {h1}
    Reviewers = {r1, r2}
    NoHash = NoHash
    Nobody = Nobody
INVARIANTS
    TypeOK
    GrantedIsCatalogued
    NothingForgotten
    AuditIsTruthful
PROPERTIES
    KeepsLifecycle
    ApprovalConcludes
