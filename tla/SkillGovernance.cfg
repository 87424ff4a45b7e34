\* Two requests, one generation, two skills, the first one of two versions.
SPECIFICATION Spec
CONSTANTS
    NSkills = 2
    Versions = {1, 2}
    Deployments <- DeployedFiles
    FileStatus <- Files
    Handlers = {h1, h2}
    Decisions <- Asked
    Generations = {g1}
    MaxUpdates = 3
    Unset = Unset
SYMMETRY HandlerSymmetry
INVARIANTS
    DecisionsStand
    SelectionIsStable
    SelectionIsWitnessed
