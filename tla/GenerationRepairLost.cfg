\* The repair of a code generation meets a provider that is down.
SPECIFICATION Spec
CONSTANTS
    Requests = {r1}
    Inputs <- Repairable
    Flags <- DefaultFlags
    local = local
    openai = openai
    typo = typo
    Providers = {local, openai, typo}
    Registered = {local, openai}
    None = None
INVARIANT
    RepairKeepsOriginal
CHECK_DEADLOCK FALSE
