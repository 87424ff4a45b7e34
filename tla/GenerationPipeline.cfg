\* One request of any kind under any settings; the process may die.
SPECIFICATION FairSpec
CONSTANTS
    Requests = {r1}
    Inputs <- AllInputs
    Flags <- AllFlags
    local = local
    openai = openai
    typo = typo
    Providers = {local, openai, typo}
    Registered = {local, openai}
    None = None
INVARIANTS
    TypeOK
    CompletedIsBacked
    AnswersAreGuarded
    CallsAreAccounted
    VerdictIsEarned
    PlanIsSettled
PROPERTIES
    KeepsContract
    RequestsAreAnswered
CHECK_DEADLOCK FALSE
