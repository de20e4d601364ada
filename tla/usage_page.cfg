\* A page, two turns that overlap when the page loses an answer, one connection.
SPECIFICATION FairPageSpec
CONSTANTS
    t1 = t1
    t2 = t2
    p1 = p1
    Turns = {t1, t2}
    Pages = {p1}
    Viewers <- MCViewers
    Total = 2
    PoolSize = 1
    Estimates = {1}
    MaxCharge = 1
    Excess = 0
    Deployments <- MCDeployments
    RetrievalErrors = {"vector_store_unavailable"}
    LlmErrors = {"llm_timeout"}
INVARIANTS
    PageTypeOK
    SummaryCoversBalance
    SummaryIncludesAnsweredTurns
PROPERTIES
    DisplayGoesBackOnRaceOnly
    EverySendSettles
    EveryTurnEnds
CHECK_DEADLOCK FALSE
