\* One turn: the balance read after the commit fails.
SPECIFICATION Spec
CONSTANTS
    t1 = t1
    Turns = {t1}
    Total = 3
    PoolSize = 1
    Estimates = {1}
    MaxCharge = 1
    Excess = 0
    Deployments <- DefaultDeployment
    RetrievalErrors = {"vector_store_unavailable"}
    LlmErrors = {"llm_timeout"}
INVARIANTS
    OnlyMissingRowsAreLogged
CHECK_DEADLOCK TRUE
