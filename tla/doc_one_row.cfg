\* One turn: the provider reports a model PricingService does not know.
SPECIFICATION Spec
CONSTANTS
    t1 = t1
    Turns = {t1}
    Total = 3
    PoolSize = 1
    Estimates = {1}
    MaxCharge = 1
    Excess = 0
    Deployments <- DefaultDeployment
    RetrievalErrors = {"vector_store_unavailable"}
    LlmErrors = {"llm_timeout"}
INVARIANTS
    OneRowPerSuccessfulRequest
CHECK_DEADLOCK TRUE
