\* Three turns, two connections, the default settings (retrieval on).
SPECIFICATION Spec
CONSTANTS
    t1 = t1
    t2 = t2
    t3 = t3
    Turns = {t1, t2, t3}
    Total = 3
    PoolSize = 2
    Estimates = {1, 2}
    MaxCharge = 3
    Excess = 1
    Deployments <- DefaultDeployment
    RetrievalErrors = {"vector_store_unavailable"}
    LlmErrors = {"llm_timeout"}
SYMMETRY Symmetric
INVARIANTS
    TypeOK
    OverdraftBounded
    LedgerMatchesBalance
    ReplyMatchesLedger
    LostChargesAreLogged
    SpendsOnlyOnGroundedAnswers
    ShownBalancesAddUp
PROPERTIES
    ImplementsAccount
    BalanceMovesWithLedger
CHECK_DEADLOCK TRUE
