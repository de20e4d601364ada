\* Three processes, two values of the initial credits.
SPECIFICATION Spec
CONSTANTS
    Processes = {p1, p2, p3}
    Grants = {5, 6}
    NoUser = NoUser
    MaxUsed = 2
SYMMETRY Symmetric
INVARIANTS
    ServingMeansReady
    UndisturbedStartsSucceed
PROPERTIES
    RestartsKeepTheBalance
