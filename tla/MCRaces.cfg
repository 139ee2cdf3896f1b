CONSTANTS
    NoMpa = NoMpa
    MPAs = {m1, m2}
    AccountTypes = {"new", "existing"}
    SupportTypes = {"PLS"}
    RolesTimeout = 0
    QueryTimeout = 1
    MaxAge = 2
    MaxMade = 2
    MaxFaults = 0
    MaxResubmits = 1
SPECIFICATION Spec
SYMMETRY Symmetry
INVARIANTS
    ParamsFollowPhase
    CompletedIsProvisioned
    OneResourceWithoutFault
    PlsGate
    StaleWriteNeedsCustomer
PROPERTY ImplementsLifecycle
CHECK_DEADLOCK FALSE
