CONSTANTS
    NoMpa = NoMpa
    MPAs = {m1}
    AccountTypes = {"existing"}
    SupportTypes = {"PLS", "RESOLD"}
    RolesTimeout = 0
    QueryTimeout = 1
    MaxAge = 2
    MaxMade = 2
    MaxFaults = 1
    MaxResubmits = 0
SPECIFICATION FairSpec
INVARIANTS
    TypeOK
    OneResourceWithoutFault
    OneErrorEmail
    FailedIsNotSold
    QueryingIsWatched
PROPERTIES PhaseOnlyAdvances AcceptedOrderEnds
CHECK_DEADLOCK FALSE
