CONSTANTS
    NoMpa = NoMpa
    MPAs = {m1}
    AccountTypes = {"existing"}
    SupportTypes = {"RESOLD"}
    RolesTimeout = 0
    QueryTimeout = 0
    MaxAge = 1
    MaxMade = 2
    MaxFaults = 1
    MaxResubmits = 0
SPECIFICATION Spec
INVARIANT AlwaysWatched
CHECK_DEADLOCK FALSE
