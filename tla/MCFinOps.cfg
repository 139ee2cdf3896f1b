CONSTANTS
    Agreements = {g1, g2}
    Accounts = {a1}
    NoOne = NoOne
    Inactivity = 1
    MaxIds = 2
    MaxFaults = 1
SPECIFICATION FairSpec
INVARIANTS TypeOK DuplicateNeedsKept LiveIsRecorded
PROPERTIES InactivityHonoured OrderEndsEntitlements UsedIsEntitled
CHECK_DEADLOCK FALSE
