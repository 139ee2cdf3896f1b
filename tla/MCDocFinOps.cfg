CONSTANTS
    Agreements = {g1}
    Accounts = {a1}
    NoOne = NoOne
    Inactivity = 1
    MaxIds = 1
    MaxFaults = 0
SPECIFICATION FairSpec
PROPERTY EndedIsNotEntitled
CHECK_DEADLOCK FALSE
