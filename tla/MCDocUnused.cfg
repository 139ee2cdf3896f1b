CONSTANTS
    Accounts = {a1}
    Master = master
    Spending = {a1}
    Inactivity = 3
    MaxFaults = 0
SPECIFICATION Spec
PROPERTY OnlyUnusedTerminated
CHECK_DEADLOCK FALSE
