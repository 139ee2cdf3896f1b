CONSTANTS
    Accounts = {a1}
    Master = master
    Spending = {a1, master}
    Inactivity = 2
    MaxFaults = 1
SPECIFICATION FairSpec
INVARIANTS TypeOK FailedOrderKeepsTransfer TransferInUseIsWhole NothingLeftBehind
PROPERTIES CountdownHonoured OnlyMasterOrderWithdraws LostAgreementEnds ImplementsLife
CHECK_DEADLOCK FALSE
