CONSTANTS
    Authorizations = {u1, u2}
    Agreements = {g1, g2}
    Views = {v1, v2}
    NoAuth = NoAuth
    BackoffLimit = 1
    MaxDisturbances = 1
    MaxDeaths = 1
SPECIFICATION Spec
SYMMETRY Symmetry
INVARIANTS TypeOK OneOpenJournal FileIsAccounted RetriedJobBillsAll ReportCoversJournals
CHECK_DEADLOCK FALSE
