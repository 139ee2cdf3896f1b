CONSTANTS
    Orders = {o1, o2}
    NoOrder = NoOrder
SPECIFICATION LiveSpec
INVARIANTS TypeOK OneAgreement LastIsKept
PROPERTY DuplicateIsRefused
CHECK_DEADLOCK FALSE
