CONSTANTS
    Orders = {o1, o2}
    NoOrder = NoOrder
SPECIFICATION Spec
INVARIANT OnePerLicensee
CHECK_DEADLOCK FALSE
