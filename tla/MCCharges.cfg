CONSTANTS
    Linked = {a1}
    Payer = payer
    PlsPercent = 5
    MaxGroups = 3
    MaxInvoices = 2
SPECIFICATION Spec
INVARIANTS SupportChargedOnce FeeBilledOnce ConvertedAlike DiscountGivenOnce
CHECK_DEADLOCK FALSE
