CONSTANTS
    Linked = {a1}
    Payer = payer
    PlsPercent = 5
    MaxGroups = 2
    MaxInvoices = 1
SPECIFICATION Spec
INVARIANT NoInvoiceNoDiscount
CHECK_DEADLOCK FALSE
