SPECIFICATION Spec
CONSTANTS
    Requests = {r1, r2}
    Totals = {2}
    Amounts = {1, 2}
    MaxTask = 2
    MaxInvoice = 1
    MaxExpense = 1
    MaxPaid = 3
PROPERTIES
    PaidTaskStays
