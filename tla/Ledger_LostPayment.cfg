SPECIFICATION LedgerSpec
CONSTANTS
    c1 = c1
    c2 = c2
    s1 = s1
    Customers = {c1, c2}
    Sales = {s1}
    Writers = {r1, r2}
    CustomerOf <- MCCustomerOf
    NoSale = NoSale
    SeedEntries <- MCSeedEntries
    SeedBalance <- MCSeedBalance
    SeedStatus <- MCCompleted
    PayAmounts = {1}
    DebtAmounts = {}
    Linked = {FALSE}
INVARIANTS
    BalanceFollowsPayments
SYMMETRY MCSymmetry
CHECK_DEADLOCK FALSE
