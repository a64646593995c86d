SPECIFICATION Spec
CONSTANTS
    c1 = c1
    c2 = c2
    s1 = s1
    s2 = s2
    st1 = st1
    st2 = st2
    Sales = {s1, s2}
    Customers = {c1, c2}
    NoCustomer = NoCustomer
    NoSale = NoSale
    Requests = {r1, r2, r3, r4}
    Seed = Seed
    CustomerOf <- MCWalkIn
    Stores = {st1, st2}
    Names = {c1, c2}
    StoreOf <- MCStoreOf
    NameOf <- MCNameOf
    AmountOf <- MCAmountOf
    SeedStatus <- MCPacked
    SeedOrders <- MCNone
    SeedEntries <- MCNone
    Targets = {"SHIPPED", "DELIVERED", "COMPLETED", "CANCELLED"}
    DriverTypes = {"COMPANY"}
    OrderMarks = {"DELIVERED"}
    OrderAmounts = {1}
    OnePerSale = TRUE
PROPERTIES
    Lifecycle
INVARIANTS
    WrittenOnce
SYMMETRY MCSymmetry
CHECK_DEADLOCK FALSE
