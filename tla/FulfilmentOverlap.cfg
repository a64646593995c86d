SPECIFICATION Spec
CONSTANTS
    c1 = c1
    c2 = c2
    s1 = s1
    s2 = s2
    st1 = st1
    st2 = st2
    Sales = {s1, s2}
    Customers = {c1, c2}
    NoCustomer = NoCustomer
    NoSale = NoSale
    Requests = {r1, r2, r3}
    Seed = Seed
    CustomerOf <- MCOneCustomer
    Stores = {st1, st2}
    Names = {c1, c2}
    StoreOf <- MCStoreOf
    NameOf <- MCNameOf
    AmountOf <- MCAmountOf
    SeedStatus <- MCOnTheWay
    SeedOrders <- MCOrders
    SeedEntries <- MCEntries
    Targets = {"SHIPPED", "DELIVERED", "CANCELLED"}
    DriverTypes = {"COMPANY", "THIRD_PARTY"}
    OrderMarks = {"DELIVERED"}
    OrderAmounts = {2}
    OnePerSale = FALSE
INVARIANTS
    TypeOK
    ShippedHasOrder
    DeliveredIsBilled
SYMMETRY MCSymmetry
CHECK_DEADLOCK FALSE
