SPECIFICATION Spec
CONSTANTS
    s1 = s1
    s2 = s2
    s3 = s3
    Sales = {s1, s2, s3}
    Requests = {r1, r2, r3}
    Slots = {"item", "box"}
    BoxSlots = {"box"}
    Products = {"p"}
    ProductOf <- MCProductOf
    MinSelling <- MCMinSelling
    Bins = {"item", "box"}
    BinOf <- MCBinOf
    InitStock <- MCInitStock
    SeedRows <- MCSeedRows
    Seed = Seed
    CreateBodies <- MCCreateBodies1
    UpdateBodies <- MCUpdateBodies1
    ReturnBodies <- MCReturnBodies1
    NoChange = NoChange
    Statuses = {NoChange}
    OnePerSale = TRUE
INVARIANTS
    StockAccounted
PROPERTIES
    ReturnStatusTellsTruth
SYMMETRY MCSymmetry
CHECK_DEADLOCK FALSE
