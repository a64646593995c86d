SPECIFICATION FairSpec
CONSTANTS
    s1 = s1
    s2 = s2
    s3 = s3
    Sales = {s1, s2, s3}
    Requests = {r1, r2}
    Slots = {"item", "box"}
    BoxSlots = {"box"}
    Products = {"p"}
    ProductOf <- MCProductOf
    MinSelling <- MCMinSelling
    Bins = {"item", "box"}
    BinOf <- MCBinOf
    InitStock <- MCInitStock
    SeedRows <- MCSeedRows
    Seed = Seed
    CreateBodies <- MCCreateBodies
    UpdateBodies <- MCUpdateBodies2
    ReturnBodies <- MCReturnBodies
    NoChange = NoChange
    Statuses = {NoChange, "CANCELLED"}
    OnePerSale = FALSE
INVARIANTS
    TypeOK
    RestoredLinesAreGone
    RowsOfCommittedRequests
    NoOrphanRows
PROPERTIES
    RequestsEnd
CHECK_DEADLOCK FALSE
