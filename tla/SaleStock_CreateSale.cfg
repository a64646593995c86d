SPECIFICATION FairSpec
CONSTANTS
    s1 = s1
    s2 = s2
    s3 = s3
    Sales = {s1, s2, s3}
    Requests = {r1, r2}
    Slots = {"item", "box"}
    BoxSlots = {"box"}
    Products = {"p"}
    ProductOf <- MCProductOf
    MinSelling <- MCMinSelling
    Bins = {"item", "box"}
    BinOf <- MCBinOf
    InitStock <- MCInitStock
    SeedRows <- MCSeedRows
    Seed = Seed
    CreateBodies <- MCCreateBodies
    UpdateBodies <- MCNone
    ReturnBodies <- MCNone
    NoChange = NoChange
    Statuses = {NoChange}
    OnePerSale = TRUE
PROPERTIES
    AvailableSaleIsCreated
CHECK_DEADLOCK FALSE
