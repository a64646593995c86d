SPECIFICATION Spec
CONSTANTS
    s1 = s1
    s2 = s2
    s3 = s3
    ca = ca
    cb = cb
    f1 = f1
    f2 = f2
    f3 = f3
    Requests = {r1, r2}
    Seed = Seed
    Suppliers = {s1, s2, s3}
    KnownSuppliers = {s1, s2}
    NoSupplier = NoSupplier
    Codes = {ca, cb}
    NoCode = NoCode
    Files = {f1, f2, f3}
    RowsOf <- MCRowsOf
    BareFiles = {f3}
    SeedProducts <- MCSeedProducts
    SeedPacks <- MCSeedPacks
    SeedLinks <- MCSeedLinks
    CreateBodies <- MCCreateBodies
    UpdateBodies <- MCUpdateBodies
    Quantities = {3}
INVARIANTS
    TypeOK
    PacksAgree
    UniqueByCode
    FilesTellTruth
PROPERTIES
    SuccessIsComplete
SYMMETRY MCSymmetry
CHECK_DEADLOCK FALSE
