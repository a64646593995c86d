CONSTANTS
    r1 = r1
    r2 = r2
    read = read
    edit = edit
    None = None
    Requests = {r1, r2}
    Features <- MCFeatures
    FeatureSets <- MCFeatureSets
    SeedRows <- MCRows
    MaxFaults = 1
    Suspended = Suspended
    Phones = {1}
    Base = 2
    Width = 2
    Names = {1, 2}
    Entities = {1, 2}
    Purchases <- MCPurchases
    Emails = {2, 3}
SPECIFICATION Spec
SYMMETRY Interchangeable
INVARIANTS
    TypeOK
    ReplacementsStandAlone
    TaxesAddUp
PROPERTIES
    RowsChangeTogether
    FailuresAreExplained
    OnlyRacesMislead
