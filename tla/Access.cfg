SPECIFICATION Spec
CONSTANTS
    Requests = {r1, r2}
    Seed = Seed
    Emails = {e1, e2}
    SeedEmail = e1
    Templates = {t1, t2, t3}
    SeedTemplate = t1
    read = read
    write = write
    shop = shop
    e1 = e1
    t2 = t2
    Stores = {shop}
    Actions = {read, write}
    SeedGrants <- MCSeedGrants
    Wishes <- MCWishes
    GrantSets <- MCGrantSets
    Pasts <- MCPasts
    None = None
INVARIANTS
    TypeOK
    OneRole
    AnswersAgree
PROPERTIES
    RightsLostOnlyWhenAsked
    SuccessIsComplete
SYMMETRY MCSymmetry
CHECK_DEADLOCK FALSE
