SPECIFICATION Spec
CONSTANTS
    Requests = {r1, r2, r3}
    Seed = Seed
    Emails = {e1, e2}
    SeedEmail = e1
    Companies = {k1, k2}
    SeedCompany = k1
    Templates = 2
    AtOnce = 2
    MaxFaults = 1
    None = None
INVARIANTS
    TypeOK
    OffersWorkOnce
    ClientAndUserTogether
PROPERTIES
    VerifiedStaysVerified
    SuccessIsComplete
SYMMETRY MCSymmetry
CHECK_DEADLOCK FALSE
