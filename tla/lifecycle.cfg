CONSTANTS
    Bags = {b1, b2}
    Users = {u1}
    Uploads = {s1, s2}
    Contracts = {c1}
    NoContract = NoContract
    NoUser = NoUser
    NoBag = NoBag
    b1 = b1
    b2 = b2
    u1 = u1
    s1 = s1
    s2 = s2
    c1 = c1
    AgeCap = 2
    PublicLife = 1
    PrivateLife = 1
    TotalSpace = 1
SPECIFICATION Spec
SYMMETRY Symmetry
INVARIANTS
    TypeOK
    UnpaidBound
    QuotaBound
PROPERTIES
    IsBagOfUser
