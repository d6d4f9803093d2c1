CONSTANTS
    Bags = {b1}
    Users = {u1}
    Uploads = {s1}
    Contracts = {c1}
    NoContract = NoContract
    NoUser = NoUser
    NoBag = NoBag
    b1 = b1
    u1 = u1
    s1 = s1
    c1 = c1
    AgeCap = 2
    PublicLife = 1
    PrivateLife = 1
    TotalSpace = 1
SPECIFICATION FairSpec
PROPERTIES
    UnusedBagLeavesDisk
