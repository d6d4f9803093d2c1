CONSTANTS
    Bags = {b1}
    Users = {u1}
    Uploads = {s1}
    Contracts = {c1}
    Providers = {p1}
    NoContract = NoContract
    NoUser = NoUser
    NoBag = NoBag
    b1 = b1
    u1 = u1
    s1 = s1
    c1 = c1
    p1 = p1
    AgeCap = 1
    PublicLife = 1
    PrivateLife = 0
    TotalSpace = 1
    FileSize <- UnitFiles
    MaxReported = 0
    MaxLookups = 1
    MaxNotifyAttempts = 0
    MaxDownloadChecks = 0
    Recheck = 0
    PaidLife = 0
    RowAgeCap = 1
    LookupBatch = 2
    NotifyBatch = 2
    CheckBatch = 2
    RemoveBatch = 2
SPECIFICATION Spec
PROPERTIES
    QueueSpec
    LifeSpec
    QueuedRelationIsKept
