CONSTANTS
    Bags = {b1}
    Users = {u1}
    Contracts = {c1}
    Providers = {p1}
    NoContract = NoContract
    b1 = b1
    u1 = u1
    c1 = c1
    p1 = p1
    AgeCap = 0
    FileSize <- UnitFiles
    MaxReported = 1
    MaxLookups = 2
    MaxNotifyAttempts = 1
    MaxDownloadChecks = 1
    Recheck = 0
    PaidLife = 1
    RowAgeCap = 2
    LookupBatch = 2
    NotifyBatch = 2
    CheckBatch = 2
    RemoveBatch = 2
SPECIFICATION LookupSpec
PROPERTIES
    LookupsEnd
