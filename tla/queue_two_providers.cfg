CONSTANTS
    Bags = {b1}
    Users = {u1}
    Contracts = {c1}
    Providers = {p1, p2}
    NoContract = NoContract
    b1 = b1
    u1 = u1
    c1 = c1
    p1 = p1
    p2 = p2
    AgeCap = 0
    FileSize <- UnitFiles
    MaxReported = 1
    MaxLookups = 0
    MaxNotifyAttempts = 0
    MaxDownloadChecks = 0
    Recheck = 0
    PaidLife = 0
    RowAgeCap = 1
    LookupBatch = 2
    NotifyBatch = 2
    CheckBatch = 2
    RemoveBatch = 1
SPECIFICATION Spec
SYMMETRY Symmetry
INVARIANTS
    
    ResultsFollowNotification
PROPERTIES
    ProgressIsKept
    NothingIsForgotten
