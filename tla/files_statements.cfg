CONSTANTS
    Bags = {b1}
    Users = {u1, u2, u3}
    Contracts = {c1}
    NoContract = NoContract
    b1 = b1
    u1 = u1
    u2 = u2
    u3 = u3
    c1 = c1
    AgeCap = 2
    PrivateLife = 1
SPECIFICATION StatementsFairSpec
INVARIANTS
    StatementsTypeOK
PROPERTIES
    OrphansComeFromOverlap
    DropsAreOwnOrOverdue
    PaidDropsOverlapPayment
    IsRelationOfUser
    UnpaidIsTemporary
    UnusedBagIsForgotten
