CONSTANTS
    p1 = p1
    p2 = p2
    Targets = {p1, p2}
    Rows <- Rates
    Requests <- KeyLists
    Sizes <- ByteSizes
    BagSize = 5
    Megabyte = 4
    Width = 16
    HandlerLimit = 2
    ServiceLimit = 3
SPECIFICATION Spec
INVARIANTS
    TypeOK
    EveryProviderIsAnswered
    OfferedProvidersHaveRoom
    ContractIsAsAsked
PROPERTIES
    ExpiredBagGetsNoContract
