SPECIFICATION Spec
CONSTANTS
    pooler = pooler
    holder = holder
    router = router
    wallet = wallet
    Addr <- MCAddr
    Contracts <- MCContracts
    InitialQueue <- MCInitialQueue
    InitialWhitelist <- MCInitialWhitelist
    CarefulAdmin = TRUE
    GasInputs <- MCGasInputs
    MaxAdd = 2
    MaxCount = 7
INVARIANTS
    TypeOK
    MapsInverse
    NoOvertaking
    TickedIsAuthorised
PROPERTIES
    ImplementsRoundRobin
