SPECIFICATION FairSpec
CONSTANTS
    a = a
    b = b
    foreign = foreign
    untrn = untrn
    A = a
    B = b
    Foreign = foreign
    Ntrn = untrn
    Unit = 4
    Interchain = {a}
    Fee = 1
    Splits <- Agreed
    NewSplits <- MCNewSplits
    FallbackSplit <- Even
    Targets <- MCTargets
    NewTargets = {{a}, {a, b, foreign}}
    Deliveries <- MCDeliveries
    MaxAgain = 1
    MaxMigrations = 1
    MaxFallbacks = 2
INVARIANT SharesRespected
PROPERTIES
    ReserveKept
    EverythingPaidOut
CHECK_DEADLOCK FALSE
