SPECIFICATION FairSpec
CONSTANTS
    a = a
    b = b
    A = a
    B = b
    Unit = 2
    Contribution <- Terms
    Splits <- Parts
    Interchain = {a}
    DepositSizes = {2, 3}
    MaxDeposit <- Limits
    Lockup = 1
    MaxTime = 2
    MaxPackets = 2
    MaxStale = 1
    MaxFallbacks = 1
INVARIANTS
    TypeOK
    Conservation
    AccountInStep
    SwapOrRefund
PROPERTIES
    ImplementsAtomicSwap
    SwapPaysOut
    LateDepositsComeBack

CHECK_DEADLOCK FALSE
