SPECIFICATION FairSpec
CONSTANTS
    a = a
    b = b
    none = none
    nosplit = nosplit
    A = a
    B = b
    NoParty = none
    NoSplit = nosplit
    Unit = 4
    CovenantType = "Share"
    RagequitEnabled = TRUE
    Penalty = 1
    Allocation <- Even
    Contribution <- MCContribution
    ExplicitSplits <- BothSplits
    FallbackSplit <- Even
    PairType = "Stable"
    SingleSideLimit <- Limit2
    HasCommittee = TRUE
    DepositAmounts = {1, 4}
    MaxDeposit = 5
    DepositDeadline = 1
    Lockup = 2
    NewDeadlines = {2, 3}
    MaxTime = 3
INVARIANTS
    TypeOK
    Conservation
    PhasesAgree
    SharesRespected
PROPERTIES
    NoSecondExit
    LockupHolds
    DepositsAreForwardedOrRefunded
    CovenantEnds
