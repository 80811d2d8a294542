SPECIFICATION Spec
CONSTANTS
    a = a
    b = b
    none = none
    nosplit = nosplit
    A = a
    B = b
    NoParty = none
    NoSplit = nosplit
    Unit = 4
    CovenantType = "Side"
    RagequitEnabled = TRUE
    Penalty = 1
    Allocation <- Even
    Contribution <- MCContribution
    ExplicitSplits <- OneSplit
    FallbackSplit <- Even
    PairType = "Xyk"
    SingleSideLimit <- Limit3
    HasCommittee = TRUE
    DepositAmounts = {3, 4}
    MaxDeposit = 7
    DepositDeadline = 1
    Lockup = 2
    NewDeadlines = {2, 3}
    MaxTime = 3
INVARIANT SidesRespected
