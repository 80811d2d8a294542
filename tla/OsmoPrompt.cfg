SPECIFICATION RelaySpec
CONSTANTS
    a = a
    b = b
    none = none
    nosplit = nosplit
    A = a
    B = b
    NoParty = none
    NoSplit = nosplit
    Unit = 4
    CovenantType = "Share"
    RagequitEnabled = TRUE
    Penalty = 1
    Allocation <- Even
    Contribution <- Four
    ExplicitSplits <- EvenSplits
    FallbackSplit <- Even
    FundingDuration = 1
    SingleSideLimit <- Four
    HasCommittee = TRUE
    Prompt = TRUE
    DepositDeadline = 1
    Lockup = 2
    MaxTime = 3
    MaxInFlight = 2
INVARIANTS
    PhasesAgree
    SharesRespected
    LeaversArePaid
PROPERTY WithdrawalEnds
CHECK_DEADLOCK FALSE
