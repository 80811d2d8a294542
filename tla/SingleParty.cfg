SPECIFICATION FairSpec
CONSTANTS
    a = a
    b = b
    A = a
    B = b
    Unit = 1
    PairType = "Xyk"
    SingleSideLimit <- NoLimit
    Share <- Thirds
    ShareUnit = 3
    FirstReceiver = "lp"
    SplitAmount = 4
    ForwardAmount <- Forwarded
    NewShares <- OtherShares
    NewAmounts = {1}
    NewLimits <- Tight
    DepositSizes = {4}
    MaxDeposit = 4
    TransferSizes = {2}
    Lockup = 1
    NewLockups = {2}
    MaxTime = 1
    HasCommittee = TRUE
    MaxExtras = 1
    MaxPackets <- UnderWay
    MaxTimeouts = 1
INVARIANTS
    TypeOK
    Conservation
    OnlyOpenedAccounts
    BackOnlyAfterLockup
PROPERTY EverythingComesBack
