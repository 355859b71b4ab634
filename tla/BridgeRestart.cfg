SPECIFICATION RestartSpec
CONSTANTS
    Run = {r1, r2, r3}
    Scripts = {"deployContracts", "transferBridge"}
    Deployer = Deployer
    Receiver = Receiver
    Amount = 1
    InitialBalance = 1
    MaxUint = 1
    MaxNonce = 5
    NoAddr = NoAddr
    MaxRestarts = 1
SYMMETRY RunSymmetry
INVARIANTS
    TypeOK
    RestartInv
    UncrossedReportCovers
PROPERTIES
    UncrossedTransferIsReal
CHECK_DEADLOCK FALSE
