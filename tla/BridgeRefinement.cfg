SPECIFICATION Spec
CONSTANTS
    Run = {r1, r2, r3}
    Scripts = {"deployContracts", "transferBridge"}
    Deployer = Deployer
    Receiver = Receiver
    Amount = 1
    InitialBalance = 2
    MaxUint = 2
    MaxNonce = 9
    NoAddr = NoAddr
SYMMETRY RunSymmetry
INVARIANTS
    NoFailureAfterBurn
    BurnWasProved
    RefinementInv
    Conservation
    ReportCoversTransfer
PROPERTIES
    RefinesTokenBridge
CHECK_DEADLOCK FALSE
