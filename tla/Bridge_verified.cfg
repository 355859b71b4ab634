SPECIFICATION Spec
CONSTANTS
    Run = {r1, r2}
    Scripts <- AllScripts
    Deployer = Deployer
    Receiver = Receiver
    Amount = 1
    InitialBalance = 1
    MaxUint = 1
    MaxNonce = 10
    NoAddr = NoAddr
INVARIANTS
    VerifiedMeansValid
CHECK_DEADLOCK FALSE
