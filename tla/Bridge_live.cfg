SPECIFICATION FairSpec
CONSTANTS
    Run = {r1, r2}
    Scripts <- AllScripts
    Deployer = Deployer
    Receiver = Receiver
    Amount = 1
    InitialBalance = 2
    MaxUint = 2
    MaxNonce = 10
    NoAddr = NoAddr
INVARIANTS
    Wiring
PROPERTIES
    Termination
    BurnLeadsToMint
CHECK_DEADLOCK FALSE
