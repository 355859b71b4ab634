SPECIFICATION Spec
CONSTANTS
    Input = {i1, i2, NoNullifier}
    Satisfiable = {i1, i2}
    MaxRuns = 2
    Unusable = Unusable
INVARIANTS
    TransportDelivers
    CleanRunAccepted
    FreshKeysFreshProof
CHECK_DEADLOCK FALSE
