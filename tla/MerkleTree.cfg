SPECIFICATION Spec
CONSTANTS
    Leaf = {a, b}
    Depth = 3
    MaxUint32 = 9
INVARIANTS
    RootIsReference
    ProofsVerify
    RootsNeverRepeat
CHECK_DEADLOCK FALSE
