CONSTANTS
    Main = 1
    Programs <- MCPrograms
SPECIFICATION FairSpec
INVARIANTS
    StatusesRight
    StartedComplete
    ReadsFinal
    MemoryHeld
    SlotsRepaid
PROPERTIES
    Completes
CHECK_DEADLOCK FALSE
