\* The same circuits.  In one of them the second input of a component comes in
\* the then arm of one of two branches, whose else arms are empty.
CONSTANTS
    Main = 1
    Programs <- MCPrograms
SPECIFICATION Spec
INVARIANTS
    AssertionsHold
CHECK_DEADLOCK FALSE
