\* Expressions of up to two operators over two signals in the field of eleven
\* elements, whose four bits leave a gap that the shifts and the complement must
\* reduce; the literals lie on both sides of each boundary.  Shifts by 5 and by
\* -5 (6) exceed the machine word.
SPECIFICATION Spec
CONSTANTS
    Field = 11
    Usize = 5
    Signals = {1, 2}
    Literals = {0, 2, 5, 6, 10}
    MaxOperations = 2
INVARIANTS
    ExpressionMeans
    ConstraintMeans
PROPERTIES
    StopsOnlyWhenUndefined
CHECK_DEADLOCK FALSE
