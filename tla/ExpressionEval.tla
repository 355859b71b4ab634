--------------------------- MODULE ExpressionEval ---------------------------
(***************************************************************************)
(* The symbolic evaluation of a circom expression and the constraint       *)
(* statement on its result (constraint_generation/src/execute.rs): an      *)
(* accumulator goes through operators with literals and signals, and is    *)
(* at last constrained to equal one.  Beside it runs its meaning, computed *)
(* from the operators' documented definitions at every assignment of the   *)
(* signals.                                                                *)
(***************************************************************************)
EXTENDS Algebra

CONSTANTS Signals,        \* the signals of the template
          Literals,       \* the numbers its source mentions
          MaxOperations   \* bound: operators in one expression

\* Key 0 of a map is the constant; build_number reduces the literals.
ASSUME SignalsAssumption == Signals \subseteq Nat \ {One}
ASSUME LiteralsAssumption == Literals \subseteq Elements

VARIABLES acc,            \* the expression evaluated so far
          meaning,        \* its value at each assignment, or Undefined
          outcome,        \* "evaluating", "failed", "panicked", "rejected" or
                          \* "constrained"
          emitted,        \* the constraint added to the node
          operations

vars == <<acc, meaning, outcome, emitted, operations>>

Assignments == [Signals -> Elements]
Operands == {Number(v) : v \in Literals} \union {Signal(s) : s \in Signals}

InfixOps == {"Mul", "Div", "Add", "Sub", "Pow", "IntDiv", "Mod", "ShiftL", "ShiftR",
             "LesserEq", "GreaterEq", "Lesser", "Greater", "Eq", "NotEq",
             "BoolOr", "BoolAnd", "BitOr", "BitAnd", "BitXor"}
Comparisons == {"LesserEq", "GreaterEq", "Lesser", "Greater", "Eq", "NotEq"}
PrefixOps == {"BoolNot", "Sub", "Complement"}

ExecuteInfix(op, l, r) ==
    CASE op = "Mul" -> Mul(l, r)
      [] op = "Div" -> Div(l, r)
      [] op = "Add" -> Add(l, r)
      [] op = "Sub" -> Sub(l, r)
      [] op = "Pow" -> Pow(l, r)
      [] op = "Mod" -> Mod(l, r)
      [] op \in Comparisons -> Compare(op, l, r)
      [] OTHER -> Compute(op, l, r)

ExecutePrefix(op, e) ==
    CASE op = "BoolNot" -> Not(e)
      [] op = "Sub" -> PrefixSub(e)
      [] op = "Complement" -> ComplementOf(e)

---------------------------------------------------------------------------
(* The meaning of the operators on field elements *)

Truth(b) == IF b THEN 1 ELSE 0
Signed(x) == IF x > Field \div 2 THEN x - Field ELSE x
\* A positive amount shifts left within the field's bits, a negative one right.
Shifted(x, k) ==
    IF k >= 0 THEN OfBits({i + k : i \in {j \in Bits(x) : j + k < NumBits}}) % Field
              ELSE x \div Power(2, -k)

\* Square-and-multiply halves the exponent (x^0 is 1, for 0 too).
PowerOf(x, y) == LET half == IF y < 2 THEN 1 ELSE Power(x, y \div 2) % Field
                 IN (half * half * (IF y % 2 = 1 THEN x ELSE 1)) % Field

MeaningOfInfix(op, x, y) ==
    CASE op = "Mul" -> (x * y) % Field
      [] op = "Div" -> IF y = 0 THEN Undefined ELSE CHOOSE q \in Elements : (q * y) % Field = x
      [] op = "Add" -> (x + y) % Field
      [] op = "Sub" -> (x - y) % Field
      [] op = "Pow" -> PowerOf(x, y)
      [] op = "IntDiv" -> IF y = 0 THEN Undefined ELSE x \div y
      [] op = "Mod" -> IF y = 0 THEN Undefined ELSE x % y
      [] op = "ShiftL" -> Shifted(x, Signed(y))
      [] op = "ShiftR" -> Shifted(x, -Signed(y))
      [] op = "LesserEq" -> Truth(Signed(x) <= Signed(y))
      [] op = "GreaterEq" -> Truth(Signed(x) >= Signed(y))
      [] op = "Lesser" -> Truth(Signed(x) < Signed(y))
      [] op = "Greater" -> Truth(Signed(x) > Signed(y))
      [] op = "Eq" -> Truth(x = y)
      [] op = "NotEq" -> Truth(x # y)
      [] op = "BoolOr" -> Truth(x # 0 \/ y # 0)
      [] op = "BoolAnd" -> Truth(x # 0 /\ y # 0)
      [] op = "BitOr" -> OfBits(Bits(x) \union Bits(y)) % Field
      [] op = "BitAnd" -> OfBits({i \in Bits(x) : i \in Bits(y)}) % Field
      [] op = "BitXor" -> OfBits({i \in 0..(NumBits - 1) : (i \in Bits(x)) # (i \in Bits(y))}) % Field

MeaningOfPrefix(op, x) ==
    CASE op = "BoolNot" -> Truth(x = 0)
      [] op = "Sub" -> (-x) % Field
      [] op = "Complement" -> OfBits((0..(NumBits - 1)) \ Bits(x)) % Field

Strict2(op, x, y) == IF Undefined \in {x, y} THEN Undefined ELSE MeaningOfInfix(op, x, y)
Strict1(op, x) == IF x = Undefined THEN Undefined ELSE MeaningOfPrefix(op, x)

---------------------------------------------------------------------------

Init == /\ acc \in Operands
        /\ meaning = [w \in Assignments |-> ValueOf(acc, w)]
        /\ outcome = "evaluating"
        /\ emitted = EmptyConstraint
        /\ operations = 0

\* Division by zero is reported and the execution of the template stops.
Record(e) ==
    /\ acc' = e
    /\ outcome' = CASE e = DivisionByZero -> "failed"
                    [] e = Panic -> "panicked"
                    [] OTHER -> "evaluating"
    /\ operations' = operations + 1
    /\ UNCHANGED emitted

InfixRight(op, e) ==
    /\ outcome = "evaluating" /\ operations < MaxOperations
    /\ Record(ExecuteInfix(op, acc, e))
    /\ meaning' = [w \in Assignments |-> Strict2(op, meaning[w], ValueOf(e, w))]

InfixLeft(op, e) ==
    /\ outcome = "evaluating" /\ operations < MaxOperations
    /\ Record(ExecuteInfix(op, e, acc))
    /\ meaning' = [w \in Assignments |-> Strict2(op, ValueOf(e, w), meaning[w])]

Prefix(op) ==
    /\ outcome = "evaluating" /\ operations < MaxOperations
    /\ Record(ExecutePrefix(op, acc))
    /\ meaning' = [w \in Assignments |-> Strict1(op, meaning[w])]

\* acc === e: refused when the difference is not quadratic.
ConstraintEquality(e) ==
    /\ outcome = "evaluating"
    /\ LET difference == Sub(acc, e)
       IN IF difference = NonQuadratic
          THEN outcome' = "rejected" /\ UNCHANGED <<meaning, emitted>>
          ELSE /\ outcome' = "constrained"
               /\ emitted' = ToConstraint(difference)
               /\ meaning' = [w \in Assignments |-> Strict2("Sub", meaning[w], ValueOf(e, w))]
    /\ UNCHANGED <<acc, operations>>

Next == \/ \E op \in InfixOps, e \in Operands : InfixRight(op, e) \/ InfixLeft(op, e)
        \/ \E op \in PrefixOps : Prefix(op)
        \/ \E e \in Operands : ConstraintEquality(e)

Spec == Init /\ [][Next]_vars

---------------------------------------------------------------------------

\* The symbolic result is the program's value: whatever sequence of operators
\* built it, an expression the compiler still knows takes, at every assignment
\* of the signals, the value the documented operators give there.
ExpressionMeans ==
    outcome = "evaluating" /\ acc # NonQuadratic =>
        \A w \in Assignments : ValueOf(acc, w) = meaning[w]

\* The constraint says what the statement says: it holds at exactly the
\* assignments at which the two sides of === are equal.
ConstraintMeans ==
    outcome = "constrained" =>
        \A w \in Assignments : Holds(emitted, w) <=> meaning[w] = 0

\* The documents give every shift by a field element a value; the code gives
\* up on the amounts, to the left or to the right, beyond a machine word.
ShiftsTooFar(op, amount) ==
    /\ op \in {"ShiftL", "ShiftR"} /\ amount.kind = "Number"
    /\ Signed(amount.value) \notin (1 - Usize)..(Usize - 1)

\* A step stops the evaluation (with a report for a division, without one for
\* a remainder) only when no assignment gives the new expression a value, or
\* when it is itself a shift too far: a value that the expression has is never
\* lost to an error, at whatever depth the operand that makes it was built.
StopsOnlyWhenUndefined ==
    [][outcome' \in {"failed", "panicked"} =>
          \/ \A w \in Assignments : meaning'[w] = Undefined
          \/ \E op \in InfixOps, e \in Operands :
                \/ InfixRight(op, e) /\ ShiftsTooFar(op, e)
                \/ InfixLeft(op, e) /\ ShiftsTooFar(op, acc)]_vars
=============================================================================
