------------------------- MODULE ModularArithmetic -------------------------
(***************************************************************************)
(* The field arithmetic of the circom compiler                             *)
(* (circom_algebra/src/modular_arithmetic.rs), over a small prime.  A      *)
(* literal of the compiler is a canonical element, 0..Field-1; every       *)
(* operator returns one again, or Undefined where the code answers         *)
(* DivisionByZero.                                                         *)
(***************************************************************************)
EXTENDS Integers, Sequences, Functions

CONSTANTS Field,   \* the prime
          Usize    \* the values of the machine's usize, 0..Usize-1

ASSUME FieldIsPrime ==
    /\ Field \in Nat \ {0, 1, 2}
    /\ \A d \in 2..(Field - 1) : Field % d # 0

ASSUME UsizeAssumption == Usize \in Nat \ {0}

Elements == 0..(Field - 1)

\* The result of an operation that has none.
Undefined == -1

AddMod(x, y) == (x + y) % Field
SubMod(x, y) == (x - y) % Field
MulMod(x, y) == (x * y) % Field

\* mod_inverse: the only candidates are the elements.
Inverses(x) == {i \in Elements : MulMod(i, x) = 1}

DivMod(x, y) ==
    IF Inverses(y) = {} THEN Undefined ELSE MulMod(x, CHOOSE i \in Inverses(y) : TRUE)

IntDivMod(x, y) == IF y % Field = 0 THEN Undefined ELSE (x % Field) \div (y % Field)

ModMod(x, y) == IF y % Field = 0 THEN Undefined ELSE (x % Field) % (y % Field)

PowersMod(x) ==
    LET power[i \in Nat] == IF i = 0 THEN 1 ELSE MulMod(x, power[i - 1]) IN power

PowMod(x, n) == PowersMod(x)[n]

\* Every inverse from one division: prefix products forward, the inverse of
\* the whole product peeled off backward.  The last cell stays 0.
MultiInv(values) ==
    LET n == Len(values)
        partial[i \in 0..n] == IF i = 0 THEN 1 ELSE MulMod(partial[i - 1], values[i])
        inverse[i \in 0..n] == IF i = n THEN DivMod(1, partial[n])
                                        ELSE MulMod(inverse[i + 1], values[i + 1])
    IN [i \in 1..(n + 1) |-> IF i = n + 1 THEN 0 ELSE MulMod(partial[i - 1], inverse[i])]

---------------------------------------------------------------------------
(* Bit operations *)

Powers(x) ==
    LET power[i \in Nat] == IF i = 0 THEN 1 ELSE x * power[i - 1] IN power

Power(x, n) == Powers(x)[n]

NumBits == CHOOSE b \in 1..Field : Power(2, b - 1) <= Field /\ Field < Power(2, b)
Mask == Power(2, NumBits) - 1

\* A number as the set of the places of its ones, and back.
Bits(x) == {i \in 0..(NumBits - 1) : (x \div Power(2, i)) % 2 = 1}
OfBits(S) == SumFunction([i \in S |-> Power(2, i)])

\* Drop the bits above the field's, pad up to them, flip.
Complement(x) == (Mask - (x % Power(2, NumBits))) % Field

Top == Field \div 2

\* Wrong: the bits above the field's are not dropped.
unmaskedShift(x, k) == (x * Power(2, k)) % Field

\* The mask has all the bits below Power(2, NumBits).
ShiftLeftBy(x, k)  == ((x * Power(2, k)) % (Mask + 1)) % Field
ShiftRightBy(x, k) == x \div Power(2, k)

\* Wrong: a negative amount is looked at as it stands.
unsignedAmount(k) == k

\* A shift by more than half the field is the opposite shift, and its amount
\* must fit in a usize.
Amount(k) == IF k <= Top THEN k ELSE Field - k

ShiftL(x, k) ==
    IF Amount(k) >= Usize THEN Undefined
    ELSE IF k <= Top THEN ShiftLeftBy(x, Amount(k)) ELSE ShiftRightBy(x, Amount(k))
ShiftR(x, k) ==
    IF Amount(k) >= Usize THEN Undefined
    ELSE IF k <= Top THEN ShiftRightBy(x, Amount(k)) ELSE ShiftLeftBy(x, Amount(k))

BitOr(x, y)  == OfBits(Bits(x) \union Bits(y)) % Field
BitAnd(x, y) == OfBits(Bits(x) \intersect Bits(y)) % Field
BitXor(x, y) == OfBits((Bits(x) \union Bits(y)) \ (Bits(x) \intersect Bits(y))) % Field

---------------------------------------------------------------------------
(* Booleans and comparisons: the upper half of the field is negative *)

Val(x) == IF Field \div 2 + 1 <= x /\ x < Field THEN x - Field ELSE x
Comparable(x) == Val(x % Field)
Normalize(x) == IF Comparable(x) = 0 THEN 0 ELSE 1

BoolNot(x) == (Normalize(x) + 1) % 2
BoolAnd(x, y) == Normalize(x) * Normalize(y)
BoolOr(x, y) == (Normalize(x) + Normalize(y) + BoolAnd(x, y)) % 2

Equal(x, y)     == IF x % Field = y % Field THEN 1 ELSE 0
NotEqual(x, y)  == BoolNot(Equal(x, y))
Lesser(x, y)    == IF Comparable(x) < Comparable(y) THEN 1 ELSE 0
LesserEq(x, y)  == BoolOr(Lesser(x, y), Equal(x, y))
Greater(x, y)   == BoolNot(LesserEq(x, y))
GreaterEq(x, y) == BoolOr(Greater(x, y), Equal(x, y))
=============================================================================
