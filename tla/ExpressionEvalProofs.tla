------------------------ MODULE ExpressionEvalProofs ------------------------
(*****************************************************************************)
(* Proofs about ExpressionEval, for any prime field, any signals and any     *)
(* literals: what an expression folds to and what a constraint states mean   *)
(* what the source says (ExpressionMeans, ConstraintMeans), and only what    *)
(* has no value, or a shift too far, is refused (StopsOnlyWhenUndefined).    *)
(* Then about the elimination of a signal from constraints: it keeps their   *)
(* solutions.                                                                *)
(*****************************************************************************)
EXTENDS ExpressionEval, FieldProofs

-----------------------------------------------------------------------------
(* The operators that fold numbers *)

(* The upper half of the field is negative. *)
LEMMA ComparableIsSigned ==
    ASSUME NEW x \in Elements
    PROVE  /\ x \in Nat /\ x < Field
           /\ Comparable(x) = Signed(x) /\ Signed(x) \in Int
           /\ (Signed(x) = 0 <=> x = 0)
           /\ Normalize(x) = Truth(x # 0)
<1>1. x % Field = x /\ x \in Nat /\ x < Field /\ Field \in Nat
  BY Canonical, FieldFacts DEF Elements
<1>2. Comparable(x) = Signed(x) /\ Signed(x) \in Int /\ (Signed(x) = 0 <=> x = 0)
  <2>1. Field \div 2 + 1 <= x <=> x > Field \div 2
    BY <1>1
  <2> QED BY <1>1, <2>1 DEF Comparable, Val, Signed
<1> QED BY <1>1, <1>2 DEF Normalize, Truth

LEMMA SignedDiffer ==
    ASSUME NEW x \in Elements, NEW y \in Elements
    PROVE  Signed(x) = Signed(y) <=> x = y
BY FieldFacts DEF Signed, Elements

LEMMA BooleanValues ==
    ASSUME NEW x \in Elements, NEW y \in Elements
    PROVE  /\ BoolNot(x) = Truth(x = 0)
           /\ BoolAnd(x, y) = Truth(x # 0 /\ y # 0)
           /\ BoolOr(x, y) = Truth(x # 0 \/ y # 0)
<1>1. Normalize(x) = Truth(x # 0) /\ Normalize(y) = Truth(y # 0)
  BY ComparableIsSigned
<1> QED BY <1>1 DEF BoolNot, BoolAnd, BoolOr, Truth

LEMMA TruthElement == \A b \in BOOLEAN : Truth(b) \in Elements /\ (Truth(b) = 0 <=> ~b)
BY FieldFacts DEF Truth

(* The comparisons are composed from two, and mean what their names say. *)
LEMMA ComparisonMeans ==
    ASSUME NEW x \in Elements, NEW y \in Elements, NEW op \in Comparisons
    PROVE  /\ Comparison(op, x, y) = MeaningOfInfix(op, x, y)
           /\ MeaningOfInfix(op, x, y) \in Elements
<1>1. /\ Comparable(x) = Signed(x) /\ Signed(x) \in Int
      /\ Comparable(y) = Signed(y) /\ Signed(y) \in Int
  BY ComparableIsSigned
<1>2. Equal(x, y) = Truth(x = y)
  BY Canonical DEF Equal, Truth
<1>3. NotEqual(x, y) = Truth(x # y)
  <2>1. BoolNot(Truth(x = y)) = Truth(Truth(x = y) = 0)
    BY TruthElement, BooleanValues
  <2> QED BY <1>2, <2>1 DEF NotEqual, Truth
<1>4. Lesser(x, y) = Truth(Signed(x) < Signed(y))
  BY <1>1 DEF Lesser, Truth
<1>5. LesserEq(x, y) = Truth(Signed(x) <= Signed(y))
  <2>0. Lesser(x, y) \in Elements /\ Equal(x, y) \in Elements
    BY <1>2, <1>4, FieldFacts DEF Truth
  <2>1. LesserEq(x, y) = Truth(Lesser(x, y) # 0 \/ Equal(x, y) # 0)
    BY <2>0, BooleanValues, Zenon DEF LesserEq
  <2>2. (Lesser(x, y) # 0 <=> Signed(x) < Signed(y)) /\ (Equal(x, y) # 0 <=> x = y)
    BY <1>2, <1>4 DEF Truth
  <2> QED BY <1>1, <2>1, <2>2, SignedDiffer DEF Truth
<1>6. Greater(x, y) = Truth(Signed(x) > Signed(y))
  <2>0. LesserEq(x, y) \in Elements
    BY <1>5, FieldFacts DEF Truth
  <2>1. Greater(x, y) = Truth(LesserEq(x, y) = 0)
    BY <2>0, BooleanValues, Zenon DEF Greater
  <2>2. LesserEq(x, y) = 0 <=> ~(Signed(x) <= Signed(y))
    BY <1>5 DEF Truth
  <2> QED BY <1>1, <2>1, <2>2 DEF Truth
<1>7. GreaterEq(x, y) = Truth(Signed(x) >= Signed(y))
  <2>0. Greater(x, y) \in Elements /\ Equal(x, y) \in Elements
    BY <1>2, <1>6, FieldFacts DEF Truth
  <2>1. GreaterEq(x, y) = Truth(Greater(x, y) # 0 \/ Equal(x, y) # 0)
    BY <2>0, BooleanValues, Zenon DEF GreaterEq
  <2>2. (Greater(x, y) # 0 <=> Signed(x) > Signed(y)) /\ (Equal(x, y) # 0 <=> x = y)
    BY <1>2, <1>6 DEF Truth
  <2> QED BY <1>1, <2>1, <2>2, SignedDiffer DEF Truth
<1>9. CASE op = "LesserEq"
  <2>1. Comparison("LesserEq", x, y) = LesserEq(x, y) /\ MeaningOfInfix("LesserEq", x, y) = Truth(Signed(x) <= Signed(y))
    BY Zenon DEF Comparison, MeaningOfInfix
  <2> QED BY <1>5, <1>9, <2>1, FieldFacts DEF Truth
<1>10. CASE op = "GreaterEq"
  <2>1. Comparison("GreaterEq", x, y) = GreaterEq(x, y) /\ MeaningOfInfix("GreaterEq", x, y) = Truth(Signed(x) >= Signed(y))
    BY Zenon DEF Comparison, MeaningOfInfix
  <2> QED BY <1>7, <1>10, <2>1, FieldFacts DEF Truth
<1>11. CASE op = "Lesser"
  <2>1. Comparison("Lesser", x, y) = Lesser(x, y) /\ MeaningOfInfix("Lesser", x, y) = Truth(Signed(x) < Signed(y))
    BY Zenon DEF Comparison, MeaningOfInfix
  <2> QED BY <1>4, <1>11, <2>1, FieldFacts DEF Truth
<1>12. CASE op = "Greater"
  <2>1. Comparison("Greater", x, y) = Greater(x, y) /\ MeaningOfInfix("Greater", x, y) = Truth(Signed(x) > Signed(y))
    BY Zenon DEF Comparison, MeaningOfInfix
  <2> QED BY <1>6, <1>12, <2>1, FieldFacts DEF Truth
<1>13. CASE op = "Eq"
  <2>1. Comparison("Eq", x, y) = Equal(x, y) /\ MeaningOfInfix("Eq", x, y) = Truth(x = y)
    BY Zenon DEF Comparison, MeaningOfInfix
  <2> QED BY <1>2, <1>13, <2>1, FieldFacts DEF Truth
<1>14. CASE op = "NotEq"
  <2>1. Comparison("NotEq", x, y) = NotEqual(x, y) /\ MeaningOfInfix("NotEq", x, y) = Truth(x # y)
    BY Zenon DEF Comparison, MeaningOfInfix
  <2> QED BY <1>3, <1>14, <2>1, FieldFacts DEF Truth
<1> QED BY <1>9, <1>10, <1>11, <1>12, <1>13, <1>14 DEF Comparisons

Computations == {"IntDiv", "Mod", "ShiftL", "ShiftR", "BoolOr", "BoolAnd", "BitOr", "BitAnd", "BitXor"}

(* The amounts that fit in a machine word, as the shifts look at them. *)
FitsAWord(y) == Signed(y) \in (1 - Usize) .. (Usize - 1)

(* Shifts by more than half the field go the other way; only an amount without *)
(* a word is refused.                                                          *)
LEMMA ShiftMeans ==
    ASSUME NEW x \in Elements, NEW y \in Elements
    PROVE  /\ FitsAWord(y) => /\ ShiftL(x, y) = Shifted(x, Signed(y)) /\ ShiftL(x, y) \in Elements
                              /\ ShiftR(x, y) = Shifted(x, -Signed(y)) /\ ShiftR(x, y) \in Elements
           /\ ~FitsAWord(y) => ShiftL(x, y) = Undefined /\ ShiftR(x, y) = Undefined
<1>0. x \in Nat /\ y \in Nat /\ y < Field /\ Field \in Nat /\ x < Field /\ Top \in Nat
  BY FieldFacts DEF Elements, Top
<1>1. \A k \in Nat : ShiftLeftBy(x, k) = Shifted(x, k)
  BY ShiftLeftValue DEF Shifted
<1>2. \A k \in Nat : k # 0 => ShiftRightBy(x, k) = Shifted(x, -k)
  <2> SUFFICES ASSUME NEW k \in Nat, k # 0 PROVE ShiftRightBy(x, k) = Shifted(x, -k)
    OBVIOUS
  <2>1. ~(-k >= 0) /\ -(-k) = k
    OBVIOUS
  <2> QED BY <2>1 DEF ShiftRightBy, Shifted
<1>3. ShiftRightBy(x, 0) = Shifted(x, 0)
  <2>1. Shifted(x, 0) = ShiftLeftBy(x, 0)
    BY <1>1
  <2>2. ShiftLeftBy(x, 0) = ((x * 1) % two(NumBits)) % Field
    BY NumBitsFacts, TwoFacts DEF ShiftLeftBy, Mask, two
  <2>3. (x * 1) % two(NumBits) = x
    <3>1. x * 1 = x /\ two(NumBits) \in Nat /\ x < two(NumBits)
      BY <1>0, NumBitsFacts, TwoFacts
    <3> QED BY <1>0, <3>1
  <2>4. ShiftRightBy(x, 0) = x
    BY <1>0, TwoFacts DEF ShiftRightBy, two
  <2> QED BY <2>1, <2>2, <2>3, <2>4, Canonical
<1>4. \A k \in Nat : ShiftLeftBy(x, k) \in Elements
  <2> SUFFICES ASSUME NEW k \in Nat PROVE ShiftLeftBy(x, k) \in Elements
    OBVIOUS
  <2> DEFINE z == (x * Power(2, k)) % (Mask + 1)
  <2>1. z \in Int
    <3>1. Mask + 1 = two(NumBits) /\ two(NumBits) \in Nat /\ two(NumBits) > 0
      BY NumBitsFacts, TwoFacts DEF Mask, two
    <3>2. x * Power(2, k) \in Int
      BY <1>0, PowerType, ProductFacts
    <3> QED BY <3>1, <3>2
  <2> HIDE DEF z
  <2>2. z % Field \in Elements
    BY <2>1, Remainder
  <2> QED BY <2>2 DEF ShiftLeftBy, z
<1>5. \A k \in Nat : ShiftRightBy(x, k) \in Elements
  <2> SUFFICES ASSUME NEW k \in Nat PROVE ShiftRightBy(x, k) \in Elements
    OBVIOUS
  <2> DEFINE p == two(k)
             q == x \div p
             r == x % p
  <2>1. p \in Nat /\ p > 0
    BY TwoFacts
  <2>2. x = p * q + r /\ q \in Int /\ r \in 0 .. (p - 1)
    <3> HIDE DEF p
    <3> QED BY <1>0, <2>1, Division
  <2> HIDE DEF p, q, r
  <2>3. q >= 0 /\ q <= x
    BY <1>0, <2>1, <2>2
  <2>4. q \in Elements
    BY <1>0, <2>2, <2>3 DEF Elements
  <2> QED BY <2>4 DEF ShiftRightBy, q, p, two
<1>6. CASE y <= Top
  <2>1. Signed(y) = y /\ Amount(y) = y
    BY <1>0, <1>6 DEF Signed, Top, Amount
  <2>2. /\ ShiftL(x, y) = IF y >= Usize THEN Undefined ELSE ShiftLeftBy(x, y)
        /\ ShiftR(x, y) = IF y >= Usize THEN Undefined ELSE ShiftRightBy(x, y)
    BY <1>6, <2>1 DEF ShiftL, ShiftR
  <2>3. ShiftRightBy(x, y) = Shifted(x, -y)
    <3>1. CASE y = 0
      <4>1. y \in Int /\ y <= 0 /\ y >= 0
        BY <3>1
      <4>2. -y = 0
        BY ONLY <4>1
      <4> QED BY <1>3, <3>1, <4>2
    <3> QED BY <1>0, <1>2, <3>1
  <2>4. FitsAWord(y) <=> ~(y >= Usize)
    BY <1>0, <2>1, UsizeAssumption DEF FitsAWord
  <2>6. ShiftLeftBy(x, y) = Shifted(x, y) /\ ShiftLeftBy(x, y) \in Elements /\ ShiftRightBy(x, y) \in Elements
    BY <1>0, <1>1, <1>4, <1>5
  <2> QED BY <2>1, <2>2, <2>3, <2>4, <2>6, Zenon
<1>7. CASE ~(y <= Top)
  <2> DEFINE k == Field - y
  <2>1. Signed(y) = -k /\ -Signed(y) = k /\ k \in Nat /\ k # 0 /\ Amount(y) = k
    BY <1>0, <1>7 DEF Signed, Top, Amount
  <2> HIDE DEF k
  <2>2. /\ ShiftL(x, y) = IF k >= Usize THEN Undefined ELSE ShiftRightBy(x, k)
        /\ ShiftR(x, y) = IF k >= Usize THEN Undefined ELSE ShiftLeftBy(x, k)
    BY <1>7, <2>1 DEF ShiftL, ShiftR
  <2>4. FitsAWord(y) <=> ~(k >= Usize)
    BY <2>1, UsizeAssumption DEF FitsAWord
  <2>6. /\ ShiftLeftBy(x, k) = Shifted(x, k) /\ ShiftRightBy(x, k) = Shifted(x, -k)
        /\ ShiftLeftBy(x, k) \in Elements /\ ShiftRightBy(x, k) \in Elements
    BY <1>1, <1>2, <1>4, <1>5, <2>1
  <2> QED BY <2>1, <2>2, <2>4, <2>6, Zenon
<1> QED BY <1>6, <1>7

LEMMA OfBitsElement ==
    ASSUME NEW S \in SUBSET (0 .. (NumBits - 1))
    PROVE  OfBits(S) % Field \in Elements
<1>1. IsFiniteSet(0 .. (NumBits - 1)) /\ 0 .. (NumBits - 1) \subseteq Nat
  BY NumBitsFacts, FS_Interval
<1>2. IsFiniteSet(S) /\ S \in SUBSET Nat
  BY <1>1, FS_Subset
<1> QED BY <1>2, OfBitsSum, Remainder

(* The bit operations, as operations on the sets of ones. *)
LEMMA BitwiseMeans ==
    ASSUME NEW x \in Elements, NEW y \in Elements, NEW op \in {"BitOr", "BitAnd", "BitXor"}
    PROVE  /\ Computation(op, x, y) = MeaningOfInfix(op, x, y)
           /\ Computation(op, x, y) \in Elements
<1> DEFINE a == Bits(x)
           b == Bits(y)
<1>1. a \in SUBSET (0 .. (NumBits - 1)) /\ b \in SUBSET (0 .. (NumBits - 1))
  BY BitsFinite
<1> HIDE DEF a, b
<1>2. {i \in a : i \in b} = a \intersect b
  OBVIOUS
<1>3. {i \in 0 .. (NumBits - 1) : (i \in a) # (i \in b)} = (a \union b) \ (a \intersect b)
  <2> DEFINE all == 0 .. (NumBits - 1)
             both == (a \union b) \ (a \intersect b)
  <2>1. a \subseteq all /\ b \subseteq all
    BY <1>1
  <2> HIDE DEF all
  <2>2. ASSUME NEW i PROVE i \in {j \in all : (j \in a) # (j \in b)} <=> i \in both
    <3>1. CASE i \in a /\ i \in b
      BY <3>1
    <3>2. CASE i \in a /\ i \notin b
      BY <2>1, <3>2
    <3>3. CASE i \notin a /\ i \in b
      BY <2>1, <3>3
    <3>4. CASE i \notin a /\ i \notin b
      BY <3>4
    <3> QED BY <3>1, <3>2, <3>3, <3>4
  <2>3. {j \in all : (j \in a) # (j \in b)} = both
    BY <2>2, Zenon
  <2> QED BY <2>3, Zenon DEF all
<1>4. /\ OfBits(a \union b) % Field \in Elements
      /\ OfBits(a \intersect b) % Field \in Elements
      /\ OfBits((a \union b) \ (a \intersect b)) % Field \in Elements
  <2>1. /\ a \union b \in SUBSET (0 .. (NumBits - 1))
        /\ a \intersect b \in SUBSET (0 .. (NumBits - 1))
        /\ (a \union b) \ (a \intersect b) \in SUBSET (0 .. (NumBits - 1))
    BY <1>1
  <2> QED BY <2>1, OfBitsElement
<1>5. CASE op = "BitOr"
  <2>1. Computation("BitOr", x, y) = OfBits(a \union b) % Field
    BY Zenon DEF Computation, BitOr, a, b
  <2>2. MeaningOfInfix("BitOr", x, y) = OfBits(a \union b) % Field
    BY Zenon DEF MeaningOfInfix, a, b
  <2> QED BY <1>4, <1>5, <2>1, <2>2, Zenon
<1>6. CASE op = "BitAnd"
  <2>1. Computation("BitAnd", x, y) = OfBits(a \intersect b) % Field
    BY Zenon DEF Computation, BitAnd, a, b
  <2>2. MeaningOfInfix("BitAnd", x, y) = OfBits({i \in a : i \in b}) % Field
    BY Zenon DEF MeaningOfInfix, a, b
  <2> QED BY <1>2, <1>4, <1>6, <2>1, <2>2, Zenon
<1>7. CASE op = "BitXor"
  <2>1. Computation("BitXor", x, y) = OfBits((a \union b) \ (a \intersect b)) % Field
    BY Zenon DEF Computation, BitXor, a, b
  <2>2. MeaningOfInfix("BitXor", x, y) = OfBits({i \in 0 .. (NumBits - 1) : (i \in a) # (i \in b)}) % Field
    BY Zenon DEF MeaningOfInfix, a, b
  <2> QED BY <1>3, <1>4, <1>7, <2>1, <2>2, Zenon
<1> QED BY <1>5, <1>6, <1>7

LEMMA DivisionElements ==
    ASSUME NEW x \in Elements, NEW y \in Elements, y # 0
    PROVE  x \div y \in Elements /\ x % y \in Elements
<1> DEFINE q == x \div y
           r == x % y
<1>1. x \in Nat /\ y \in Nat /\ y > 0 /\ x < Field /\ y < Field /\ Field \in Nat
  BY FieldFacts DEF Elements
<1>2. x = y * q + r /\ q \in Int /\ r \in 0 .. (y - 1)
  BY <1>1, Division
<1> HIDE DEF q, r
<1>3. q >= 0 /\ q <= x
  BY <1>1, <1>2
<1>4. q \in Elements /\ r \in Elements
  BY <1>1, <1>2, <1>3 DEF Elements
<1> QED BY <1>4 DEF q, r

(* What two numbers fold to is the value of the operator, except that a shift *)
(* too far has no result.                                                     *)
LEMMA ComputationMeans ==
    ASSUME NEW x \in Elements, NEW y \in Elements, NEW op \in Computations
    PROVE  /\ ShiftsTooFar(op, Number(y)) => Computation(op, x, y) = Undefined
           /\ ~ShiftsTooFar(op, Number(y)) =>
                /\ Computation(op, x, y) = MeaningOfInfix(op, x, y)
                /\ \/ Computation(op, x, y) \in Elements
                   \/ Computation(op, x, y) = Undefined
<1>1. x % Field = x /\ y % Field = y
  BY Canonical
<1>0. ShiftsTooFar(op, Number(y)) <=> op \in {"ShiftL", "ShiftR"} /\ ~FitsAWord(y)
  BY DEF ShiftsTooFar, FitsAWord, Number
<1>2. CASE op = "IntDiv"
  <2>1. /\ Computation("IntDiv", x, y) = IntDivMod(x, y)
        /\ MeaningOfInfix("IntDiv", x, y) = IF y = 0 THEN Undefined ELSE x \div y
    BY Zenon DEF Computation, MeaningOfInfix
  <2>2. IntDivMod(x, y) = IF y = 0 THEN Undefined ELSE x \div y
    BY <1>1 DEF IntDivMod
  <2> QED BY <1>0, <1>2, <2>1, <2>2, DivisionElements
<1>3. CASE op = "Mod"
  <2>1. /\ Computation("Mod", x, y) = ModMod(x, y)
        /\ MeaningOfInfix("Mod", x, y) = IF y = 0 THEN Undefined ELSE x % y
    BY Zenon DEF Computation, MeaningOfInfix
  <2>2. ModMod(x, y) = IF y = 0 THEN Undefined ELSE x % y
    BY <1>1 DEF ModMod
  <2> QED BY <1>0, <1>3, <2>1, <2>2, DivisionElements
<1>4. CASE op = "ShiftL"
  <2>1. Computation("ShiftL", x, y) = ShiftL(x, y) /\ MeaningOfInfix("ShiftL", x, y) = Shifted(x, Signed(y))
    BY Zenon DEF Computation, MeaningOfInfix
  <2> QED BY <1>0, <1>4, <2>1, ShiftMeans
<1>5. CASE op = "ShiftR"
  <2>1. Computation("ShiftR", x, y) = ShiftR(x, y) /\ MeaningOfInfix("ShiftR", x, y) = Shifted(x, -Signed(y))
    BY Zenon DEF Computation, MeaningOfInfix
  <2> QED BY <1>0, <1>5, <2>1, ShiftMeans
<1>6. CASE op = "BoolOr"
  <2>1. Computation("BoolOr", x, y) = BoolOr(x, y)
    BY Zenon DEF Computation
  <2>2. MeaningOfInfix("BoolOr", x, y) = Truth(x # 0 \/ y # 0)
    BY Zenon DEF MeaningOfInfix
  <2>3. BoolOr(x, y) = Truth(x # 0 \/ y # 0)
    BY BooleanValues
  <2>4. BoolOr(x, y) \in Elements
    BY <2>3, FieldFacts DEF Truth
  <2> QED BY <1>0, <1>6, <2>1, <2>2, <2>3, <2>4
<1>7. CASE op = "BoolAnd"
  <2>1. Computation("BoolAnd", x, y) = BoolAnd(x, y)
    BY Zenon DEF Computation
  <2>2. MeaningOfInfix("BoolAnd", x, y) = Truth(x # 0 /\ y # 0)
    BY Zenon DEF MeaningOfInfix
  <2>3. BoolAnd(x, y) = Truth(x # 0 /\ y # 0)
    BY BooleanValues
  <2>4. BoolAnd(x, y) \in Elements
    BY <2>3, FieldFacts DEF Truth
  <2> QED BY <1>0, <1>7, <2>1, <2>2, <2>3, <2>4
<1>8. CASE op \in {"BitOr", "BitAnd", "BitXor"}
  BY <1>0, <1>8, BitwiseMeans
<1> QED BY <1>2, <1>3, <1>4, <1>5, <1>6, <1>7, <1>8 DEF Computations

(* Repeated multiplication is square-and-multiply. *)
LEMMA PowMeans ==
    ASSUME NEW x \in Elements, NEW y \in Elements
    PROVE  PowMod(x, y) = PowerOf(x, y) /\ PowMod(x, y) \in Elements
<1>1. y \in Nat /\ x \in Int
  BY FieldFacts DEF Elements
<1> DEFINE half == IF y < 2 THEN 1 ELSE Power(x, y \div 2) % Field
<1>2. half = Power(x, y \div 2) % Field /\ half \in Int
  <2>1. CASE y < 2
    <3>1. y \div 2 = 0
      BY <1>1, <2>1
    <3>2. Power(x, 0) % Field = 1
      BY PowerValues, Canonical, FieldFacts
    <3> QED BY <2>1, <3>1, <3>2
  <2>2. CASE ~(y < 2)
    <3>1. y \div 2 \in Nat
      BY <1>1
    <3>2. Power(x, y \div 2) \in Int
      BY <1>1, <3>1, PowerType
    <3> QED BY <2>2, <3>2, Remainder, FieldFacts
  <2> QED BY <2>1, <2>2
<1>3. PowerOf(x, y) = (half * half * (IF y % 2 = 1 THEN x ELSE 1)) % Field
  BY DEF PowerOf
<1> HIDE DEF half
<1>4. PowMod(x, y) = PowerOf(x, y)
  BY <1>1, <1>2, <1>3, SquareAndMultiply
<1>5. PowMod(x, y) = Power(x, y) % Field /\ Power(x, y) \in Int
  BY <1>1, PowModValue, PowerType
<1> QED BY <1>4, <1>5, Remainder

-----------------------------------------------------------------------------
(* Maps of coefficients *)

Keys == {One} \union Signals

weight(k, w) == IF k = One THEN 1 ELSE w[k]

IsMap(m) == /\ DOMAIN m \in SUBSET Keys /\ IsFiniteSet(DOMAIN m)
            /\ m \in [DOMAIN m -> Elements]

(* The terms of a map over a set of keys that may be larger than its own. *)
terms(m, w, K) == [k \in K |-> Coefficient(m, k) * weight(k, w)]

LEMMA WeightType ==
    ASSUME NEW w \in Assignments, NEW k \in Keys
    PROVE  weight(k, w) \in Int
BY FieldFacts DEF weight, Keys, Assignments

LEMMA CoefficientType ==
    ASSUME NEW m, IsMap(m), NEW k
    PROVE  Coefficient(m, k) \in Elements /\ Coefficient(m, k) \in Int
BY FieldFacts DEF IsMap, Coefficient

LEMMA TermsType ==
    ASSUME NEW m, IsMap(m), NEW w \in Assignments, NEW K \in SUBSET Keys
    PROVE  \A k \in K : terms(m, w, K)[k] \in Int
<1> SUFFICES ASSUME NEW k \in K PROVE Coefficient(m, k) * weight(k, w) \in Int
  BY DEF terms
<1>1. Coefficient(m, k) \in Int /\ weight(k, w) \in Int
  BY CoefficientType, WeightType
<1> QED BY <1>1, ProductFacts

(* The value of a map may be summed over any finite set of keys that holds its own. *)
LEMMA SumOverKeys ==
    ASSUME NEW m, IsMap(m), NEW w \in Assignments,
           NEW K \in SUBSET Keys, IsFiniteSet(K), DOMAIN m \subseteq K
    PROVE  SumOver(m, w) = SumOn(terms(m, w, K), K) % Field
<1> DEFINE D == DOMAIN m
           f == terms(m, w, K)
           g == [k \in D |-> m[k] * (IF k = One THEN 1 ELSE w[k])]
<1>1. SumOver(m, w) = SumOn(g, D) % Field
  BY DEF SumOver, SumFunction, SumOn
<1>2. IsFiniteSet(D) /\ D \in SUBSET K
  BY DEF IsMap
<1>3. \A k \in K : f[k] \in Int
  BY TermsType
<1>4. \A k \in D : f[k] \in Int /\ g[k] = f[k]
  BY <1>2, <1>3 DEF terms, Coefficient, weight
<1>5. \A k \in K \ D : f[k] = 0
  <2> SUFFICES ASSUME NEW k \in K \ D PROVE 0 * weight(k, w) = 0
    BY DEF terms, Coefficient
  <2>1. weight(k, w) \in Int
    BY WeightType
  <2> QED BY <2>1
<1> HIDE DEF f, g, D
<1>6. SumOn(g, D) = SumOn(f, D)
  BY <1>2, <1>4, SumSame
<1>7. SumOn(f, K) = SumOn(f, D)
  BY <1>2, <1>3, <1>5, SumSupport
<1> QED BY <1>1, <1>6, <1>7 DEF f

LEMMA SumOverElement ==
    ASSUME NEW m, IsMap(m), NEW w \in Assignments
    PROVE  SumOver(m, w) \in Elements
<1> DEFINE D == DOMAIN m
           f == terms(m, w, D)
<1>1. D \in SUBSET Keys /\ IsFiniteSet(D) /\ DOMAIN m \subseteq D
  BY DEF IsMap
<1> HIDE DEF D
<1>2. SumOver(m, w) = SumOn(f, D) % Field
  BY <1>1, SumOverKeys
<1>3. \A k \in D : f[k] \in Int
  BY <1>1, TermsType
<1> HIDE DEF f
<1>4. SumOn(f, D) \in Int
  BY <1>1, <1>3, SumType
<1> QED BY <1>2, <1>4, Remainder

(* What the operations on maps do to the value. *)
LEMMA InitializeSum ==
    ASSUME NEW m, IsMap(m)
    PROVE  /\ IsMap(Initialize(m)) /\ One \in DOMAIN Initialize(m)
           /\ \A w \in Assignments : SumOver(Initialize(m), w) = SumOver(m, w)
<1> DEFINE K == DOMAIN m \union {One}
           n == Initialize(m)
<1>1. K \in SUBSET Keys /\ DOMAIN m \in SUBSET K /\ One \in K
  BY DEF IsMap, Keys
<1>2. IsFiniteSet(K)
  BY FS_AddElement DEF IsMap
<1>3. DOMAIN n = K /\ \A k \in K : n[k] = Coefficient(m, k)
  BY DEF Initialize
<1>4. n = [k \in K |-> Coefficient(m, k)]
  BY DEF Initialize
<1> HIDE DEF K, n
<1>5. IsMap(n)
  <2>1. \A k \in K : Coefficient(m, k) \in Elements
    BY CoefficientType
  <2> QED BY <1>1, <1>2, <1>3, <1>4, <2>1 DEF IsMap
<1>6. ASSUME NEW w \in Assignments PROVE SumOver(n, w) = SumOver(m, w)
  <2>1. SumOver(n, w) = SumOn(terms(n, w, K), K) % Field
    BY <1>1, <1>2, <1>3, <1>5, SumOverKeys
  <2>2. SumOver(m, w) = SumOn(terms(m, w, K), K) % Field
    BY <1>1, <1>2, SumOverKeys
  <2>3. terms(n, w, K) = terms(m, w, K)
    BY <1>3 DEF terms, Coefficient
  <2> QED BY <2>1, <2>2, <2>3
<1> QED BY <1>1, <1>3, <1>5, <1>6 DEF n

LEMMA AddMapsSum ==
    ASSUME NEW m, IsMap(m), NEW n, IsMap(n)
    PROVE  /\ IsMap(AddMaps(m, n))
           /\ \A w \in Assignments :
                SumOver(AddMaps(m, n), w) = AddMod(SumOver(m, w), SumOver(n, w))
<1> DEFINE K == DOMAIN m \union DOMAIN n
           s == AddMaps(m, n)
<1>1. K \in SUBSET Keys /\ DOMAIN m \in SUBSET K /\ DOMAIN n \in SUBSET K
  BY DEF IsMap
<1>2. IsFiniteSet(K)
  BY FS_Union DEF IsMap
<1>3. s = [k \in K |-> AddMod(Coefficient(m, k), Coefficient(n, k))]
  BY DEF AddMaps
<1> HIDE DEF K, s
<1>4. \A k \in K : AddMod(Coefficient(m, k), Coefficient(n, k)) \in Elements
  BY CoefficientType, Closed
<1>5. IsMap(s) /\ DOMAIN s = K
  BY <1>1, <1>2, <1>3, <1>4 DEF IsMap
<1>6. ASSUME NEW w \in Assignments PROVE SumOver(s, w) = AddMod(SumOver(m, w), SumOver(n, w))
  <2> DEFINE f == terms(m, w, K)
             g == terms(n, w, K)
             h == terms(s, w, K)
             both == [k \in K |-> f[k] + g[k]]
  <2>1. /\ SumOver(s, w) = SumOn(h, K) % Field
        /\ SumOver(m, w) = SumOn(f, K) % Field
        /\ SumOver(n, w) = SumOn(g, K) % Field
    <3>1. DOMAIN s \subseteq K /\ DOMAIN m \subseteq K /\ DOMAIN n \subseteq K
      BY <1>1, <1>5
    <3> QED BY <1>1, <1>2, <1>5, <3>1, SumOverKeys
  <2>2. \A k \in K : f[k] \in Int /\ g[k] \in Int /\ h[k] \in Int
    BY <1>1, <1>5, TermsType
  <2>3. ASSUME NEW k \in K PROVE h[k] % Field = both[k] % Field
    <3> DEFINE a == Coefficient(m, k)
               b == Coefficient(n, k)
               v == weight(k, w)
    <3>1. a \in Int /\ b \in Int /\ v \in Int
      BY <1>1, CoefficientType, WeightType
    <3>2. h[k] = AddMod(a, b) * v /\ both[k] = a * v + b * v
      BY <1>3, <1>5 DEF terms, Coefficient
    <3> HIDE DEF a, b, v, h, both
    <3>3. MulMod(AddMod(a, b), v) = AddMod(MulMod(a, v), MulMod(b, v))
      BY <3>1, DistributeMod
    <3>4. AddMod(MulMod(a, v), MulMod(b, v)) = (a * v + b * v) % Field
      <4> DEFINE x == a * v
                 y == b * v
      <4>1. x \in Int /\ y \in Int /\ MulMod(a, v) = x % Field /\ MulMod(b, v) = y % Field
        BY <3>1, ProductFacts DEF MulMod
      <4> HIDE DEF x, y
      <4>2. AddMod(x % Field, y % Field) = AddMod(x, y)
        BY <4>1, Remainder, FieldFacts, ReduceFirst
      <4> QED BY <4>1, <4>2 DEF AddMod, x, y
    <3> QED BY <3>2, <3>3, <3>4 DEF MulMod
  <2>4. \A k \in K : both[k] = f[k] + g[k]
    OBVIOUS
  <2> HIDE DEF f, g, h, both
  <2>5. SumOn(both, K) = SumOn(f, K) + SumOn(g, K)
    BY <1>2, <2>2, <2>4, SumPlus
  <2>6. SumOn(h, K) % Field = SumOn(both, K) % Field
    BY <1>2, <2>2, <2>3, <2>4, SumMod
  <2>7. SumOn(f, K) \in Int /\ SumOn(g, K) \in Int
    BY <1>2, <2>2, SumType
  <2> DEFINE x == SumOn(f, K)
             y == SumOn(g, K)
  <2>8. x \in Int /\ y \in Int /\ SumOver(s, w) = (x + y) % Field
        /\ SumOver(m, w) = x % Field /\ SumOver(n, w) = y % Field
    BY <2>1, <2>5, <2>6, <2>7
  <2> HIDE DEF x, y
  <2>9. AddMod(x % Field, y % Field) = AddMod(x, y)
    BY <2>8, Remainder, FieldFacts, ReduceFirst
  <2> QED BY <2>8, <2>9 DEF AddMod
<1> QED BY <1>5, <1>6 DEF s

LEMMA ScaleSum ==
    ASSUME NEW m, IsMap(m), NEW v \in Int
    PROVE  /\ IsMap(Scale(m, v)) /\ DOMAIN Scale(m, v) = DOMAIN m
           /\ \A w \in Assignments : SumOver(Scale(m, v), w) = MulMod(v, SumOver(m, w))
<1> DEFINE K == DOMAIN m
           s == Scale(m, v)
<1>1. K \in SUBSET Keys /\ IsFiniteSet(K) /\ \A k \in K : m[k] \in Elements /\ m[k] \in Int
  BY FieldFacts DEF IsMap
<1>2. s = [k \in K |-> MulMod(m[k], v)]
  BY DEF Scale
<1>3. \A k \in K : MulMod(m[k], v) \in Elements
  BY <1>1, Closed
<1>4. DOMAIN m = K
  OBVIOUS
<1> HIDE DEF K, s
<1>5. IsMap(s) /\ DOMAIN s = K
  BY <1>1, <1>2, <1>3 DEF IsMap
<1>6. ASSUME NEW w \in Assignments PROVE SumOver(s, w) = MulMod(v, SumOver(m, w))
  <2> DEFINE f == terms(m, w, K)
             h == terms(s, w, K)
             both == [k \in K |-> v * f[k]]
  <2>1. SumOver(s, w) = SumOn(h, K) % Field /\ SumOver(m, w) = SumOn(f, K) % Field
    <3>1. DOMAIN s \subseteq K /\ DOMAIN m \subseteq K
      BY <1>4, <1>5
    <3> QED BY <1>1, <1>5, <3>1, SumOverKeys
  <2>2. \A k \in K : f[k] \in Int /\ h[k] \in Int
    BY <1>1, <1>5, TermsType
  <2>3. \A k \in K : both[k] = v * f[k] /\ both[k] \in Int
    <3> HIDE DEF f
    <3> QED BY <2>2, ProductFacts
  <2>4. ASSUME NEW k \in K PROVE h[k] % Field = both[k] % Field
    <3> DEFINE a == m[k]
               u == weight(k, w)
    <3>1. a \in Int /\ u \in Int
      BY <1>1, WeightType
    <3>2. h[k] = MulMod(a, v) * u /\ both[k] = v * (a * u)
      BY <1>2, <1>4, <1>5 DEF terms, Coefficient
    <3> HIDE DEF a, u, h, both
    <3>3. MulMod(MulMod(a, v), u) = (a * v * u) % Field
      BY <3>1, Associate
    <3>4. a * v * u = v * (a * u)
      <4>1. a * v = v * a
        BY <3>1, ProductFacts
      <4>2. (v * a) * u = v * (a * u)
        BY <3>1, ProductFacts
      <4> QED BY <4>1, <4>2
    <3> QED BY <3>2, <3>3, <3>4 DEF MulMod
  <2> HIDE DEF f, h, both
  <2>5. SumOn(both, K) = v * SumOn(f, K)
    BY <1>1, <2>2, <2>3, SumTimes
  <2>6. SumOn(h, K) % Field = SumOn(both, K) % Field
    BY <1>1, <2>2, <2>3, <2>4, SumMod
  <2>7. SumOn(f, K) \in Int
    BY <1>1, <2>2, SumType
  <2> DEFINE x == SumOn(f, K)
  <2>8. x \in Int /\ SumOver(s, w) = (v * x) % Field /\ SumOver(m, w) = x % Field
    BY <2>1, <2>5, <2>6, <2>7
  <2> HIDE DEF x
  <2>9. MulMod(v, x % Field) = MulMod(v, x)
    BY <2>8, ReduceFirst
  <2> QED BY <2>8, <2>9 DEF MulMod
<1> QED BY <1>4, <1>5, <1>6 DEF s

(* One key: the number itself, or the value of the signal. *)
LEMMA OneKeySum ==
    ASSUME NEW k \in Keys, NEW v \in Elements
    PROVE  /\ IsMap(OneKey(k, v))
           /\ \A w \in Assignments : SumOver(OneKey(k, v), w) = MulMod(v, weight(k, w))
<1> DEFINE m == OneKey(k, v)
           K == {k}
<1>1. m = [i \in K |-> v] /\ K \in SUBSET Keys /\ IsFiniteSet(K)
  BY FS_Singleton DEF OneKey
<1>2. IsMap(m) /\ DOMAIN m = K
  BY <1>1 DEF IsMap
<1> HIDE DEF m
<1>3. ASSUME NEW w \in Assignments PROVE SumOver(m, w) = MulMod(v, weight(k, w))
  <2> DEFINE f == terms(m, w, K)
  <2>1. SumOver(m, w) = SumOn(f, K) % Field
    BY <1>1, <1>2, SumOverKeys
  <2>2. \A i \in K : f[i] \in Int
    BY <1>1, <1>2, TermsType
  <2>3. f[k] = v * weight(k, w)
    BY <1>1, <1>2 DEF terms, Coefficient
  <2> HIDE DEF f
  <2>4. SumOn(f, {} \union {k}) = f[k] + SumOn(f, {})
    <3>1. IsFiniteSet({}) /\ k \notin {} /\ \A i \in {} \union {k} : f[i] \in Int
      BY <2>2, FS_EmptySet
    <3> QED BY <3>1, SumWith
  <2>5. SumOn(f, K) = f[k]
    <3>1. {} \union {k} = K
      OBVIOUS
    <3>2. SumOn(f, {}) = 0
      BY SumOfNone
    <3> QED BY <2>2, <2>4, <3>1, <3>2
  <2> QED BY <2>1, <2>3, <2>5 DEF MulMod
<1> QED BY <1>2, <1>3 DEF m

LEMMA NumberSum ==
    ASSUME NEW v \in Elements, NEW w \in Assignments
    PROVE  SumOver(OneKey(One, v), w) = v
<1>1. weight(One, w) = 1 /\ One \in Keys
  BY DEF weight, Keys
<1>2. MulMod(v, 1) = v
  BY Units, Canonical, FieldFacts
<1> QED BY <1>1, <1>2, OneKeySum

LEMMA SignalSum ==
    ASSUME NEW s \in Signals
    PROVE  /\ IsMap(Initialize(OneKey(s, 1)))
           /\ \A w \in Assignments : SumOver(Initialize(OneKey(s, 1)), w) = w[s]
<1>1. s \in Keys /\ s # One /\ 1 \in Elements
  BY SignalsAssumption, FieldFacts DEF Keys, One
<1>2. IsMap(OneKey(s, 1)) /\ \A w \in Assignments : SumOver(OneKey(s, 1), w) = MulMod(1, weight(s, w))
  BY <1>1, OneKeySum
<1>3. ASSUME NEW w \in Assignments PROVE MulMod(1, weight(s, w)) = w[s]
  <2>1. weight(s, w) = w[s] /\ w[s] \in Elements
    BY <1>1 DEF weight, Assignments
  <2> QED BY <2>1, Units, Canonical, FieldFacts
<1> QED BY <1>2, <1>3, InitializeSum

LEMMA NoKeysSum ==
    /\ IsMap(Initialize(NoKeys))
    /\ \A w \in Assignments : SumOver(Initialize(NoKeys), w) = 0
<1>1. DOMAIN NoKeys = {}
  BY DEF NoKeys
<1>2. Initialize(NoKeys) = OneKey(One, 0)
  BY <1>1 DEF Initialize, OneKey, Coefficient
<1>3. 0 \in Elements /\ One \in Keys
  BY FieldFacts DEF Keys
<1> QED BY <1>2, <1>3, OneKeySum, NumberSum

-----------------------------------------------------------------------------
(* Expressions *)

Numbers   == {Number(v) : v \in Elements}
Names     == {Signal(s) : s \in Signals}
IsLine(e) == \E m : IsMap(m) /\ e = Linear(m)
IsSquare(e) == \E a, b, c : IsMap(a) /\ IsMap(b) /\ IsMap(c) /\ e = Quadratic(a, b, c)

(* The expressions the compiler still knows. *)
IsKnown(e) == e \in Numbers \/ e \in Names \/ IsLine(e) \/ IsSquare(e)

(* An expression whose value is given, unless it is no longer known. *)
Means(e, value) ==
    e = NonQuadratic \/ (IsKnown(e) /\ \A w \in Assignments : ValueOf(e, w) = value[w])

(* The four forms: which kind, which map, which value. *)
LEMMA NumberShape ==
    ASSUME NEW e \in Numbers
    PROVE  /\ e.kind = "Number" /\ e.value \in Elements /\ e.value \in Int /\ e = Number(e.value)
           /\ IsAffine(e) /\ IsMap(MapOf(e)) /\ MapOf(e) = OneKey(One, e.value)
           /\ \A w \in Assignments : ValueOf(e, w) = e.value
<1>1. e.kind = "Number" /\ e.value \in Elements /\ e = Number(e.value) /\ e.kind # "Quadratic"
  BY DEF Numbers, Number
<1>2. MapOf(e) = OneKey(One, e.value)
  BY <1>1, Zenon DEF MapOf
<1>3. \A w \in Assignments : ValueOf(e, w) = SumOver(MapOf(e), w)
  BY <1>1 DEF ValueOf
<1>4. One \in Keys
  BY DEF Keys
<1> QED BY <1>1, <1>2, <1>3, <1>4, NumberSum, OneKeySum, FieldFacts DEF IsAffine

LEMMA NameShape ==
    ASSUME NEW e \in Names
    PROVE  /\ e.kind = "Signal" /\ e.symbol \in Signals
           /\ IsAffine(e) /\ IsMap(MapOf(e)) /\ MapOf(e) = Initialize(OneKey(e.symbol, 1))
           /\ \A w \in Assignments : ValueOf(e, w) = SumOver(MapOf(e), w)
<1>1. e.kind = "Signal" /\ e.symbol \in Signals /\ e.kind # "Quadratic"
  BY DEF Names, Signal
<1>2. MapOf(e) = Initialize(OneKey(e.symbol, 1))
  BY <1>1, Zenon DEF MapOf
<1>3. \A w \in Assignments : ValueOf(e, w) = SumOver(MapOf(e), w)
  BY <1>1 DEF ValueOf
<1> QED BY <1>1, <1>2, <1>3, SignalSum DEF IsAffine

LEMMA LineShape ==
    ASSUME NEW e, IsLine(e)
    PROVE  /\ e.kind = "Linear" /\ MapOf(e) = e.c /\ e = Linear(e.c)
           /\ IsAffine(e) /\ IsMap(MapOf(e))
           /\ \A w \in Assignments : ValueOf(e, w) = SumOver(MapOf(e), w)
<1>1. PICK m : IsMap(m) /\ e = Linear(m)
  BY DEF IsLine
<1>2. e.kind = "Linear" /\ e.kind # "Quadratic" /\ e.c = m
  BY <1>1 DEF Linear
<1>3. MapOf(e) = e.c
  BY <1>2, Zenon DEF MapOf
<1>4. \A w \in Assignments : ValueOf(e, w) = SumOver(MapOf(e), w)
  BY <1>2 DEF ValueOf
<1> QED BY <1>1, <1>2, <1>3, <1>4 DEF IsAffine

LEMMA SquareShape ==
    ASSUME NEW e, IsSquare(e)
    PROVE  /\ e.kind = "Quadratic" /\ IsMap(e.a) /\ IsMap(e.b) /\ IsMap(e.c)
           /\ e = Quadratic(e.a, e.b, e.c) /\ ~IsAffine(e)
           /\ \A w \in Assignments :
                ValueOf(e, w) = AddMod(MulMod(SumOver(e.a, w), SumOver(e.b, w)), SumOver(e.c, w))
<1>1. PICK a, b, c : IsMap(a) /\ IsMap(b) /\ IsMap(c) /\ e = Quadratic(a, b, c)
  BY DEF IsSquare
<1>2. e.kind = "Quadratic" /\ e.a = a /\ e.b = b /\ e.c = c
  BY <1>1 DEF Quadratic
<1> QED BY <1>1, <1>2 DEF ValueOf, IsAffine

LEMMA LineMeans ==
    ASSUME NEW m, IsMap(m)
    PROVE  /\ IsKnown(Linear(m))
           /\ \A w \in Assignments : ValueOf(Linear(m), w) = SumOver(m, w)
<1>1. IsLine(Linear(m)) /\ Linear(m).c = m
  BY DEF IsLine, Linear
<1> QED BY <1>1, LineShape DEF IsKnown

LEMMA SquareMeans ==
    ASSUME NEW a, IsMap(a), NEW b, IsMap(b), NEW c, IsMap(c)
    PROVE  /\ IsKnown(Quadratic(a, b, c))
           /\ \A w \in Assignments : ValueOf(Quadratic(a, b, c), w)
                = AddMod(MulMod(SumOver(a, w), SumOver(b, w)), SumOver(c, w))
<1> DEFINE e == Quadratic(a, b, c)
<1>1. IsSquare(e) /\ e.a = a /\ e.b = b /\ e.c = c
  BY DEF IsSquare, Quadratic
<1> HIDE DEF e
<1>2. \A w \in Assignments :
         ValueOf(e, w) = AddMod(MulMod(SumOver(e.a, w), SumOver(e.b, w)), SumOver(e.c, w))
  BY <1>1, SquareShape
<1> QED BY <1>1, <1>2 DEF IsKnown, e

LEMMA NumberMeans ==
    ASSUME NEW v \in Elements
    PROVE  /\ Number(v) \in Numbers /\ IsKnown(Number(v))
           /\ \A w \in Assignments : ValueOf(Number(v), w) = v
<1>1. Number(v) \in Numbers /\ Number(v).value = v
  BY DEF Numbers, Number
<1> QED BY <1>1, NumberShape DEF IsKnown

LEMMA AffineShape ==
    ASSUME NEW e, IsKnown(e), ~IsSquare(e)
    PROVE  /\ e.kind \in {"Number", "Signal", "Linear"} /\ IsAffine(e) /\ IsMap(MapOf(e))
           /\ \A w \in Assignments : ValueOf(e, w) = SumOver(MapOf(e), w)
<1>1. CASE e \in Numbers
  <2>1. e.kind = "Number"
    BY <1>1, NumberShape
  <2>2. \A w \in Assignments : ValueOf(e, w) = SumOver(MapOf(e), w)
    BY <2>1 DEF ValueOf
  <2> QED BY <1>1, <2>1, <2>2, NumberShape
<1>2. CASE e \in Names
  BY <1>2, NameShape
<1>3. CASE IsLine(e)
  BY <1>3, LineShape
<1> QED BY <1>1, <1>2, <1>3 DEF IsKnown

LEMMA ValueElement ==
    ASSUME NEW e, IsKnown(e), NEW w \in Assignments
    PROVE  ValueOf(e, w) \in Elements /\ ValueOf(e, w) \in Int
<1>1. CASE IsSquare(e)
  <2>1. /\ ValueOf(e, w) = AddMod(MulMod(SumOver(e.a, w), SumOver(e.b, w)), SumOver(e.c, w))
        /\ SumOver(e.a, w) \in Int /\ SumOver(e.b, w) \in Int /\ SumOver(e.c, w) \in Int
    BY <1>1, SquareShape, SumOverElement, FieldFacts
  <2> DEFINE x == SumOver(e.a, w)
             y == SumOver(e.b, w)
             z == SumOver(e.c, w)
  <2>2. x \in Int /\ y \in Int /\ z \in Int /\ ValueOf(e, w) = AddMod(MulMod(x, y), z)
    BY <2>1
  <2> HIDE DEF x, y, z
  <2> QED BY <2>2, Closed
<1>2. CASE ~IsSquare(e)
  BY <1>2, AffineShape, SumOverElement, FieldFacts
<1> QED BY <1>1, <1>2

(* A known expression is of one of four kinds, and no error. *)
LEMMA KnownKinds ==
    /\ \A e : IsKnown(e) => /\ e.kind \in {"Number", "Signal", "Linear", "Quadratic"}
                            /\ e # NonQuadratic /\ e # DivisionByZero /\ e # Panic
    /\ NonQuadratic.kind = "NonQuadratic" /\ ~IsAffine(NonQuadratic)
    /\ NonQuadratic # DivisionByZero /\ NonQuadratic # Panic /\ DivisionByZero # Panic
<1>1. NonQuadratic.kind = "NonQuadratic" /\ DivisionByZero.kind = "DivisionByZero" /\ Panic.kind = "Panic"
  BY DEF NonQuadratic, DivisionByZero, Panic
<1>2. ASSUME NEW e, IsKnown(e) PROVE e.kind \in {"Number", "Signal", "Linear", "Quadratic"}
  BY <1>2, AffineShape, SquareShape
<1> QED BY <1>1, <1>2 DEF IsAffine

-----------------------------------------------------------------------------
(* Sums *)

(* The value of a sum, a multiple and a product. *)
LEMMA AddMeans ==
    ASSUME NEW l, IsKnown(l), NEW r, IsKnown(r)
    PROVE  Means(Add(l, r), [w \in Assignments |-> AddMod(ValueOf(l, w), ValueOf(r, w))])
<1> DEFINE sum == Add(l, r)
<1> SUFFICES \/ sum = NonQuadratic
             \/ /\ IsKnown(sum)
                /\ \A w \in Assignments : ValueOf(sum, w) = AddMod(ValueOf(l, w), ValueOf(r, w))
  BY DEF Means
<1>1. CASE l \in Numbers /\ r \in Numbers
  <2> DEFINE v == AddMod(l.value, r.value)
  <2>1. /\ l.kind = "Number" /\ r.kind = "Number" /\ l.value \in Int /\ r.value \in Int
        /\ \A w \in Assignments : ValueOf(l, w) = l.value /\ ValueOf(r, w) = r.value
    BY <1>1, NumberShape
  <2>2. sum = Number(v)
    BY <2>1 DEF Add
  <2>3. v \in Elements
    BY <2>1, Closed
  <2> HIDE DEF sum, v
  <2>4. IsKnown(sum) /\ \A w \in Assignments : ValueOf(sum, w) = v
    BY <2>2, <2>3, NumberMeans
  <2> QED BY <2>1, <2>4 DEF v
<1>2. CASE ~IsSquare(l) /\ ~IsSquare(r) /\ ~(l \in Numbers /\ r \in Numbers)
  <2>1. ~(l.kind = "Number" /\ r.kind = "Number")
    BY <1>2, NameShape, LineShape DEF IsKnown
  <2>2. /\ IsAffine(l) /\ IsAffine(r) /\ IsMap(MapOf(l)) /\ IsMap(MapOf(r))
        /\ \A w \in Assignments : /\ ValueOf(l, w) = SumOver(MapOf(l), w)
                                  /\ ValueOf(r, w) = SumOver(MapOf(r), w)
    BY <1>2, AffineShape
  <2> DEFINE m == AddMaps(MapOf(l), MapOf(r))
  <2>3. sum = Linear(m)
    <3>1. {l.kind, r.kind} # {"Number"}
      BY <2>1
    <3>2. l.kind # "Quadratic" /\ r.kind # "Quadratic"
      BY <2>2 DEF IsAffine
    <3> QED BY <2>1, <2>2, <3>1, <3>2 DEF Add
  <2>4. IsMap(m) /\ \A w \in Assignments : SumOver(m, w) = AddMod(SumOver(MapOf(l), w), SumOver(MapOf(r), w))
    BY <2>2, AddMapsSum
  <2> HIDE DEF sum, m
  <2> QED BY <2>2, <2>3, <2>4, LineMeans
<1>3. CASE ~IsSquare(l) /\ IsSquare(r)
  <2>1. /\ IsAffine(l) /\ IsMap(MapOf(l))
        /\ \A w \in Assignments : ValueOf(l, w) = SumOver(MapOf(l), w)
    BY <1>3, AffineShape
  <2>2. /\ r.kind = "Quadratic" /\ IsMap(r.a) /\ IsMap(r.b) /\ IsMap(r.c) /\ ~IsAffine(r)
        /\ r = Quadratic(r.a, r.b, r.c)
        /\ \A w \in Assignments :
             ValueOf(r, w) = AddMod(MulMod(SumOver(r.a, w), SumOver(r.b, w)), SumOver(r.c, w))
    BY <1>3, SquareShape
  <2> DEFINE m == AddMaps(MapOf(l), r.c)
  <2>3. sum = Quadratic(r.a, r.b, m)
    <3>1. sum = [r EXCEPT !.c = m]
      BY <2>1, <2>2 DEF Add
    <3> HIDE DEF m
    <3> QED BY <2>2, <3>1 DEF Quadratic
  <2>4. IsMap(m) /\ \A w \in Assignments : SumOver(m, w) = AddMod(SumOver(MapOf(l), w), SumOver(r.c, w))
    BY <2>1, <2>2, AddMapsSum
  <2> HIDE DEF sum, m
  <2>5. IsKnown(sum) /\ \A w \in Assignments :
           ValueOf(sum, w) = AddMod(MulMod(SumOver(r.a, w), SumOver(r.b, w)), SumOver(m, w))
    BY <2>2, <2>3, <2>4, SquareMeans
  <2>6. ASSUME NEW w \in Assignments PROVE ValueOf(sum, w) = AddMod(ValueOf(l, w), ValueOf(r, w))
    <3> DEFINE p == MulMod(SumOver(r.a, w), SumOver(r.b, w))
               x == SumOver(MapOf(l), w)
               y == SumOver(r.c, w)
    <3>1. p \in Int /\ x \in Int /\ y \in Int
      BY <2>1, <2>2, SumOverElement, Closed, FieldFacts
    <3>2. ValueOf(sum, w) = AddMod(p, AddMod(x, y)) /\ ValueOf(l, w) = x /\ ValueOf(r, w) = AddMod(p, y)
      BY <2>1, <2>2, <2>4, <2>5
    <3> HIDE DEF p, x, y
    <3>3. AddMod(p, AddMod(x, y)) = (p + x + y) % Field /\ AddMod(x, AddMod(p, y)) = (x + p + y) % Field
      BY <3>1, Associate
    <3>4. p + x + y = x + p + y
      BY <3>1
    <3> QED BY <3>2, <3>3, <3>4
  <2> QED BY <2>5, <2>6
<1>4. CASE IsSquare(l) /\ ~IsSquare(r)
  <2>1. /\ IsAffine(r) /\ IsMap(MapOf(r))
        /\ \A w \in Assignments : ValueOf(r, w) = SumOver(MapOf(r), w)
    BY <1>4, AffineShape
  <2>2. /\ l.kind = "Quadratic" /\ IsMap(l.a) /\ IsMap(l.b) /\ IsMap(l.c) /\ ~IsAffine(l)
        /\ l = Quadratic(l.a, l.b, l.c)
        /\ \A w \in Assignments :
             ValueOf(l, w) = AddMod(MulMod(SumOver(l.a, w), SumOver(l.b, w)), SumOver(l.c, w))
    BY <1>4, SquareShape
  <2> DEFINE m == AddMaps(MapOf(r), l.c)
  <2>3. sum = Quadratic(l.a, l.b, m)
    <3>0. r.kind # "Quadratic"
      BY <2>1 DEF IsAffine
    <3>1. sum = [l EXCEPT !.c = m]
      BY <2>1, <2>2, <3>0 DEF Add
    <3> HIDE DEF m
    <3> QED BY <2>2, <3>1 DEF Quadratic
  <2>4. IsMap(m) /\ \A w \in Assignments : SumOver(m, w) = AddMod(SumOver(MapOf(r), w), SumOver(l.c, w))
    BY <2>1, <2>2, AddMapsSum
  <2> HIDE DEF sum, m
  <2>5. IsKnown(sum) /\ \A w \in Assignments :
           ValueOf(sum, w) = AddMod(MulMod(SumOver(l.a, w), SumOver(l.b, w)), SumOver(m, w))
    BY <2>2, <2>3, <2>4, SquareMeans
  <2>6. ASSUME NEW w \in Assignments PROVE ValueOf(sum, w) = AddMod(ValueOf(l, w), ValueOf(r, w))
    <3> DEFINE p == MulMod(SumOver(l.a, w), SumOver(l.b, w))
               x == SumOver(MapOf(r), w)
               y == SumOver(l.c, w)
    <3>1. p \in Int /\ x \in Int /\ y \in Int
      BY <2>1, <2>2, SumOverElement, Closed, FieldFacts
    <3>2. ValueOf(sum, w) = AddMod(p, AddMod(x, y)) /\ ValueOf(r, w) = x /\ ValueOf(l, w) = AddMod(p, y)
      BY <2>1, <2>2, <2>4, <2>5
    <3> HIDE DEF p, x, y
    <3>3. AddMod(p, AddMod(x, y)) = (p + x + y) % Field /\ AddMod(AddMod(p, y), x) = (p + y + x) % Field
      BY <3>1, Associate
    <3>4. p + x + y = p + y + x
      BY <3>1
    <3> QED BY <3>2, <3>3, <3>4
  <2> QED BY <2>5, <2>6
<1>5. CASE IsSquare(l) /\ IsSquare(r)
  <2>1. l.kind = "Quadratic" /\ r.kind = "Quadratic" /\ ~IsAffine(l) /\ ~IsAffine(r)
    BY <1>5, SquareShape
  <2> QED BY <2>1 DEF Add
<1> QED BY <1>1, <1>2, <1>3, <1>4, <1>5

-----------------------------------------------------------------------------
(* Products *)

LEMMA ScaleMeans ==
    ASSUME NEW v \in Int, NEW e, IsKnown(e)
    PROVE  /\ IsKnown(ScaleExpr(v, e))
           /\ \A w \in Assignments : ValueOf(ScaleExpr(v, e), w) = MulMod(v, ValueOf(e, w))
<1> DEFINE s == ScaleExpr(v, e)
<1>1. CASE e \in Numbers
  <2> DEFINE u == MulMod(v, e.value)
  <2>1. /\ e.kind = "Number" /\ e.value \in Int
        /\ \A w \in Assignments : ValueOf(e, w) = e.value
    BY <1>1, NumberShape
  <2>2. s = Number(u)
    BY <2>1 DEF ScaleExpr
  <2>3. u \in Elements
    BY <2>1, Closed
  <2> HIDE DEF s, u
  <2>4. IsKnown(s) /\ \A w \in Assignments : ValueOf(s, w) = u
    BY <2>2, <2>3, NumberMeans
  <2> QED BY <2>1, <2>4 DEF s, u
<1>2. CASE e \in Names \/ IsLine(e)
  <2>1. /\ e.kind \in {"Signal", "Linear"} /\ IsMap(MapOf(e))
        /\ \A w \in Assignments : ValueOf(e, w) = SumOver(MapOf(e), w)
    BY <1>2, NameShape, LineShape
  <2> DEFINE m == Scale(MapOf(e), v)
  <2>2. s = Linear(m)
    BY <2>1 DEF ScaleExpr
  <2>3. IsMap(m) /\ \A w \in Assignments : SumOver(m, w) = MulMod(v, SumOver(MapOf(e), w))
    BY <2>1, ScaleSum
  <2> HIDE DEF s, m
  <2>4. IsKnown(s) /\ \A w \in Assignments : ValueOf(s, w) = SumOver(m, w)
    BY <2>2, <2>3, LineMeans
  <2> QED BY <2>1, <2>3, <2>4 DEF s
<1>3. CASE IsSquare(e)
  <2>1. /\ e.kind = "Quadratic" /\ IsMap(e.a) /\ IsMap(e.b) /\ IsMap(e.c)
        /\ e = Quadratic(e.a, e.b, e.c)
        /\ \A w \in Assignments :
             ValueOf(e, w) = AddMod(MulMod(SumOver(e.a, w), SumOver(e.b, w)), SumOver(e.c, w))
    BY <1>3, SquareShape
  <2> DEFINE a == Scale(e.a, v)
             c == Scale(e.c, v)
  <2>2. s = Quadratic(a, e.b, c)
    <3>1. s = [e EXCEPT !.a = a, !.c = c]
      BY <2>1 DEF ScaleExpr
    <3> HIDE DEF a, c
    <3> QED BY <2>1, <3>1 DEF Quadratic
  <2>3. /\ IsMap(a) /\ \A w \in Assignments : SumOver(a, w) = MulMod(v, SumOver(e.a, w))
        /\ IsMap(c) /\ \A w \in Assignments : SumOver(c, w) = MulMod(v, SumOver(e.c, w))
    BY <2>1, ScaleSum
  <2> HIDE DEF s, a, c
  <2>4. IsKnown(s) /\ \A w \in Assignments :
           ValueOf(s, w) = AddMod(MulMod(SumOver(a, w), SumOver(e.b, w)), SumOver(c, w))
    BY <2>1, <2>2, <2>3, SquareMeans
  <2>5. ASSUME NEW w \in Assignments PROVE ValueOf(s, w) = MulMod(v, ValueOf(e, w))
    <3> DEFINE x == SumOver(e.a, w)
               y == SumOver(e.b, w)
               z == SumOver(e.c, w)
               p == MulMod(x, y)
    <3>1. x \in Int /\ y \in Int /\ z \in Int
      BY <2>1, SumOverElement, FieldFacts
    <3>2. ValueOf(s, w) = AddMod(MulMod(MulMod(v, x), y), MulMod(v, z)) /\ ValueOf(e, w) = AddMod(p, z)
      BY <2>1, <2>3, <2>4
    <3> HIDE DEF x, y, z
    <3>3. MulMod(MulMod(v, x), y) = MulMod(v, p) /\ p \in Int
      BY <3>1, Associate, Closed
    <3> HIDE DEF p
    <3>4. /\ MulMod(v, AddMod(p, z)) = MulMod(AddMod(p, z), v)
          /\ MulMod(v, p) = MulMod(p, v) /\ MulMod(v, z) = MulMod(z, v)
      BY <3>1, <3>3, Commute, Closed
    <3>5. MulMod(AddMod(p, z), v) = AddMod(MulMod(p, v), MulMod(z, v))
      BY <3>1, <3>3, DistributeMod
    <3> QED BY <3>2, <3>3, <3>4, <3>5
  <2> QED BY <2>4, <2>5 DEF s
<1> QED BY <1>1, <1>2, <1>3 DEF IsKnown

LEMMA MulMeans ==
    ASSUME NEW l, IsKnown(l), NEW r, IsKnown(r)
    PROVE  Means(Mul(l, r), [w \in Assignments |-> MulMod(ValueOf(l, w), ValueOf(r, w))])
<1> DEFINE product == Mul(l, r)
<1> SUFFICES \/ product = NonQuadratic
             \/ /\ IsKnown(product)
                /\ \A w \in Assignments : ValueOf(product, w) = MulMod(ValueOf(l, w), ValueOf(r, w))
  BY DEF Means
<1>1. CASE l \in Numbers
  <2>1. l.kind = "Number" /\ l.value \in Int /\ \A w \in Assignments : ValueOf(l, w) = l.value
    BY <1>1, NumberShape
  <2>2. product = ScaleExpr(l.value, r)
    BY <2>1 DEF Mul
  <2> HIDE DEF product
  <2> QED BY <2>1, <2>2, ScaleMeans
<1>2. CASE l \notin Numbers /\ r \in Numbers
  <2>1. r.kind = "Number" /\ r.value \in Int /\ \A w \in Assignments : ValueOf(r, w) = r.value
    BY <1>2, NumberShape
  <2>2. l.kind # "Number"
    BY <1>2, NameShape, LineShape, SquareShape DEF IsKnown
  <2>3. product = ScaleExpr(r.value, l)
    BY <2>1, <2>2 DEF Mul
  <2> HIDE DEF product
  <2>4. \A w \in Assignments : ValueOf(l, w) \in Int
    BY ValueElement
  <2> QED BY <2>1, <2>3, <2>4, ScaleMeans, Commute
<1>3. CASE (l \in Names \/ IsLine(l)) /\ (r \in Names \/ IsLine(r))
  <2>1. /\ l.kind \in {"Signal", "Linear"} /\ r.kind \in {"Signal", "Linear"}
        /\ IsMap(MapOf(l)) /\ IsMap(MapOf(r))
        /\ \A w \in Assignments : /\ ValueOf(l, w) = SumOver(MapOf(l), w)
                                  /\ ValueOf(r, w) = SumOver(MapOf(r), w)
    BY <1>3, NameShape, LineShape
  <2> DEFINE x == MapOf(l)
             y == MapOf(r)
             c == Initialize(NoKeys)
  <2>2. product = Quadratic(x, y, c) \/ product = Quadratic(y, x, c)
    BY <2>1 DEF Mul
  <2>3. IsMap(c) /\ \A w \in Assignments : SumOver(c, w) = 0
    BY NoKeysSum
  <2> HIDE DEF product, c
  <2>4. ASSUME NEW a, NEW b, IsMap(a), IsMap(b), product = Quadratic(a, b, c)
        PROVE  /\ IsKnown(product)
               /\ \A w \in Assignments : ValueOf(product, w) = MulMod(SumOver(a, w), SumOver(b, w))
    <3>1. IsKnown(product) /\ \A w \in Assignments :
             ValueOf(product, w) = AddMod(MulMod(SumOver(a, w), SumOver(b, w)), SumOver(c, w))
      BY <2>3, <2>4, SquareMeans
    <3>2. ASSUME NEW w \in Assignments PROVE ValueOf(product, w) = MulMod(SumOver(a, w), SumOver(b, w))
      <4> DEFINE p == MulMod(SumOver(a, w), SumOver(b, w))
      <4>1. p \in Elements
        BY <2>4, SumOverElement, Closed, FieldFacts
      <4>2. ValueOf(product, w) = AddMod(p, 0)
        BY <2>3, <3>1
      <4> HIDE DEF p
      <4>3. AddMod(p, 0) = p
        BY <4>1, Units, Canonical, FieldFacts
      <4> QED BY <4>2, <4>3 DEF p
    <3> QED BY <3>1, <3>2
  <2>5. CASE product = Quadratic(x, y, c)
    BY <2>1, <2>4, <2>5
  <2>6. CASE product = Quadratic(y, x, c)
    <3>1. IsKnown(product) /\ \A w \in Assignments : ValueOf(product, w) = MulMod(SumOver(y, w), SumOver(x, w))
      BY <2>1, <2>4, <2>6
    <3>2. \A w \in Assignments : SumOver(x, w) \in Int /\ SumOver(y, w) \in Int
      BY <2>1, SumOverElement, FieldFacts
    <3> HIDE DEF x, y
    <3>3. \A w \in Assignments : MulMod(SumOver(y, w), SumOver(x, w)) = MulMod(SumOver(x, w), SumOver(y, w))
      BY <3>2, Commute
    <3> QED BY <2>1, <3>1, <3>3 DEF x, y
  <2> QED BY <2>2, <2>5, <2>6
<1>4. CASE l \notin Numbers /\ r \notin Numbers /\ (IsSquare(l) \/ IsSquare(r))
  <2>1. l.kind # "Number" /\ r.kind # "Number"
    BY <1>4, NameShape, LineShape, SquareShape DEF IsKnown
  <2>2. l.kind = "Quadratic" \/ r.kind = "Quadratic"
    BY <1>4, SquareShape
  <2> QED BY <2>1, <2>2 DEF Mul
<1> QED BY <1>1, <1>2, <1>3, <1>4 DEF IsKnown

-----------------------------------------------------------------------------
(* Differences *)

LEMMA MinusOne ==
    ASSUME NEW x \in Int, NEW y \in Int
    PROVE  /\ AddMod(x, MulMod(-1, y)) = (x - y) % Field
           /\ MulMod(-1, y) = (-y) % Field /\ MulMod(y, -1) = (-y) % Field
<1>1. (-1) * y = -y /\ y * (-1) = -y /\ x + (-y) = x - y /\ -y \in Int
  OBVIOUS
<1>2. MulMod(-1, y) = (-y) % Field /\ MulMod(y, -1) = (-y) % Field
  BY <1>1 DEF MulMod
<1>3. AddMod(x, (-y) % Field) = AddMod(x, -y)
  BY <1>1, ReduceFirst
<1> QED BY <1>1, <1>2, <1>3 DEF AddMod

(* A difference is the sum with the negative. *)
LEMMA SubMeans ==
    ASSUME NEW l, IsKnown(l), NEW r, IsKnown(r)
    PROVE  Means(Sub(l, r), [w \in Assignments |-> (ValueOf(l, w) - ValueOf(r, w)) % Field])
<1> DEFINE minus == ScaleExpr(-1, r)
<1>1. Mul(Number(-1), r) = minus
  BY DEF Mul, Number
<1>2. IsKnown(minus) /\ \A w \in Assignments : ValueOf(minus, w) = MulMod(-1, ValueOf(r, w))
  BY ScaleMeans
<1> HIDE DEF minus
<1>3. Means(Add(l, minus), [w \in Assignments |-> AddMod(ValueOf(l, w), ValueOf(minus, w))])
  BY <1>2, AddMeans
<1>4. ASSUME NEW w \in Assignments
      PROVE  AddMod(ValueOf(l, w), ValueOf(minus, w)) = (ValueOf(l, w) - ValueOf(r, w)) % Field
  BY <1>2, ValueElement, MinusOne
<1>5. Sub(l, r) = Add(l, minus)
  BY <1>1 DEF Sub
<1> QED BY <1>3, <1>4, <1>5 DEF Means

LEMMA PrefixSubMeans ==
    ASSUME NEW e, IsKnown(e)
    PROVE  Means(PrefixSub(e), [w \in Assignments |-> (-ValueOf(e, w)) % Field])
<1>1. CASE e \in Numbers
  <2> DEFINE v == MulMod(e.value, -1)
  <2>1. e.kind = "Number" /\ e.value \in Int /\ \A w \in Assignments : ValueOf(e, w) = e.value
    BY <1>1, NumberShape
  <2>2. PrefixSub(e) = ScaleExpr(e.value, Number(-1))
    BY <2>1 DEF PrefixSub, Mul
  <2>3. ScaleExpr(e.value, Number(-1)) = Number(v)
    BY DEF ScaleExpr, Number
  <2>4. v \in Elements /\ v = (-e.value) % Field
    <3> DEFINE u == e.value
    <3>1. u \in Int /\ -1 \in Int
      BY <2>1
    <3> HIDE DEF u
    <3>2. MulMod(u, -1) \in Elements /\ MulMod(u, -1) = (-u) % Field
      BY <3>1, Closed, MinusOne
    <3> QED BY <3>2 DEF u
  <2> HIDE DEF v
  <2>5. IsKnown(Number(v)) /\ \A w \in Assignments : ValueOf(Number(v), w) = v
    BY <2>4, NumberMeans
  <2> QED BY <2>1, <2>2, <2>3, <2>4, <2>5 DEF Means
<1>2. CASE e \notin Numbers
  <2>1. e.kind # "Number"
    BY <1>2, NameShape, LineShape, SquareShape DEF IsKnown
  <2>2. PrefixSub(e) = ScaleExpr(-1, e)
    BY <2>1 DEF PrefixSub, Mul, Number
  <2>3. /\ IsKnown(ScaleExpr(-1, e))
        /\ \A w \in Assignments : ValueOf(ScaleExpr(-1, e), w) = MulMod(-1, ValueOf(e, w))
    BY ScaleMeans
  <2>4. \A w \in Assignments : MulMod(-1, ValueOf(e, w)) = (-ValueOf(e, w)) % Field
    BY ValueElement, MinusOne
  <2> QED BY <2>2, <2>3, <2>4 DEF Means
<1> QED BY <1>1, <1>2

-----------------------------------------------------------------------------
(* Operators on two known expressions *)

(* The result has the given values, is no longer known, or is an error that *)
(* no assignment avoids.  Only a shift too far does not agree.              *)
Agrees(e, value) ==
    \/ Means(e, value)
    \/ e \in {DivisionByZero, Panic} /\ \A w \in Assignments : value[w] = Undefined

meaningOf(op, l, r) == [w \in Assignments |-> MeaningOfInfix(op, ValueOf(l, w), ValueOf(r, w))]

(* A quotient multiplies by the inverse, which exists unless the divisor is 0. *)
LEMMA DivMeans ==
    ASSUME NEW l, IsKnown(l), NEW r, IsKnown(r)
    PROVE  /\ Div(l, r) # Panic
           /\ Agrees(Div(l, r), meaningOf("Div", l, r))
<1> DEFINE div == Div(l, r)
<1>0. ASSUME NEW x, NEW y
      PROVE  MeaningOfInfix("Div", x, y) =
                IF y = 0 THEN Undefined ELSE CHOOSE q \in Elements : (q * y) % Field = x
  BY Zenon DEF MeaningOfInfix
<1>1. l.kind # "NonQuadratic"
  BY KnownKinds
<1>2. CASE r \notin Numbers
  <2>1. r.kind # "Number"
    BY <1>2, NameShape, LineShape, SquareShape DEF IsKnown
  <2>2. Div(l, r) = NonQuadratic
    BY <2>1 DEF Div
  <2> QED BY <2>2, KnownKinds DEF Agrees, Means
<1>3. CASE r \in Numbers
  <2> DEFINE y == r.value
  <2>1. r.kind = "Number" /\ y \in Elements /\ \A w \in Assignments : ValueOf(r, w) = y
    BY <1>3, NumberShape
  <2>2. CASE y = 0
    <3>1. Inverses(y) = {}
      BY <2>2, ZeroHasNoInverse
    <3>2. Div(l, r) = DivisionByZero
      BY <1>1, <2>1, <3>1 DEF Div
    <3>3. \A w \in Assignments : meaningOf("Div", l, r)[w] = Undefined
      BY <1>0, <2>1, <2>2 DEF meaningOf
    <3> QED BY <3>2, <3>3, KnownKinds DEF Agrees
  <2>3. CASE y # 0
    <3>1. Inverses(y) # {}
      BY <2>1, <2>3, DivisionDefined
    <3>2. \A w \in Assignments : meaningOf("Div", l, r)[w] = DivMod(ValueOf(l, w), y)
      <4> SUFFICES ASSUME NEW w \in Assignments
                   PROVE  meaningOf("Div", l, r)[w] = DivMod(ValueOf(l, w), y)
        OBVIOUS
      <4> DEFINE x == ValueOf(l, w)
      <4>1. x \in Elements
        BY ValueElement
      <4>2. meaningOf("Div", l, r)[w] = CHOOSE q \in Elements : (q * y) % Field = x
        <5>1. meaningOf("Div", l, r)[w] = MeaningOfInfix("Div", x, ValueOf(r, w))
          BY DEF meaningOf
        <5>2. ValueOf(r, w) = y
          BY <2>1
        <5>3. MeaningOfInfix("Div", x, y) = CHOOSE q \in Elements : (q * y) % Field = x
          BY <1>0, <2>3
        <5> QED BY <5>1, <5>2, <5>3
      <4> HIDE DEF x, y
      <4>3. (CHOOSE q \in Elements : (q * y) % Field = x) = DivMod(x, y)
        BY <2>1, <2>3, <4>1, QuotientValue
      <4> QED BY <4>2, <4>3 DEF x
    <3>3. CASE l \in Numbers
      <4> DEFINE v == DivMod(l.value, y)
      <4>1. l.kind = "Number" /\ l.value \in Int /\ \A w \in Assignments : ValueOf(l, w) = l.value
        BY <3>3, NumberShape
      <4>2. div = Number(v)
        BY <1>1, <2>1, <3>1, <4>1 DEF Div
      <4>3. v \in Elements
        BY <2>1, <2>3, <4>1, DivModValue
      <4> HIDE DEF div, v
      <4>4. IsKnown(div) /\ \A w \in Assignments : ValueOf(div, w) = v
        BY <4>2, <4>3, NumberMeans
      <4>5. \A w \in Assignments : meaningOf("Div", l, r)[w] = v
        BY <3>2, <4>1 DEF v
      <4>6. div # Panic /\ Agrees(div, meaningOf("Div", l, r))
        BY <4>4, <4>5, KnownKinds DEF Agrees, Means
      <4> QED BY <4>6 DEF div
    <3>4. CASE l \notin Numbers
      <4> DEFINE i == DivMod(1, y)
      <4>1. l.kind # "Number"
        BY <3>4, NameShape, LineShape, SquareShape DEF IsKnown
      <4>2. div = ScaleExpr(i, l)
        BY <1>1, <2>1, <3>1, <4>1 DEF Div
      <4>3. i \in Int
        BY <2>1, <2>3, DivModValue, FieldFacts
      <4>4. \A w \in Assignments : meaningOf("Div", l, r)[w] = MulMod(i, ValueOf(l, w))
        <5> SUFFICES ASSUME NEW w \in Assignments PROVE DivMod(ValueOf(l, w), y) = MulMod(i, ValueOf(l, w))
          BY <3>2
        <5>1. ValueOf(l, w) \in Int
          BY ValueElement
        <5>2. DivMod(ValueOf(l, w), y) = MulMod(ValueOf(l, w), i)
          BY <2>1, <2>3, <5>1, DivModValue
        <5> QED BY <4>3, <5>1, <5>2, Commute
      <4> HIDE DEF div, i
      <4>5. IsKnown(div) /\ \A w \in Assignments : ValueOf(div, w) = MulMod(i, ValueOf(l, w))
        BY <4>2, <4>3, ScaleMeans
      <4>6. div # Panic /\ Agrees(div, meaningOf("Div", l, r))
        BY <4>4, <4>5, KnownKinds DEF Agrees, Means
      <4> QED BY <4>6 DEF div
    <3> QED BY <3>3, <3>4
  <2> QED BY <2>2, <2>3
<1> QED BY <1>2, <1>3

LEMMA PowMeansExpr ==
    ASSUME NEW l, IsKnown(l), NEW r, IsKnown(r)
    PROVE  Means(Pow(l, r), meaningOf("Pow", l, r))
<1>0. ASSUME NEW x, NEW y PROVE MeaningOfInfix("Pow", x, y) = PowerOf(x, y)
  BY Zenon DEF MeaningOfInfix
<1>1. CASE l \in Numbers /\ r \in Numbers
  <2> DEFINE v == PowMod(l.value, r.value)
  <2>1. /\ l.kind = "Number" /\ r.kind = "Number" /\ l.value \in Elements /\ r.value \in Elements
        /\ \A w \in Assignments : ValueOf(l, w) = l.value /\ ValueOf(r, w) = r.value
    BY <1>1, NumberShape
  <2>2. Pow(l, r) = Number(v)
    BY <2>1 DEF Pow
  <2>3. v \in Elements /\ v = PowerOf(l.value, r.value)
    BY <2>1, PowMeans
  <2> HIDE DEF v
  <2>4. IsKnown(Number(v)) /\ \A w \in Assignments : ValueOf(Number(v), w) = v
    BY <2>3, NumberMeans
  <2>5. \A w \in Assignments : meaningOf("Pow", l, r)[w] = v
    BY <1>0, <2>1, <2>3 DEF meaningOf
  <2> QED BY <2>2, <2>4, <2>5 DEF Means
<1>2. CASE l.kind \in {"Signal", "Linear"} /\ r = Number(2)
  <2>1. Pow(l, r) = Mul(l, l)
    BY <1>2 DEF Pow
  <2>2. Means(Mul(l, l), [w \in Assignments |-> MulMod(ValueOf(l, w), ValueOf(l, w))])
    BY MulMeans
  <2>3. ASSUME NEW w \in Assignments
        PROVE  meaningOf("Pow", l, r)[w] = MulMod(ValueOf(l, w), ValueOf(l, w))
    <3> DEFINE x == ValueOf(l, w)
    <3>1. 2 \in Elements /\ x \in Elements /\ x \in Int
      BY FieldFacts, ValueElement DEF Elements
    <3>2. ValueOf(r, w) = 2
      BY <1>2, <3>1, NumberMeans
    <3>3. meaningOf("Pow", l, r)[w] = PowerOf(x, 2)
      BY <1>0, <3>2 DEF meaningOf
    <3> HIDE DEF x
    <3>4. PowerOf(x, 2) = PowMod(x, 2)
      BY <3>1, PowMeans
    <3>5. PowMod(x, 2) = MulMod(x, MulMod(x, 1))
      <4>1. PowMod(x, 0) = 1 /\ PowMod(x, 0 + 1) = MulMod(x, PowMod(x, 0))
            /\ PowMod(x, 1 + 1) = MulMod(x, PowMod(x, 1))
        BY PowerModValues
      <4> QED BY <4>1
    <3>6. MulMod(x, 1) = x
      BY <3>1, Units, Canonical
    <3> QED BY <3>3, <3>4, <3>5, <3>6 DEF x
  <2> QED BY <2>1, <2>2, <2>3 DEF Means
<1>3. CASE ~(l \in Numbers /\ r \in Numbers) /\ ~(l.kind \in {"Signal", "Linear"} /\ r = Number(2))
  <2>1. ~(l.kind = "Number" /\ r.kind = "Number")
    BY <1>3, NameShape, LineShape, SquareShape DEF IsKnown
  <2>2. Pow(l, r) = NonQuadratic
    BY <1>3, <2>1 DEF Pow
  <2> QED BY <2>2 DEF Means
<1> QED BY <1>1, <1>2, <1>3

(* The operators that fold numbers. *)
LEMMA FoldMeans ==
    ASSUME NEW l, IsKnown(l), NEW r, IsKnown(r), NEW op, NEW v,
           l \in Numbers /\ r \in Numbers =>
                /\ v = MeaningOfInfix(op, l.value, r.value)
                /\ v \in Elements \/ v = Undefined
    PROVE  /\ Fold(l, r, v) # Panic
           /\ Agrees(Fold(l, r, v), meaningOf(op, l, r))
<1>1. CASE l \in Numbers /\ r \in Numbers
  <2>1. /\ l.kind = "Number" /\ r.kind = "Number"
        /\ \A w \in Assignments : ValueOf(l, w) = l.value /\ ValueOf(r, w) = r.value
    BY <1>1, NumberShape
  <2>2. \A w \in Assignments : meaningOf(op, l, r)[w] = v
    BY <1>1, <2>1 DEF meaningOf
  <2>3. CASE v = Undefined
    <3>1. Fold(l, r, v) = DivisionByZero
      BY <2>1, <2>3 DEF Fold
    <3> QED BY <2>2, <2>3, <3>1, KnownKinds DEF Agrees
  <2>4. CASE v \in Elements
    <3>1. v # Undefined
      BY <2>4, FieldFacts DEF Elements, Undefined
    <3>2. Fold(l, r, v) = Number(v)
      BY <2>1, <3>1 DEF Fold
    <3>3. IsKnown(Number(v)) /\ \A w \in Assignments : ValueOf(Number(v), w) = v
      BY <2>4, NumberMeans
    <3> QED BY <2>2, <3>2, <3>3, KnownKinds DEF Agrees, Means
  <2> QED BY <1>1, <2>3, <2>4
<1>2. CASE ~(l \in Numbers /\ r \in Numbers)
  <2>1. ~(l.kind = "Number" /\ r.kind = "Number")
    BY <1>2, NameShape, LineShape, SquareShape DEF IsKnown
  <2>2. Fold(l, r, v) = NonQuadratic
    BY <2>1 DEF Fold
  <2> QED BY <2>2, KnownKinds DEF Agrees, Means
<1> QED BY <1>1, <1>2

LEMMA CompareMeans ==
    ASSUME NEW l, IsKnown(l), NEW r, IsKnown(r), NEW op \in Comparisons
    PROVE  /\ Compare(op, l, r) # Panic
           /\ Agrees(Compare(op, l, r), meaningOf(op, l, r))
<1> DEFINE v == Comparison(op, l.value, r.value)
<1>1. ASSUME l \in Numbers /\ r \in Numbers
      PROVE  v = MeaningOfInfix(op, l.value, r.value) /\ v \in Elements
  BY <1>1, NumberShape, ComparisonMeans
<1>2. Compare(op, l, r) = Fold(l, r, v)
  BY DEF Compare
<1> HIDE DEF v
<1> QED BY <1>1, <1>2, FoldMeans

LEMMA ComputeMeans ==
    ASSUME NEW l, IsKnown(l), NEW r, IsKnown(r), NEW op \in Computations
    PROVE  /\ Compute(op, l, r) # Panic
           /\ \/ Agrees(Compute(op, l, r), meaningOf(op, l, r))
              \/ Compute(op, l, r) = DivisionByZero /\ ShiftsTooFar(op, r)
<1> DEFINE v == Computation(op, l.value, r.value)
<1>1. Compute(op, l, r) = Fold(l, r, v)
  BY DEF Compute
<1>2. CASE l \in Numbers /\ r \in Numbers /\ ShiftsTooFar(op, r)
  <2>1. /\ l.kind = "Number" /\ r.kind = "Number" /\ r = Number(r.value)
        /\ l.value \in Elements /\ r.value \in Elements
    BY <1>2, NumberShape DEF Numbers, Number
  <2>2. v = Undefined
    BY <1>2, <2>1, ComputationMeans
  <2>3. Fold(l, r, v) = DivisionByZero
    BY <2>1, <2>2 DEF Fold
  <2> QED BY <1>1, <1>2, <2>3, KnownKinds
<1>3. CASE ~(l \in Numbers /\ r \in Numbers /\ ShiftsTooFar(op, r))
  <2>1. ASSUME l \in Numbers /\ r \in Numbers
        PROVE  v = MeaningOfInfix(op, l.value, r.value) /\ (v \in Elements \/ v = Undefined)
    <3>1. r = Number(r.value) /\ l.value \in Elements /\ r.value \in Elements
      BY <2>1, NumberShape DEF Numbers, Number
    <3> QED BY <1>3, <2>1, <3>1, ComputationMeans
  <2> HIDE DEF v
  <2> QED BY <1>1, <2>1, FoldMeans
<1> QED BY <1>2, <1>3

LEMMA ModMeans ==
    ASSUME NEW l, IsKnown(l), NEW r, IsKnown(r)
    PROVE  Agrees(Mod(l, r), meaningOf("Mod", l, r))
<1> DEFINE folded == Compute("Mod", l, r)
<1>1. Agrees(folded, meaningOf("Mod", l, r))
  <2>1. "Mod" \in Computations /\ ~ShiftsTooFar("Mod", r)
    BY DEF Computations, ShiftsTooFar
  <2> QED BY <2>1, ComputeMeans
<1>2. Mod(l, r) = IF folded = DivisionByZero THEN Panic ELSE folded
  BY DEF Mod
<1> HIDE DEF folded
<1> QED BY <1>1, <1>2, KnownKinds DEF Agrees, Means

(* Every operator on known expressions: no longer known, refused without a value
   or as a shift too far, or of the value that the operator has. *)
LEMMA InfixMeans ==
    ASSUME NEW l, IsKnown(l), NEW r, IsKnown(r), NEW op \in InfixOps
    PROVE  \/ Agrees(ExecuteInfix(op, l, r), meaningOf(op, l, r))
           \/ ExecuteInfix(op, l, r) = DivisionByZero /\ ShiftsTooFar(op, r)
<1>1. CASE op = "Mul"
  <2>1. ExecuteInfix("Mul", l, r) = Mul(l, r)
    BY DEF ExecuteInfix, Comparisons
  <2>2. meaningOf("Mul", l, r) = [w \in Assignments |-> MulMod(ValueOf(l, w), ValueOf(r, w))]
    BY Zenon DEF meaningOf, MeaningOfInfix, MulMod
  <2> QED BY <1>1, <2>1, <2>2, MulMeans DEF Agrees
<1>2. CASE op = "Div"
  <2>1. ExecuteInfix("Div", l, r) = Div(l, r)
    BY DEF ExecuteInfix, Comparisons
  <2> QED BY <1>2, <2>1, DivMeans
<1>3. CASE op = "Add"
  <2>1. ExecuteInfix("Add", l, r) = Add(l, r)
    BY DEF ExecuteInfix, Comparisons
  <2>2. meaningOf("Add", l, r) = [w \in Assignments |-> AddMod(ValueOf(l, w), ValueOf(r, w))]
    BY Zenon DEF meaningOf, MeaningOfInfix, AddMod
  <2> QED BY <1>3, <2>1, <2>2, AddMeans DEF Agrees
<1>4. CASE op = "Sub"
  <2>1. ExecuteInfix("Sub", l, r) = Sub(l, r)
    BY DEF ExecuteInfix, Comparisons
  <2>2. meaningOf("Sub", l, r) = [w \in Assignments |-> (ValueOf(l, w) - ValueOf(r, w)) % Field]
    BY Zenon DEF meaningOf, MeaningOfInfix
  <2> QED BY <1>4, <2>1, <2>2, SubMeans DEF Agrees
<1>5. CASE op = "Pow"
  <2>1. ExecuteInfix("Pow", l, r) = Pow(l, r)
    BY DEF ExecuteInfix, Comparisons
  <2> QED BY <1>5, <2>1, PowMeansExpr DEF Agrees
<1>6. CASE op = "Mod"
  <2>1. ExecuteInfix("Mod", l, r) = Mod(l, r)
    BY DEF ExecuteInfix, Comparisons
  <2> QED BY <1>6, <2>1, ModMeans
<1>7. CASE op \in Comparisons
  <2>1. ExecuteInfix(op, l, r) = Compare(op, l, r)
    BY <1>7 DEF ExecuteInfix, Comparisons
  <2> QED BY <1>7, <2>1, CompareMeans
<1>8. CASE op \in Computations /\ op # "Mod"
  <2>1. ExecuteInfix(op, l, r) = Compute(op, l, r)
    BY <1>8 DEF ExecuteInfix, Comparisons, Computations
  <2> QED BY <1>8, <2>1, ComputeMeans
<1> QED BY <1>1, <1>2, <1>3, <1>4, <1>5, <1>6, <1>7, <1>8 DEF InfixOps, Comparisons, Computations

(* What is no longer known stays so. *)
LEMMA InfixUnknown ==
    ASSUME NEW e, IsKnown(e), NEW op \in InfixOps
    PROVE  /\ ExecuteInfix(op, e, NonQuadratic) = NonQuadratic
           /\ ExecuteInfix(op, NonQuadratic, e) = NonQuadratic
<1> DEFINE n == NonQuadratic
<1>1. n.kind = "NonQuadratic" /\ ~IsAffine(n) /\ n # DivisionByZero /\ n # Number(2)
  BY KnownKinds DEF Number
<1>2. e.kind \in {"Number", "Signal", "Linear", "Quadratic"}
  BY KnownKinds
<1>3. \A v : ScaleExpr(v, n) = n
  BY <1>1 DEF ScaleExpr
<1>4. Add(e, n) = n /\ Add(n, e) = n
  BY <1>1, <1>2 DEF Add
<1>5. Mul(e, n) = n /\ Mul(n, e) = n
  BY <1>1, <1>2, <1>3 DEF Mul
<1>6. Sub(e, n) = n /\ Sub(n, e) = n
  <2>1. Mul(Number(-1), n) = n
    BY <1>3 DEF Mul, Number
  <2>2. Mul(Number(-1), e) = ScaleExpr(-1, e) /\ IsKnown(ScaleExpr(-1, e))
    BY ScaleMeans DEF Mul, Number
  <2>3. Add(n, ScaleExpr(-1, e)) = n
    <3> DEFINE d == ScaleExpr(-1, e)
    <3>1. d.kind \in {"Number", "Signal", "Linear", "Quadratic"}
      BY <2>2, KnownKinds
    <3> HIDE DEF d
    <3>2. Add(n, d) = n
      BY <1>1, <3>1 DEF Add
    <3> QED BY <3>2 DEF d
  <2> QED BY <1>4, <2>1, <2>2, <2>3 DEF Sub
<1>7. Div(e, n) = n /\ Div(n, e) = n
  BY <1>1, <1>2 DEF Div
<1>8. Pow(e, n) = n /\ Pow(n, e) = n
  BY <1>1, <1>2 DEF Pow
<1>9. \A v : Fold(e, n, v) = n /\ Fold(n, e, v) = n
  BY <1>1, <1>2 DEF Fold
<1>10. \A o : Compare(o, e, n) = n /\ Compare(o, n, e) = n /\ Compute(o, e, n) = n /\ Compute(o, n, e) = n
  BY <1>9 DEF Compare, Compute
<1>11. Mod(e, n) = n /\ Mod(n, e) = n
  BY <1>1, <1>10 DEF Mod
<1> HIDE DEF n
<1>12. ExecuteInfix(op, e, n) = n /\ ExecuteInfix(op, n, e) = n
  BY <1>4, <1>5, <1>6, <1>7, <1>8, <1>10, <1>11 DEF ExecuteInfix, InfixOps, Comparisons
<1> QED BY <1>12 DEF n

-----------------------------------------------------------------------------
(* Operators on one expression *)

meaningOfPrefix(op, e) == [w \in Assignments |-> MeaningOfPrefix(op, ValueOf(e, w))]

LEMMA PrefixMeans ==
    ASSUME NEW e, IsKnown(e), NEW op \in PrefixOps
    PROVE  Means(ExecutePrefix(op, e), meaningOfPrefix(op, e))
<1>1. CASE op = "Sub"
  <2>1. ExecutePrefix("Sub", e) = PrefixSub(e)
    BY Zenon DEF ExecutePrefix
  <2>2. meaningOfPrefix("Sub", e) = [w \in Assignments |-> (-ValueOf(e, w)) % Field]
    BY Zenon DEF meaningOfPrefix, MeaningOfPrefix
  <2> QED BY <1>1, <2>1, <2>2, PrefixSubMeans
<1>2. ASSUME e \notin Numbers PROVE e.kind # "Number"
  BY <1>2, NameShape, LineShape, SquareShape DEF IsKnown
<1>3. ASSUME NEW v \in Elements, ExecutePrefix(op, e) = Number(v),
             \A w \in Assignments : meaningOfPrefix(op, e)[w] = v
      PROVE  Means(ExecutePrefix(op, e), meaningOfPrefix(op, e))
  <2>1. IsKnown(Number(v)) /\ \A w \in Assignments : ValueOf(Number(v), w) = v
    BY NumberMeans
  <2> QED BY <1>3, <2>1 DEF Means
<1>4. CASE op = "BoolNot"
  <2>1. ExecutePrefix("BoolNot", e) = Not(e)
    BY Zenon DEF ExecutePrefix
  <2>2. ASSUME NEW x PROVE MeaningOfPrefix("BoolNot", x) = Truth(x = 0)
    BY Zenon DEF MeaningOfPrefix
  <2>3. CASE e \in Numbers
    <3> DEFINE v == BoolNot(e.value)
    <3>1. e.kind = "Number" /\ e.value \in Elements /\ \A w \in Assignments : ValueOf(e, w) = e.value
      BY <2>3, NumberShape
    <3>2. v = Truth(e.value = 0) /\ v \in Elements
      <4>1. v = Truth(e.value = 0)
        BY <3>1, BooleanValues
      <4> QED BY <4>1, FieldFacts DEF Truth
    <3>3. Not(e) = Number(v)
      BY <3>1 DEF Not
    <3> HIDE DEF v
    <3>4. \A w \in Assignments : meaningOfPrefix("BoolNot", e)[w] = v
      BY <2>2, <3>1, <3>2 DEF meaningOfPrefix
    <3> QED BY <1>3, <1>4, <2>1, <3>2, <3>3, <3>4
  <2>4. CASE e \notin Numbers
    <3>1. Not(e) = NonQuadratic
      BY <1>2, <2>4 DEF Not
    <3> QED BY <1>4, <2>1, <3>1 DEF Means
  <2> QED BY <2>3, <2>4
<1>5. CASE op = "Complement"
  <2>1. ExecutePrefix("Complement", e) = ComplementOf(e)
    BY Zenon DEF ExecutePrefix
  <2>2. ASSUME NEW x PROVE MeaningOfPrefix("Complement", x) = OfBits((0..(NumBits - 1)) \ Bits(x)) % Field
    BY Zenon DEF MeaningOfPrefix
  <2>3. CASE e \in Numbers
    <3> DEFINE v == Complement(e.value)
               rest == (0 .. (NumBits - 1)) \ Bits(e.value)
    <3>1. e.kind = "Number" /\ e.value \in Elements /\ \A w \in Assignments : ValueOf(e, w) = e.value
      BY <2>3, NumberShape
    <3>2. v = OfBits(rest) % Field
      BY <3>1, ComplementValue
    <3>3. v \in Elements
      <4>1. rest \in SUBSET (0 .. (NumBits - 1))
        OBVIOUS
      <4> HIDE DEF rest
      <4> QED BY <3>2, <4>1, OfBitsElement
    <3>4. ComplementOf(e) = Number(v)
      BY <3>1 DEF ComplementOf
    <3>5. \A w \in Assignments : meaningOfPrefix("Complement", e)[w] = v
      BY <2>2, <3>1, <3>2 DEF meaningOfPrefix
    <3> HIDE DEF v
    <3> QED BY <1>3, <1>5, <2>1, <3>3, <3>4, <3>5
  <2>4. CASE e \notin Numbers
    <3>1. ComplementOf(e) = NonQuadratic
      BY <1>2, <2>4 DEF ComplementOf
    <3> QED BY <1>5, <2>1, <3>1 DEF Means
  <2> QED BY <2>3, <2>4
<1> QED BY <1>1, <1>4, <1>5 DEF PrefixOps

LEMMA PrefixUnknown ==
    ASSUME NEW op \in PrefixOps
    PROVE  ExecutePrefix(op, NonQuadratic) = NonQuadratic
<1> DEFINE n == NonQuadratic
<1>1. n.kind = "NonQuadratic"
  BY KnownKinds
<1>2. Not(n) = n /\ ComplementOf(n) = n
  BY <1>1 DEF Not, ComplementOf
<1>3. PrefixSub(n) = n
  BY <1>1 DEF PrefixSub, Mul, Number, ScaleExpr
<1> HIDE DEF n
<1>4. /\ ExecutePrefix("BoolNot", n) = Not(n) /\ ExecutePrefix("Sub", n) = PrefixSub(n)
      /\ ExecutePrefix("Complement", n) = ComplementOf(n)
  BY Zenon DEF ExecutePrefix
<1> QED BY <1>2, <1>3, <1>4 DEF PrefixOps, n

-----------------------------------------------------------------------------
(* Constraints *)

(* e = 0 and A*B - C = 0 hold together. *)
LEMMA ConstraintHolds ==
    ASSUME NEW e, IsKnown(e), NEW w \in Assignments
    PROVE  Holds(ToConstraint(e), w) <=> ValueOf(e, w) = 0
<1>0. ASSUME NEW p \in Elements, NEW c \in Elements
      PROVE  p = MulMod(-1, c) <=> AddMod(p, c) = 0
  <2>1. p \in 0 .. (Field - 1) /\ c \in 0 .. (Field - 1) /\ Field \in Nat /\ Field > 0
    BY FieldFacts DEF Elements
  <2>2. MulMod(-1, c) = (-c) % Field
    BY <2>1, MinusOne
  <2>3. (-c) % Field = IF c = 0 THEN 0 ELSE Field - c
    BY <2>1
  <2>4. (p + c) % Field = IF p + c < Field THEN p + c ELSE (p + c) - Field
    BY <2>1
  <2> QED BY <2>1, <2>2, <2>3, <2>4 DEF AddMod
<1>1. CASE IsSquare(e)
  <2>1. /\ e.kind = "Quadratic" /\ IsMap(e.a) /\ IsMap(e.b) /\ IsMap(e.c)
        /\ ValueOf(e, w) = AddMod(MulMod(SumOver(e.a, w), SumOver(e.b, w)), SumOver(e.c, w))
    BY <1>1, SquareShape
  <2> DEFINE c == Scale(e.c, -1)
             p == MulMod(SumOver(e.a, w), SumOver(e.b, w))
             z == SumOver(e.c, w)
  <2>2. ToConstraint(e) = Constraint(e.a, e.b, c)
    BY <2>1 DEF ToConstraint
  <2>3. SumOver(c, w) = MulMod(-1, z)
    BY <2>1, ScaleSum
  <2>4. Holds(ToConstraint(e), w) <=> p = MulMod(-1, z)
    <3> HIDE DEF c
    <3> QED BY <2>2, <2>3 DEF Holds, Constraint
  <2>5. p \in Elements /\ z \in Elements
    BY <2>1, SumOverElement, Closed, FieldFacts
  <2> HIDE DEF p, z
  <2>6. ValueOf(e, w) = AddMod(p, z)
    BY <2>1 DEF p, z
  <2> QED BY <1>0, <2>4, <2>5, <2>6
<1>2. CASE ~IsSquare(e)
  <2> DEFINE m == MapOf(e)
             none == Initialize(NoKeys)
             c == Scale(Initialize(m), -1)
             z == SumOver(m, w)
  <2>1. e.kind # "Quadratic" /\ IsMap(m) /\ ValueOf(e, w) = z
    BY <1>2, AffineShape
  <2>2. ToConstraint(e) = Constraint(none, none, c)
    BY <2>1 DEF ToConstraint
  <2>3. SumOver(none, w) = 0 /\ SumOver(c, w) = MulMod(-1, z)
    <3>1. IsMap(Initialize(m)) /\ SumOver(Initialize(m), w) = z
      BY <2>1, InitializeSum
    <3> QED BY <3>1, NoKeysSum, ScaleSum
  <2>4. z \in Elements
    BY <2>1, SumOverElement
  <2> HIDE DEF none, c, z
  <2>5. Holds(ToConstraint(e), w) <=> MulMod(0, 0) = MulMod(-1, z)
    BY <2>2, <2>3 DEF Holds, Constraint
  <2>6. MulMod(0, 0) = 0 /\ AddMod(0, z) = z
    BY <2>4, Units, Canonical, FieldFacts
  <2> QED BY <1>0, <2>1, <2>4, <2>5, <2>6, FieldFacts
<1> QED BY <1>1, <1>2

-----------------------------------------------------------------------------
(* The machine *)

(* An expression that is still known is of one of the four forms and means what *)
(* its source means, and a constraint holds where its statement does.           *)
IInv ==
    /\ outcome = "evaluating" => Means(acc, meaning)
    /\ ConstraintMeans

(* No assignment gives the new expression a value. *)
NowUndefined == \A w \in Assignments : meaning'[w] = Undefined

LEMMA OperandsKnown == \A e \in Operands : IsKnown(e)
BY LiteralsAssumption DEF Operands, IsKnown, Numbers, Names

LEMMA StrictMeans ==
    ASSUME NEW l, IsKnown(l), NEW r, IsKnown(r), NEW op, NEW w \in Assignments
    PROVE  Strict2(op, ValueOf(l, w), ValueOf(r, w)) = meaningOf(op, l, r)[w]
<1>1. ValueOf(l, w) # Undefined /\ ValueOf(r, w) # Undefined
  BY ValueElement, FieldFacts DEF Elements, Undefined
<1> QED BY <1>1 DEF Strict2, meaningOf

LEMMA InitIInv == Init => IInv
<1> SUFFICES ASSUME Init PROVE IInv
  OBVIOUS
<1>1. IsKnown(acc) /\ \A w \in Assignments : ValueOf(acc, w) = meaning[w]
  BY OperandsKnown DEF Init
<1>2. outcome = "evaluating"
  BY DEF Init
<1> QED BY <1>1, <1>2 DEF IInv, ConstraintMeans, Means

(* A step that records a result with the given meaning, or gives up. *)
LEMMA RecordStep ==
    ASSUME outcome' = CASE acc' = DivisionByZero -> "failed"
                        [] acc' = Panic -> "panicked"
                        [] OTHER -> "evaluating",
           Agrees(acc', meaning') \/ acc' = DivisionByZero
    PROVE  /\ IInv'
           /\ outcome' \in {"failed", "panicked"} /\ Agrees(acc', meaning') => NowUndefined
<1>1. CASE Means(acc', meaning')
  <2>1. acc' # DivisionByZero /\ acc' # Panic
    BY <1>1, KnownKinds DEF Means
  <2>2. outcome' = "evaluating"
    BY <2>1
  <2> QED BY <1>1, <2>2 DEF IInv, ConstraintMeans, Means
<1>2. CASE ~Means(acc', meaning')
  <2>1. acc' \in {DivisionByZero, Panic} /\ (Agrees(acc', meaning') => NowUndefined)
    BY <1>2 DEF Agrees, NowUndefined
  <2>2. outcome' \in {"failed", "panicked"}
    BY <2>1, KnownKinds
  <2> QED BY <2>1, <2>2 DEF IInv, ConstraintMeans
<1> QED BY <1>1, <1>2

(* What is not known any more claims nothing of its value. *)
LEMMA UnknownAgrees == Agrees(NonQuadratic, meaning')
BY DEF Agrees, Means

(* The steps. *)
LEMMA InfixRightStep ==
    ASSUME IInv, NEW op \in InfixOps, NEW e \in Operands, InfixRight(op, e)
    PROVE  /\ IInv'
           /\ outcome' \in {"failed", "panicked"} => NowUndefined \/ ShiftsTooFar(op, e)
<1>1. Means(acc, meaning) /\ IsKnown(e)
  BY OperandsKnown DEF InfixRight, IInv
<1>2. /\ acc' = ExecuteInfix(op, acc, e)
      /\ outcome' = CASE acc' = DivisionByZero -> "failed"
                      [] acc' = Panic -> "panicked"
                      [] OTHER -> "evaluating"
      /\ meaning' = [w \in Assignments |-> Strict2(op, meaning[w], ValueOf(e, w))]
  BY DEF InfixRight, Record
<1>3. Agrees(acc', meaning') \/ (acc' = DivisionByZero /\ ShiftsTooFar(op, e))
  <2>1. CASE acc = NonQuadratic
    <3>1. acc' = NonQuadratic
      BY <1>1, <1>2, <2>1, InfixUnknown
    <3> QED BY <3>1, UnknownAgrees
  <2>2. CASE IsKnown(acc) /\ \A w \in Assignments : ValueOf(acc, w) = meaning[w]
    <3>1. \A w \in Assignments : meaning'[w] = meaningOf(op, acc, e)[w]
      BY <1>1, <1>2, <2>2, StrictMeans
    <3>2. Agrees(acc', meaningOf(op, acc, e)) \/ (acc' = DivisionByZero /\ ShiftsTooFar(op, e))
      BY <1>1, <1>2, <2>2, InfixMeans
    <3> QED BY <3>1, <3>2 DEF Agrees, Means
  <2> QED BY <1>1, <2>1, <2>2 DEF Means
<1> QED BY <1>2, <1>3, RecordStep

LEMMA InfixLeftStep ==
    ASSUME IInv, NEW op \in InfixOps, NEW e \in Operands, InfixLeft(op, e)
    PROVE  /\ IInv'
           /\ outcome' \in {"failed", "panicked"} => NowUndefined \/ ShiftsTooFar(op, acc)
<1>1. Means(acc, meaning) /\ IsKnown(e)
  BY OperandsKnown DEF InfixLeft, IInv
<1>2. /\ acc' = ExecuteInfix(op, e, acc)
      /\ outcome' = CASE acc' = DivisionByZero -> "failed"
                      [] acc' = Panic -> "panicked"
                      [] OTHER -> "evaluating"
      /\ meaning' = [w \in Assignments |-> Strict2(op, ValueOf(e, w), meaning[w])]
  BY DEF InfixLeft, Record
<1>3. Agrees(acc', meaning') \/ (acc' = DivisionByZero /\ ShiftsTooFar(op, acc))
  <2>1. CASE acc = NonQuadratic
    <3>1. acc' = NonQuadratic
      BY <1>1, <1>2, <2>1, InfixUnknown
    <3> QED BY <3>1, UnknownAgrees
  <2>2. CASE IsKnown(acc) /\ \A w \in Assignments : ValueOf(acc, w) = meaning[w]
    <3>1. \A w \in Assignments : meaning'[w] = meaningOf(op, e, acc)[w]
      BY <1>1, <1>2, <2>2, StrictMeans
    <3>2. Agrees(acc', meaningOf(op, e, acc)) \/ (acc' = DivisionByZero /\ ShiftsTooFar(op, acc))
      BY <1>1, <1>2, <2>2, InfixMeans
    <3> QED BY <3>1, <3>2 DEF Agrees, Means
  <2> QED BY <1>1, <2>1, <2>2 DEF Means
<1> QED BY <1>2, <1>3, RecordStep

LEMMA PrefixStep ==
    ASSUME IInv, NEW op \in PrefixOps, Prefix(op)
    PROVE  IInv' /\ (outcome' \in {"failed", "panicked"} => NowUndefined)
<1>1. Means(acc, meaning)
  BY DEF Prefix, IInv
<1>2. /\ acc' = ExecutePrefix(op, acc)
      /\ outcome' = CASE acc' = DivisionByZero -> "failed"
                      [] acc' = Panic -> "panicked"
                      [] OTHER -> "evaluating"
      /\ meaning' = [w \in Assignments |-> Strict1(op, meaning[w])]
  BY DEF Prefix, Record
<1>3. Agrees(acc', meaning')
  <2>1. CASE acc = NonQuadratic
    <3>1. acc' = NonQuadratic
      BY <1>2, <2>1, PrefixUnknown
    <3> QED BY <3>1, UnknownAgrees
  <2>2. CASE IsKnown(acc) /\ \A w \in Assignments : ValueOf(acc, w) = meaning[w]
    <3>1. ASSUME NEW w \in Assignments PROVE meaning'[w] = meaningOfPrefix(op, acc)[w]
      <4>1. meaning[w] = ValueOf(acc, w) /\ meaning[w] # Undefined
        BY <2>2, ValueElement, FieldFacts DEF Elements, Undefined
      <4> QED BY <1>2, <4>1 DEF Strict1, meaningOfPrefix
    <3>2. Means(acc', meaningOfPrefix(op, acc))
      BY <1>2, <2>2, PrefixMeans
    <3> QED BY <3>1, <3>2 DEF Agrees, Means
  <2> QED BY <1>1, <2>1, <2>2 DEF Means
<1> QED BY <1>2, <1>3, RecordStep

LEMMA ConstraintStep ==
    ASSUME IInv, NEW e \in Operands, ConstraintEquality(e)
    PROVE  IInv' /\ outcome' \notin {"failed", "panicked"}
<1> DEFINE difference == Sub(acc, e)
<1>1. Means(acc, meaning) /\ IsKnown(e)
  BY OperandsKnown DEF ConstraintEquality, IInv
<1>2. CASE difference = NonQuadratic
  <2>1. outcome' = "rejected"
    BY <1>2 DEF ConstraintEquality
  <2> QED BY <2>1 DEF IInv, ConstraintMeans
<1>3. CASE difference # NonQuadratic
  <2>1. /\ outcome' = "constrained" /\ emitted' = ToConstraint(difference)
        /\ meaning' = [w \in Assignments |-> Strict2("Sub", meaning[w], ValueOf(e, w))]
    BY <1>3 DEF ConstraintEquality
  <2>2. IsKnown(acc) /\ \A w \in Assignments : ValueOf(acc, w) = meaning[w]
    <3>1. CASE acc = NonQuadratic
      <4>1. ExecuteInfix("Sub", NonQuadratic, e) = NonQuadratic
        BY <1>1, InfixUnknown DEF InfixOps
      <4>2. ExecuteInfix("Sub", NonQuadratic, e) = Sub(NonQuadratic, e)
        BY DEF ExecuteInfix, Comparisons
      <4> QED BY <1>3, <3>1, <4>1, <4>2
    <3> QED BY <1>1, <3>1 DEF Means
  <2>3. /\ IsKnown(difference)
        /\ \A w \in Assignments : ValueOf(difference, w) = (ValueOf(acc, w) - ValueOf(e, w)) % Field
    <3>1. Means(difference, [w \in Assignments |-> (ValueOf(acc, w) - ValueOf(e, w)) % Field])
      BY <1>1, <2>2, SubMeans
    <3> HIDE DEF difference
    <3> QED BY <1>3, <3>1 DEF Means
  <2> HIDE DEF difference
  <2>4. ASSUME NEW w \in Assignments PROVE meaning'[w] = ValueOf(difference, w)
    <3>1. meaning'[w] = Strict2("Sub", ValueOf(acc, w), ValueOf(e, w))
      BY <2>1, <2>2
    <3>2. meaning'[w] = MeaningOfInfix("Sub", ValueOf(acc, w), ValueOf(e, w))
      BY <1>1, <2>2, <3>1, StrictMeans DEF meaningOf
    <3>3. ASSUME NEW x, NEW y PROVE MeaningOfInfix("Sub", x, y) = (x - y) % Field
      BY Zenon DEF MeaningOfInfix
    <3> QED BY <2>3, <3>2, <3>3
  <2>5. \A w \in Assignments : Holds(emitted', w) <=> meaning'[w] = 0
    BY <2>1, <2>3, <2>4, ConstraintHolds
  <2> QED BY <2>1, <2>5 DEF IInv, ConstraintMeans
<1> QED BY <1>2, <1>3

(* A step keeps the invariant and stops only where the property lets it. *)
LEMMA NextIInv ==
    ASSUME IInv, Next
    PROVE  /\ IInv'
           /\ outcome' \in {"failed", "panicked"} =>
                \/ NowUndefined
                \/ \E op \in InfixOps, e \in Operands :
                      \/ InfixRight(op, e) /\ ShiftsTooFar(op, e)
                      \/ InfixLeft(op, e) /\ ShiftsTooFar(op, acc)
<1>1. CASE \E op \in InfixOps, e \in Operands : InfixRight(op, e)
  BY <1>1, InfixRightStep
<1>2. CASE \E op \in InfixOps, e \in Operands : InfixLeft(op, e)
  BY <1>2, InfixLeftStep
<1>3. CASE \E op \in PrefixOps : Prefix(op)
  BY <1>3, PrefixStep
<1>4. CASE \E e \in Operands : ConstraintEquality(e)
  BY <1>4, ConstraintStep
<1> QED BY <1>1, <1>2, <1>3, <1>4 DEF Next

(* The invariant holds of every expression that execute_expression can build. *)
THEOREM IInvHolds == Spec => []IInv
<1>1. IInv /\ [Next]_vars => IInv'
  <2>1. ASSUME IInv, UNCHANGED vars PROVE IInv'
    BY <2>1 DEF vars, IInv, ConstraintMeans, Means
  <2> QED BY <2>1, NextIInv
<1> QED BY <1>1, InitIInv, PTL DEF Spec

(* What the operators of algebra.rs fold an expression to has, at every      *)
(* assignment of the signals, the value of the expression in the source.     *)
THEOREM ExpressionMeansHolds == Spec => []ExpressionMeans
<1>1. IInv => ExpressionMeans
  BY DEF IInv, Means, ExpressionMeans
<1> QED BY <1>1, IInvHolds, PTL

(* The constraint that === adds to the node says that its sides are equal. *)
THEOREM ConstraintMeansHolds == Spec => []ConstraintMeans
<1>1. IInv => ConstraintMeans
  BY DEF IInv
<1> QED BY <1>1, IInvHolds, PTL

(* treat_result_with_arithmetic_error reports, and a remainder aborts, only    *)
(* where no assignment gives the expression a value, or at a shift by an       *)
(* amount, of either sign, that a machine word does not hold.                  *)
THEOREM StopsOnlyWhenUndefinedHolds == Spec => StopsOnlyWhenUndefined
<1>1. IInv /\ [Next]_vars =>
        [outcome' \in {"failed", "panicked"} =>
            \/ \A w \in Assignments : meaning'[w] = Undefined
            \/ \E op \in InfixOps, e \in Operands :
                  \/ InfixRight(op, e) /\ ShiftsTooFar(op, e)
                  \/ InfixLeft(op, e) /\ ShiftsTooFar(op, acc)]_vars
  BY NextIInv DEF NowUndefined
<1> QED BY <1>1, IInvHolds, PTL DEF Spec, StopsOnlyWhenUndefined

-----------------------------------------------------------------------------
(* Constraints and substitutions *)

IsConstraint(con) == IsMap(con.a) /\ IsMap(con.b) /\ IsMap(con.c)

LEMMA EmptyMap ==
    /\ DOMAIN NoKeys = {} /\ IsMap(NoKeys)
    /\ \A m : IsMap(m) /\ DOMAIN m = {} => \A w \in Assignments : SumOver(m, w) = 0
<1>1. DOMAIN NoKeys = {} /\ NoKeys \in [{} -> Elements]
  BY DEF NoKeys
<1>2. IsMap(NoKeys)
  BY <1>1, FS_EmptySet DEF IsMap
<1>3. ASSUME NEW m, IsMap(m), DOMAIN m = {}, NEW w \in Assignments
      PROVE  SumOver(m, w) = 0
  <2> DEFINE K == {}
  <2>0. K \in SUBSET Keys /\ IsFiniteSet(K) /\ DOMAIN m \subseteq K
    BY <1>3, FS_EmptySet
  <2>1. SumOver(m, w) = SumOn(terms(m, w, K), K) % Field
    BY <1>3, <2>0, SumOverKeys
  <2>2. SumOn(terms(m, w, K), K) = 0
    BY SumOfNone
  <2> QED BY <2>1, <2>2, Canonical, FieldFacts
<1> QED BY <1>1, <1>2, <1>3

(* A map without some of its keys. *)
LEMMA PartSum ==
    ASSUME NEW m, IsMap(m), NEW R \in SUBSET DOMAIN m
    PROVE  /\ IsMap([k \in R |-> m[k]])
           /\ \A w \in Assignments :
                SumOver([k \in R |-> m[k]], w) = SumOn(terms(m, w, DOMAIN m), R) % Field
<1> DEFINE K == DOMAIN m
           n == [k \in R |-> m[k]]
<1>1. K \in SUBSET Keys /\ IsFiniteSet(K) /\ \A k \in K : m[k] \in Elements
  BY DEF IsMap
<1>2. IsFiniteSet(R) /\ R \in SUBSET Keys /\ R \in SUBSET K
  BY <1>1, FS_Subset
<1>3. IsMap(n) /\ DOMAIN n = R
  BY <1>1, <1>2 DEF IsMap
<1>4. ASSUME NEW w \in Assignments
      PROVE  SumOver(n, w) = SumOn(terms(m, w, K), R) % Field
  <2> DEFINE f == terms(m, w, K)
             g == terms(n, w, R)
  <2>1. SumOver(n, w) = SumOn(g, R) % Field
    BY <1>2, <1>3, SumOverKeys
  <2>2. \A k \in R : f[k] \in Int /\ g[k] = f[k]
    <3>1. \A k \in K : f[k] \in Int
      BY <1>1, TermsType
    <3>2. \A k \in R : Coefficient(n, k) = Coefficient(m, k)
      BY <1>2, <1>3 DEF Coefficient
    <3> QED BY <1>2, <3>1, <3>2 DEF terms
  <2> HIDE DEF f, g
  <2>3. SumOn(g, R) = SumOn(f, R)
    BY <1>2, <2>2, SumSame
  <2> QED BY <2>1, <2>3 DEF f
<1> QED BY <1>3, <1>4

(* remove_zero_value_coefficients keeps the value. *)
LEMMA RemoveZerosSum ==
    ASSUME NEW m, IsMap(m)
    PROVE  /\ IsMap(RemoveZeros(m)) /\ DOMAIN RemoveZeros(m) \subseteq DOMAIN m
           /\ \A w \in Assignments : SumOver(RemoveZeros(m), w) = SumOver(m, w)
<1> DEFINE K == DOMAIN m
           R == {k \in K : m[k] # 0}
<1>1. RemoveZeros(m) = [k \in R |-> m[k]] /\ R \in SUBSET K
  BY DEF RemoveZeros
<1>2. K \in SUBSET Keys /\ IsFiniteSet(K)
  BY DEF IsMap
<1>3. ASSUME NEW w \in Assignments PROVE SumOver(RemoveZeros(m), w) = SumOver(m, w)
  <2> DEFINE f == terms(m, w, K)
  <2>1. SumOver(m, w) = SumOn(f, K) % Field
    BY <1>2, SumOverKeys
  <2>2. SumOver(RemoveZeros(m), w) = SumOn(f, R) % Field
    BY <1>1, PartSum
  <2>3. \A k \in K : f[k] \in Int
    BY <1>2, TermsType
  <2>4. \A k \in K \ R : f[k] = 0
    <3> SUFFICES ASSUME NEW k \in K \ R PROVE 0 * weight(k, w) = 0
      BY DEF terms, Coefficient
    <3>1. weight(k, w) \in Int
      BY <1>2, WeightType
    <3> QED BY <3>1
  <2> HIDE DEF f, R
  <2>5. SumOn(f, K) = SumOn(f, R)
    BY <1>1, <1>2, <2>3, <2>4, SumSupport
  <2> QED BY <2>1, <2>2, <2>5
<1> QED BY <1>1, <1>3, PartSum

(* A key taken out of a map is a term taken out of its value. *)
LEMMA WithoutSum ==
    ASSUME NEW m, IsMap(m), NEW s \in DOMAIN m
    PROVE  /\ IsMap(Without(m, s)) /\ DOMAIN Without(m, s) = DOMAIN m \ {s}
           /\ \A w \in Assignments :
                SumOver(m, w) = AddMod(MulMod(m[s], weight(s, w)), SumOver(Without(m, s), w))
<1> DEFINE K == DOMAIN m
           R == K \ {s}
           n == Without(m, s)
<1>1. n = [k \in R |-> m[k]] /\ R \in SUBSET K
  BY DEF Without
<1>2. K \in SUBSET Keys /\ IsFiniteSet(K) /\ s \in K /\ s \in Keys /\ m[s] \in Int
  BY FieldFacts DEF IsMap
<1>3. ASSUME NEW w \in Assignments
      PROVE  SumOver(m, w) = AddMod(MulMod(m[s], weight(s, w)), SumOver(n, w))
  <2> DEFINE f == terms(m, w, K)
             x == m[s] * weight(s, w)
             y == SumOn(f, R)
  <2>1. SumOver(m, w) = SumOn(f, K) % Field
    BY <1>2, SumOverKeys
  <2>2. SumOver(n, w) = y % Field
    BY <1>1, PartSum
  <2>3. \A k \in K : f[k] \in Int
    BY <1>2, TermsType
  <2>4. f[s] = x
    BY <1>2 DEF terms, Coefficient
  <2>5. x \in Int /\ MulMod(m[s], weight(s, w)) = x % Field
    BY <1>2, WeightType, ProductFacts DEF MulMod
  <2> HIDE DEF f, n
  <2>6. SumOn(f, K) = x + y
    BY <1>2, <2>3, <2>4, SumWithout
  <2>7. y \in Int
    <3>1. IsFiniteSet(R) /\ \A k \in R : f[k] \in Int
      BY <1>2, <2>3, FS_Subset
    <3> HIDE DEF R
    <3> QED BY <3>1, SumType
  <2> HIDE DEF x, y
  <2>8. AddMod(x % Field, y % Field) = AddMod(x, y)
    BY <2>5, <2>7, Remainder, FieldFacts, ReduceFirst
  <2> QED BY <2>1, <2>2, <2>5, <2>6, <2>8 DEF AddMod
<1> QED BY <1>1, <1>3, PartSum

LEMMA ConstantSum ==
    ASSUME NEW m, IsMap(m), IsConstantMap(m), NEW w \in Assignments
    PROVE  m[One] \in Elements /\ SumOver(m, w) = m[One]
<1>1. m[One] \in Elements /\ m = OneKey(One, m[One])
  BY DEF IsMap, IsConstantMap, OneKey
<1> QED BY <1>1, NumberSum

(* v*M = C as one map. *)
LEMMA ConstantProductHolds ==
    ASSUME NEW v \in Elements, NEW m, IsMap(m), NEW c, IsMap(c)
    PROVE  /\ IsConstraint(ConstantProduct(v, m, c))
           /\ SignalsOf(ConstantProduct(v, m, c)) \subseteq (DOMAIN m \union DOMAIN c) \ {One}
           /\ \A w \in Assignments :
                Holds(ConstantProduct(v, m, c), w) <=> MulMod(v, SumOver(m, w)) = SumOver(c, w)
<1> DEFINE n == Scale(Scale(Initialize(m), v), -1)
           s == AddMaps(n, Initialize(c))
           r == RemoveZeros(s)
           con == ConstantProduct(v, m, c)
<1>0. v \in Int /\ -1 \in Int
  BY FieldFacts
<1>1. IsMap(Initialize(m)) /\ IsMap(Initialize(c))
  BY InitializeSum
<1>2. IsMap(Scale(Initialize(m), v))
  BY <1>0, <1>1, ScaleSum
<1>3. IsMap(n)
  BY <1>0, <1>2, ScaleSum
<1>4. IsMap(s)
  BY <1>1, <1>3, AddMapsSum
<1>5. IsMap(r) /\ con.a = NoKeys /\ con.b = NoKeys /\ con.c = r
  BY <1>4, RemoveZerosSum DEF ConstantProduct, Constraint
<1>6. ASSUME NEW w \in Assignments
      PROVE  Holds(con, w) <=> MulMod(v, SumOver(m, w)) = SumOver(c, w)
  <2> DEFINE p == MulMod(v, SumOver(m, w))
             q == SumOver(c, w)
  <2>1. p \in Elements /\ q \in Elements /\ SumOver(m, w) \in Int
    BY <1>0, SumOverElement, FieldFacts, Closed
  <2>2. SumOver(r, w) = SumOver(s, w)
    BY <1>4, RemoveZerosSum
  <2>3. SumOver(s, w) = AddMod(SumOver(n, w), SumOver(Initialize(c), w))
    BY <1>1, <1>3, AddMapsSum
  <2>4. SumOver(Initialize(c), w) = q /\ SumOver(Initialize(m), w) = SumOver(m, w)
    BY InitializeSum
  <2>5. SumOver(Scale(Initialize(m), v), w) = p
    BY <1>0, <1>1, <2>4, ScaleSum
  <2>6. SumOver(n, w) = MulMod(-1, p)
    BY <1>0, <1>2, <2>5, ScaleSum
  <2>7. SumOver(con.a, w) = 0 /\ SumOver(con.b, w) = 0 /\ SumOver(con.c, w) = SumOver(r, w)
    BY <1>5, EmptyMap
  <2>8. Holds(con, w) <=> 0 = SumOver(r, w)
    BY <2>7, Units, FieldFacts DEF Holds
  <2> HIDE DEF p, q, n, s, r, con
  <2>9. p \in Int /\ q \in Int
    BY <2>1, FieldFacts
  <2>10. MulMod(-1, p) \in Int
    BY <2>9, Closed
  <2>11. SumOver(r, w) = (q - p) % Field
    BY <2>2, <2>3, <2>4, <2>6, <2>9, <2>10, Commute, MinusOne
  <2>12. (q - p) % Field = 0 <=> p = q
    BY <2>1, FieldFacts DEF Elements
  <2> QED BY <2>8, <2>11, <2>12 DEF p, q
<1>7. SignalsOf(con) \subseteq (DOMAIN m \union DOMAIN c) \ {One}
  <2>1. DOMAIN r \subseteq DOMAIN s
    <3> HIDE DEF s
    <3> QED BY <1>4, RemoveZerosSum
  <2>2. DOMAIN s = DOMAIN n \union DOMAIN Initialize(c)
    BY DEF AddMaps
  <2>3. DOMAIN n = DOMAIN Initialize(m)
    BY <1>0, <1>1, <1>2, ScaleSum
  <2>4. DOMAIN Initialize(m) = DOMAIN m \union {One} /\ DOMAIN Initialize(c) = DOMAIN c \union {One}
    BY DEF Initialize
  <2>5. SignalsOf(con) = DOMAIN r \ {One}
    <3> HIDE DEF con, r
    <3> QED BY <1>5, EmptyMap DEF SignalsOf
  <2> HIDE DEF n, s, r, con
  <2> QED BY <2>1, <2>2, <2>3, <2>4, <2>5
<1> QED BY <1>5, <1>6, <1>7, EmptyMap DEF IsConstraint

(* What clean and fix leave says the same. *)
LEMMA FixConstraintHolds ==
    ASSUME NEW con, IsConstraint(con)
    PROVE  /\ IsConstraint(FixConstraint(con))
           /\ SignalsOf(FixConstraint(con)) \subseteq SignalsOf(con)
           /\ \A w \in Assignments : Holds(FixConstraint(con), w) <=> Holds(con, w)
<1> DEFINE k == CleanConstraint(con)
           fixed == FixConstraint(con)
           saysSame(d) == /\ IsConstraint(d) /\ SignalsOf(d) \subseteq SignalsOf(con)
                          /\ \A w \in Assignments : Holds(d, w) <=> Holds(con, w)
<1>1. IsMap(k.a) /\ IsMap(k.b) /\ IsMap(k.c)
  BY RemoveZerosSum DEF CleanConstraint, Constraint, IsConstraint
<1>2. \A w \in Assignments : /\ SumOver(k.a, w) = SumOver(con.a, w)
                             /\ SumOver(k.b, w) = SumOver(con.b, w)
                             /\ SumOver(k.c, w) = SumOver(con.c, w)
  BY RemoveZerosSum DEF CleanConstraint, Constraint, IsConstraint
<1>3. \A w \in Assignments :
        /\ SumOver(k.a, w) \in Int /\ SumOver(k.b, w) \in Int /\ SumOver(k.c, w) \in Elements
  BY <1>1, SumOverElement, FieldFacts
<1>4. \A w \in Assignments :
        Holds(con, w) <=> MulMod(SumOver(k.a, w), SumOver(k.b, w)) = SumOver(k.c, w)
  BY <1>2 DEF Holds
<1>5. fixed = IF DOMAIN k.a = {} \/ DOMAIN k.b = {} THEN Constraint(NoKeys, NoKeys, k.c)
              ELSE IF IsConstantMap(k.a) THEN ConstantProduct(k.a[One], k.b, k.c)
              ELSE IF IsConstantMap(k.b) THEN ConstantProduct(k.b[One], k.a, k.c)
              ELSE k
  BY DEF FixConstraint
<1>10. /\ DOMAIN k.a \subseteq DOMAIN con.a /\ DOMAIN k.b \subseteq DOMAIN con.b
       /\ DOMAIN k.c \subseteq DOMAIN con.c
  BY RemoveZerosSum DEF CleanConstraint, Constraint, IsConstraint
<1> HIDE DEF k, fixed
<1>11. /\ SignalsOf(k) \subseteq SignalsOf(con)
       /\ (DOMAIN k.a \union DOMAIN k.c) \ {One} \subseteq SignalsOf(con)
       /\ (DOMAIN k.b \union DOMAIN k.c) \ {One} \subseteq SignalsOf(con)
  BY <1>10 DEF SignalsOf
<1>6. CASE DOMAIN k.a = {} \/ DOMAIN k.b = {}
  <2> DEFINE d == Constraint(NoKeys, NoKeys, k.c)
  <2>1. d.a = NoKeys /\ d.b = NoKeys /\ d.c = k.c
    BY DEF Constraint
  <2>2. IsConstraint(d)
    BY <1>1, <2>1, EmptyMap DEF IsConstraint
  <2>3. ASSUME NEW w \in Assignments PROVE Holds(d, w) <=> Holds(con, w)
    <3>1. MulMod(SumOver(k.a, w), SumOver(k.b, w)) = 0
      <4>1. SumOver(k.a, w) = 0 \/ SumOver(k.b, w) = 0
        BY <1>1, <1>6, EmptyMap
      <4> QED BY <1>3, <4>1, Units
    <3>2. SumOver(NoKeys, w) = 0
      BY EmptyMap
    <3>3. MulMod(0, 0) = 0
      BY Units
    <3> QED BY <1>4, <2>1, <3>1, <3>2, <3>3 DEF Holds
  <2>5. SignalsOf(d) \subseteq SignalsOf(con)
    <3> HIDE DEF d
    <3> QED BY <1>11, <2>1, EmptyMap DEF SignalsOf
  <2> HIDE DEF d
  <2>4. saysSame(d)
    BY <2>2, <2>3, <2>5
  <2> QED BY <1>5, <1>6, <2>4 DEF d, fixed
<1>7. CASE ~(DOMAIN k.a = {} \/ DOMAIN k.b = {}) /\ IsConstantMap(k.a)
  <2>1. fixed = ConstantProduct(k.a[One], k.b, k.c)
    BY <1>5, <1>7
  <2>2. \A w \in Assignments : k.a[One] \in Elements /\ SumOver(k.a, w) = k.a[One]
    BY <1>1, <1>7, ConstantSum
  <2>3. k.a[One] \in Elements
    BY <1>1, <1>7 DEF IsMap, IsConstantMap
  <2>4. saysSame(fixed)
    BY <1>1, <1>4, <1>11, <2>1, <2>2, <2>3, ConstantProductHolds
  <2> QED BY <2>4 DEF fixed
<1>8. CASE ~(DOMAIN k.a = {} \/ DOMAIN k.b = {}) /\ ~IsConstantMap(k.a) /\ IsConstantMap(k.b)
  <2>1. fixed = ConstantProduct(k.b[One], k.a, k.c)
    BY <1>5, <1>8
  <2>2. \A w \in Assignments : SumOver(k.b, w) = k.b[One]
    BY <1>1, <1>8, ConstantSum
  <2>3. k.b[One] \in Elements
    BY <1>1, <1>8 DEF IsMap, IsConstantMap
  <2>4. \A w \in Assignments :
          MulMod(SumOver(k.a, w), SumOver(k.b, w)) = MulMod(k.b[One], SumOver(k.a, w))
    BY <1>3, <2>2, Commute
  <2>5. saysSame(fixed)
    BY <1>1, <1>4, <1>11, <2>1, <2>3, <2>4, ConstantProductHolds
  <2> QED BY <2>5 DEF fixed
<1>9. CASE ~(DOMAIN k.a = {} \/ DOMAIN k.b = {}) /\ ~IsConstantMap(k.a) /\ ~IsConstantMap(k.b)
  <2>1. fixed = k
    BY <1>5, <1>9
  <2>2. saysSame(k)
    BY <1>1, <1>4, <1>11 DEF IsConstraint, Holds
  <2> QED BY <2>1, <2>2 DEF fixed
<1> QED BY <1>6, <1>7, <1>8, <1>9

(* What signal s holds matters only to the maps that mention it. *)
LEMMA Unmentioned ==
    ASSUME NEW m, IsMap(m), NEW s \in Signals, s \notin DOMAIN m,
           NEW w \in Assignments, NEW v \in Elements
    PROVE  SumOver(m, [w EXCEPT ![s] = v]) = SumOver(m, w)
<1> DEFINE u == [w EXCEPT ![s] = v]
           K == DOMAIN m
<1>1. \A k \in K : k # s /\ (k = One \/ k \in Signals)
  BY DEF IsMap, Keys
<1>2. \A k \in K : k # One => u[k] = w[k]
  BY <1>1 DEF Assignments
<1>3. [k \in K |-> m[k] * (IF k = One THEN 1 ELSE u[k])]
        = [k \in K |-> m[k] * (IF k = One THEN 1 ELSE w[k])]
  BY <1>2
<1> QED BY <1>3 DEF SumOver

(* Substituting is evaluating where the signal has the value of its map.   *)
LEMMA SubstituteSum ==
    ASSUME NEW m, IsMap(m), NEW s \in Signals, NEW to, IsMap(to)
    PROVE  LET new == SubstituteInMap(m, Substitution(s, to))
           IN /\ IsMap(new)
              /\ DOMAIN new \subseteq (DOMAIN m \ {s}) \union DOMAIN to \union {One}
              /\ \A w \in Assignments :
                   SumOver(new, w) = SumOver(m, [w EXCEPT ![s] = SumOver(to, w)])
<1> DEFINE new == SubstituteInMap(m, Substitution(s, to))
<1>1. CASE s \notin DOMAIN m
  <2>1. new = Initialize(m)
    BY <1>1 DEF SubstituteInMap, Substitution
  <2>2. DOMAIN new = DOMAIN m \union {One}
    BY <2>1 DEF Initialize
  <2>3. \A w \in Assignments :
          SumOver(new, w) = SumOver(m, [w EXCEPT ![s] = SumOver(to, w)])
    BY <1>1, <2>1, InitializeSum, Unmentioned, SumOverElement
  <2>4. IsMap(new)
    BY <2>1, InitializeSum
  <2>5. DOMAIN new \subseteq (DOMAIN m \ {s}) \union DOMAIN to \union {One}
    <3> HIDE DEF new
    <3> QED BY <1>1, <2>2
  <2> QED BY <2>3, <2>4, <2>5
<1>2. CASE s \in DOMAIN m
  <2> DEFINE rest == Without(m, s)
             p == Scale(Initialize(to), m[s])
             q == Initialize(rest)
  <2>1. new = AddMaps(p, q)
    BY <1>2 DEF SubstituteInMap, Substitution
  <2>2. m[s] \in Int /\ s \in Keys /\ s # One
    BY <1>2, SignalsAssumption, FieldFacts DEF IsMap, Keys, One
  <2>3. IsMap(rest) /\ DOMAIN rest = DOMAIN m \ {s}
    BY <1>2, WithoutSum
  <2>4. IsMap(Initialize(to)) /\ IsMap(q) /\ DOMAIN Initialize(to) = DOMAIN to \union {One}
        /\ DOMAIN q = DOMAIN rest \union {One}
    <3> HIDE DEF rest
    <3> QED BY <2>3, InitializeSum DEF Initialize
  <2>5. IsMap(p) /\ DOMAIN p = DOMAIN to \union {One}
    BY <2>2, <2>4, ScaleSum
  <2>6. IsMap(new)
    BY <2>1, <2>4, <2>5, AddMapsSum
  <2>7. DOMAIN new = DOMAIN p \union DOMAIN q
    <3> HIDE DEF p, q
    <3> QED BY <2>1 DEF AddMaps
  <2>8. DOMAIN new \subseteq (DOMAIN m \ {s}) \union DOMAIN to \union {One}
    <3> HIDE DEF new, p, q, rest
    <3> QED BY <2>3, <2>4, <2>5, <2>7
  <2>9. ASSUME NEW w \in Assignments
        PROVE  SumOver(new, w) = SumOver(m, [w EXCEPT ![s] = SumOver(to, w)])
    <3> DEFINE v == SumOver(to, w)
               u == [w EXCEPT ![s] = v]
               r == SumOver(rest, w)
    <3>1. v \in Elements /\ v \in Int
      BY SumOverElement, FieldFacts
    <3>2. u \in Assignments /\ u[s] = v
      BY <3>1 DEF Assignments
    <3>3. SumOver(p, w) = MulMod(m[s], v)
      BY <2>2, <2>4, ScaleSum, InitializeSum
    <3>4. SumOver(q, w) = r
      BY <2>3, InitializeSum
    <3>5. SumOver(new, w) = AddMod(MulMod(m[s], v), r)
      BY <2>1, <2>4, <2>5, <3>3, <3>4, AddMapsSum
    <3>6. s \notin DOMAIN rest
      BY <2>3
    <3>7. SumOver(rest, u) = r
      <4> HIDE DEF rest
      <4> QED BY <2>3, <3>1, <3>6, Unmentioned
    <3>8. SumOver(m, u) = AddMod(MulMod(m[s], weight(s, u)), SumOver(rest, u))
      <4>1. \A a \in Assignments :
              SumOver(m, a) = AddMod(MulMod(m[s], weight(s, a)), SumOver(Without(m, s), a))
        BY <1>2, WithoutSum, Zenon
      <4> HIDE DEF u
      <4> QED BY <3>2, <4>1
    <3>9. weight(s, u) = v
      BY <2>2, <3>2 DEF weight
    <3>10. SumOver(new, w) = SumOver(m, u)
      <4> HIDE DEF new, r, v, u, rest
      <4> QED BY <3>5, <3>7, <3>8, <3>9
    <3> QED BY <3>10
  <2> QED BY <2>6, <2>8, <2>9
<1> QED BY <1>1, <1>2

-----------------------------------------------------------------------------
(* Solving a linear constraint for a signal *)

(* What solving a linear constraint takes: a signal it mentions. *)
Solvable(con, s) ==
    /\ IsConstraint(con) /\ IsLinear(con)
    /\ s \in Signals /\ s \in DOMAIN con.c /\ con.c[s] # 0

LEMMA UnnormalizedSolves ==
    ASSUME NEW con, NEW s, Solvable(con, s)
    PROVE  LET raw == ClearSignalNotNormalized(con, s)
           IN /\ raw.coefficient \in Elements /\ raw.coefficient \in Int /\ raw.coefficient # 0
              /\ raw.sub = Substitution(s, raw.sub.to) /\ IsMap(raw.sub.to)
              /\ DOMAIN raw.sub.to = (DOMAIN con.c \ {s}) \union {One} /\ s \notin DOMAIN raw.sub.to
              /\ \A w \in Assignments :
                   Holds(con, w) <=> MulMod(w[s], raw.coefficient) = SumOver(raw.sub.to, w)
<1> DEFINE c == con.c
           rest == Without(c, s)
           k == MulMod(c[s], -1)
           raw == ClearSignalNotNormalized(con, s)
           to == raw.sub.to
<1>1. raw.coefficient = k /\ raw.sub = Substitution(s, to) /\ to = Initialize(rest)
  BY DEF ClearSignalNotNormalized, Substitution
<1>2. IsMap(c) /\ c[s] \in Elements /\ c[s] \in Int /\ s \in Keys /\ s # One /\ -1 \in Int
  <2>1. IsMap(c)
    BY DEF IsConstraint, Solvable
  <2>2. c[s] \in Elements
    <3>1. s \in DOMAIN c
      BY DEF Solvable
    <3> HIDE DEF c
    <3> QED BY <2>1, <3>1 DEF IsMap
  <2>3. s \in Keys /\ s # One
    BY SignalsAssumption DEF Keys, One, Solvable
  <2>4. -1 \in Int
    OBVIOUS
  <2>5. Elements \subseteq Int
    BY FieldFacts
  <2> HIDE DEF c
  <2> QED BY <2>1, <2>2, <2>3, <2>4, <2>5, Zenon
<1>3. k = (-c[s]) % Field /\ k \in Elements /\ k \in Int
  BY <1>2, MinusOne, Closed
<1>4. k # 0
  <2> DEFINE x == c[s]
  <2>1. x \in Elements /\ x # 0
    BY <1>2 DEF Solvable
  <2> HIDE DEF k, c, x
  <2>2. x \in Int /\ 0 < x /\ x < Field /\ Field \in Nat
    BY <2>1, FieldFacts DEF Elements
  <2>3. (-x) % Field = Field - x
    BY <2>2
  <2> QED BY <1>3, <2>2, <2>3 DEF x
<1>5. s \in DOMAIN c /\ s \in Signals
  BY DEF Solvable
<1>6. IsMap(rest) /\ DOMAIN rest = DOMAIN c \ {s}
  BY <1>2, <1>5, WithoutSum
<1> HIDE DEF to, rest, raw, c, k
<1>7. IsMap(to) /\ DOMAIN to = (DOMAIN c \ {s}) \union {One} /\ s \notin DOMAIN to
  <2>1. IsMap(to) /\ DOMAIN to = DOMAIN rest \union {One}
    BY <1>1, <1>6, InitializeSum DEF Initialize
  <2> QED BY <1>2, <1>6, <2>1
<1>8. ASSUME NEW w \in Assignments
      PROVE  Holds(con, w) <=> MulMod(w[s], k) = SumOver(to, w)
  <2> DEFINE x == w[s]
             r == SumOver(to, w)
             p == MulMod(c[s], x)
  <2>1. x \in Elements /\ r \in Elements
    BY <1>5, <1>7, SumOverElement DEF Assignments
  <2>2. r = SumOver(rest, w)
    BY <1>1, <1>6, InitializeSum
  <2>3. SumOver(c, w) = AddMod(p, r)
    <3>1. weight(s, w) = x
      BY <1>2 DEF weight
    <3>2. \A a \in Assignments :
            SumOver(c, a) = AddMod(MulMod(c[s], weight(s, a)), SumOver(Without(c, s), a))
      BY <1>2, <1>5, WithoutSum, Zenon
    <3> QED BY <2>2, <3>1, <3>2 DEF rest
  <2>4. Holds(con, w) <=> 0 = SumOver(c, w)
    <3>1. SumOver(con.a, w) = 0 /\ SumOver(con.b, w) = 0
      BY EmptyMap DEF IsConstraint, IsLinear, Solvable
    <3> QED BY <3>1, Units, FieldFacts DEF Holds, c
  <2> HIDE DEF x, r, p
  <2>5. x \in Int /\ r \in Int
    BY <2>1, FieldFacts
  <2>6. p \in Elements /\ p \in Int
    BY <1>2, <2>5, Closed DEF p
  <2>7. 0 = AddMod(p, r) <=> r = (-p) % Field
    BY <2>1, <2>6, FieldFacts DEF Elements, AddMod
  <2>8. MulMod(x, k) = (-p) % Field
    <3>1. MulMod(MulMod(x, c[s]), -1) = (x * c[s] * (-1)) % Field
      BY <1>2, <2>5, Associate
    <3>2. MulMod(x, MulMod(c[s], -1)) = (x * c[s] * (-1)) % Field
      BY <1>2, <2>5, Associate
    <3>3. MulMod(x, c[s]) = p
      BY <1>2, <2>5, Commute DEF p
    <3>4. MulMod(p, -1) = (-p) % Field
      BY <2>6, MinusOne
    <3> QED BY <3>1, <3>2, <3>3, <3>4 DEF k
  <2> QED BY <2>3, <2>4, <2>7, <2>8 DEF x, r
<1> QED BY <1>1, <1>3, <1>4, <1>7, <1>8 DEF to, raw, c

(* Dividing by k is multiplying by its inverse. *)
LEMMA Divided ==
    ASSUME NEW k \in Elements, k # 0, NEW x \in Elements, NEW r \in Elements
    PROVE  /\ DivMod(1, k) \in Elements /\ DivMod(1, k) \in Int
           /\ MulMod(x, k) = r <=> x = MulMod(DivMod(1, k), r)
<1> DEFINE i == DivMod(1, k)
<1>1. k \in Int /\ x \in Int /\ r \in Int
  BY FieldFacts
<1>2. i \in Elements /\ i \in Int /\ MulMod(i, k) = 1
  <2>1. 1 \in Int /\ 1 % Field = 1
    BY Canonical, FieldFacts
  <2> QED BY <2>1, DivModValue, FieldFacts
<1> HIDE DEF i
<1>3. MulMod(MulMod(i, r), k) = r
  <2>1. MulMod(i, r) = MulMod(r, i)
    BY <1>1, <1>2, Commute
  <2>2. MulMod(MulMod(r, i), k) = (r * i * k) % Field
    BY <1>1, <1>2, Associate
  <2>3. MulMod(r, MulMod(i, k)) = (r * i * k) % Field
    BY <1>1, <1>2, Associate
  <2>4. MulMod(r, 1) = r
    BY <1>1, Units, Canonical
  <2> QED BY <1>2, <2>1, <2>2, <2>3, <2>4
<1>4. MulMod(i, r) \in Elements
  BY <1>1, <1>2, Closed
<1>5. x = MulMod(i, r) <=> MulMod(x, k) = r
  BY <1>3, <1>4, Cancel
<1> QED BY <1>2, <1>5 DEF i

(* A substitution that says of its signal what the constraint says. *)
Solves(sub, con, s) ==
    /\ sub = Substitution(s, sub.to) /\ IsMap(sub.to) /\ s \notin DOMAIN sub.to
    /\ \A w \in Assignments : Holds(con, w) <=> w[s] = SumOver(sub.to, w)

LEMMA ClearSignalSolves ==
    ASSUME NEW con, NEW s, Solvable(con, s)
    PROVE  Solves(ClearSignal(con, s), con, s)
<1> DEFINE raw == ClearSignalNotNormalized(con, s)
           k == raw.coefficient
           i == DivMod(1, k)
           scaled == Scale(raw.sub.to, i)
           sub == ClearSignal(con, s)
<1>1. sub = Substitution(s, sub.to) /\ sub.to = RemoveZeros(scaled)
  BY DEF ClearSignal, Substitution
<1>2. /\ k \in Elements /\ k \in Int /\ k # 0
      /\ IsMap(raw.sub.to) /\ s \notin DOMAIN raw.sub.to /\ s \in Signals
      /\ \A w \in Assignments : Holds(con, w) <=> MulMod(w[s], k) = SumOver(raw.sub.to, w)
  BY UnnormalizedSolves DEF Solvable
<1> HIDE DEF raw, k, sub
<1>3. i \in Int
  BY <1>2, Divided, FieldFacts
<1> HIDE DEF i
<1>4. /\ IsMap(scaled) /\ DOMAIN scaled = DOMAIN raw.sub.to
      /\ \A w \in Assignments : SumOver(scaled, w) = MulMod(i, SumOver(raw.sub.to, w))
  BY <1>2, <1>3, ScaleSum
<1> HIDE DEF scaled
<1>5. IsMap(sub.to) /\ s \notin DOMAIN sub.to
  BY <1>1, <1>2, <1>4, RemoveZerosSum
<1>6. ASSUME NEW w \in Assignments
      PROVE  Holds(con, w) <=> w[s] = SumOver(sub.to, w)
  <2>1. w[s] \in Elements /\ SumOver(raw.sub.to, w) \in Elements
    BY <1>2, SumOverElement DEF Assignments
  <2>2. MulMod(w[s], k) = SumOver(raw.sub.to, w) <=> w[s] = MulMod(i, SumOver(raw.sub.to, w))
    BY <1>2, <2>1, Divided DEF i
  <2>3. SumOver(sub.to, w) = MulMod(i, SumOver(raw.sub.to, w))
    BY <1>1, <1>4, RemoveZerosSum
  <2> QED BY <1>2, <2>2, <2>3
<1> QED BY <1>1, <1>5, <1>6 DEF Solves, sub

-----------------------------------------------------------------------------
(* Affine expressions and the keys they mention *)

AffineOver(e, K) == IsKnown(e) /\ ~IsSquare(e) /\ DOMAIN MapOf(e) \subseteq K

LEMMA NumberAffine ==
    ASSUME NEW v \in Elements, NEW K, One \in K
    PROVE  AffineOver(Number(v), K)
<1> DEFINE e == Number(v)
<1>1. e \in Numbers /\ IsKnown(e)
  BY NumberMeans
<1> HIDE DEF e
<1>2. MapOf(e) = OneKey(One, e.value) /\ ~IsSquare(e)
  BY <1>1, NumberShape, SquareShape
<1>3. DOMAIN MapOf(e) = {One}
  BY <1>2 DEF OneKey
<1> QED BY <1>1, <1>2, <1>3 DEF AffineOver, e

LEMMA LineAffine ==
    ASSUME NEW m, IsMap(m), NEW K, DOMAIN m \subseteq K
    PROVE  AffineOver(Linear(m), K)
<1> DEFINE e == Linear(m)
<1>1. IsLine(e) /\ IsKnown(e) /\ e.c = m
  BY DEF IsLine, IsKnown, Linear
<1> HIDE DEF e
<1>2. MapOf(e) = m /\ ~IsSquare(e)
  BY <1>1, LineShape, SquareShape
<1> QED BY <1>1, <1>2 DEF AffineOver, e

LEMMA ScaleAffine ==
    ASSUME NEW v \in Int, NEW K, One \in K, NEW e, AffineOver(e, K)
    PROVE  AffineOver(ScaleExpr(v, e), K)
<1>1. CASE e \in Numbers
  <2>1. e.kind = "Number" /\ e.value \in Int
    BY <1>1, NumberShape
  <2>2. ScaleExpr(v, e) = Number(MulMod(v, e.value)) /\ MulMod(v, e.value) \in Elements
    BY <2>1, Closed DEF ScaleExpr
  <2> QED BY <2>2, NumberAffine
<1>2. CASE e \in Names \/ IsLine(e)
  <2>1. e.kind \in {"Signal", "Linear"} /\ IsMap(MapOf(e))
    BY <1>2, NameShape, LineShape
  <2>2. ScaleExpr(v, e) = Linear(Scale(MapOf(e), v))
    BY <2>1 DEF ScaleExpr
  <2>3. IsMap(Scale(MapOf(e), v)) /\ DOMAIN Scale(MapOf(e), v) \subseteq K
    BY <2>1, ScaleSum DEF AffineOver
  <2> QED BY <2>2, <2>3, LineAffine
<1> QED BY <1>1, <1>2 DEF AffineOver, IsKnown

LEMMA AddAffine ==
    ASSUME NEW K, One \in K, NEW l, AffineOver(l, K), NEW r, AffineOver(r, K)
    PROVE  AffineOver(Add(l, r), K)
<1>1. /\ IsAffine(l) /\ IsMap(MapOf(l)) /\ DOMAIN MapOf(l) \subseteq K
      /\ IsAffine(r) /\ IsMap(MapOf(r)) /\ DOMAIN MapOf(r) \subseteq K
  BY AffineShape DEF AffineOver
<1>2. CASE l \in Numbers /\ r \in Numbers
  <2> DEFINE v == AddMod(l.value, r.value)
  <2>1. l.kind = "Number" /\ r.kind = "Number" /\ l.value \in Int /\ r.value \in Int
    BY <1>2, NumberShape
  <2>2. Add(l, r) = Number(v) /\ v \in Elements
    BY <2>1, Closed DEF Add
  <2> QED BY <2>2, NumberAffine
<1>3. CASE ~(l \in Numbers /\ r \in Numbers)
  <2>1. ~(l.kind = "Number" /\ r.kind = "Number")
    BY <1>3, NameShape, LineShape DEF IsKnown, AffineOver
  <2> DEFINE m == AddMaps(MapOf(l), MapOf(r))
  <2>2. Add(l, r) = Linear(m)
    <3>1. {l.kind, r.kind} # {"Number"}
      BY <2>1
    <3>2. l.kind # "Quadratic" /\ r.kind # "Quadratic"
      BY <1>1 DEF IsAffine
    <3> QED BY <1>1, <2>1, <3>1, <3>2 DEF Add
  <2>3. IsMap(m)
    BY <1>1, AddMapsSum
  <2>4. DOMAIN m \subseteq K
    BY <1>1 DEF AddMaps
  <2> HIDE DEF m
  <2> QED BY <2>2, <2>3, <2>4, LineAffine
<1> QED BY <1>2, <1>3

(* hashmap_into_arith: the smallest form keeps the value. *)
LEMMA IntoArithMeans ==
    ASSUME NEW m, IsMap(m)
    PROVE  /\ AffineOver(IntoArith(m), DOMAIN m \union {One})
           /\ \A w \in Assignments : ValueOf(IntoArith(m), w) = SumOver(m, w)
<1> DEFINE e == IntoArith(m)
           K == DOMAIN m \union {One}
           k == CHOOSE j \in DOMAIN m : TRUE
           single == One \notin DOMAIN m /\ Cardinality(DOMAIN m) = 1 /\ m[k] = 1
<1>1. CASE DOMAIN m = {One}
  <2>1. e = Number(m[One])
    BY <1>1, Zenon DEF IntoArith
  <2>2. IsConstantMap(m) /\ m[One] \in Elements
    BY <1>1 DEF IsConstantMap, IsMap
  <2> QED BY <2>1, <2>2, ConstantSum, NumberMeans, NumberAffine
<1>2. CASE DOMAIN m # {One} /\ single
  <2>1. e = Signal(k)
    BY <1>2, Zenon DEF IntoArith
  <2>2. PICK j : DOMAIN m = {j}
    BY <1>2, FS_Singleton DEF IsMap
  <2>3. k = j /\ DOMAIN m = {k}
    BY <2>2
  <2>4. k \in Signals
    BY <1>2, <2>3 DEF IsMap, Keys
  <2> HIDE DEF k
  <2>5. m = OneKey(k, 1)
    BY <1>2, <2>3 DEF OneKey, IsMap
  <2>6. e \in Names /\ e.symbol = k
    BY <2>1, <2>4 DEF Names, Signal
  <2> HIDE DEF e
  <2>7. /\ MapOf(e) = Initialize(m)
        /\ \A w \in Assignments : ValueOf(e, w) = SumOver(MapOf(e), w)
    BY <2>5, <2>6, NameShape
  <2>8. IsKnown(e) /\ ~IsSquare(e)
    <3>1. e.kind = "Signal"
      BY <2>6, NameShape
    <3> QED BY <2>6, <3>1, SquareShape DEF IsKnown
  <2>9. DOMAIN MapOf(e) = K
    BY <2>7 DEF Initialize
  <2>10. \A w \in Assignments : SumOver(MapOf(e), w) = SumOver(m, w)
    BY <2>7, InitializeSum
  <2> QED BY <2>7, <2>8, <2>9, <2>10 DEF e, AffineOver
<1>3. CASE DOMAIN m # {One} /\ ~single
  <2>1. e = Linear(Initialize(m))
    BY <1>3, Zenon DEF IntoArith
  <2>2. DOMAIN Initialize(m) = K
    BY DEF Initialize
  <2>3. IsMap(Initialize(m)) /\ \A w \in Assignments : SumOver(Initialize(m), w) = SumOver(m, w)
    BY InitializeSum
  <2> QED BY <2>1, <2>2, <2>3, LineMeans, LineAffine
<1> HIDE DEF e, K, single
<1> QED BY <1>1, <1>2, <1>3 DEF e, K

(* Substitution::new keeps the value and the keys. *)
LEMMA NewSubstitutionMeans ==
    ASSUME NEW s, NEW K, NEW e, AffineOver(e, K)
    PROVE  LET sub == NewSubstitution(s, e)
           IN /\ sub = Substitution(s, sub.to) /\ IsMap(sub.to) /\ DOMAIN sub.to \subseteq K
              /\ \A w \in Assignments : SumOver(sub.to, w) = ValueOf(e, w)
<1> DEFINE sub == NewSubstitution(s, e)
           to == IF e.kind = "Signal" THEN OneKey(e.symbol, 1) ELSE MapOf(e)
<1>1. sub = Substitution(s, to) /\ sub.to = to
  BY DEF NewSubstitution, Substitution
<1>2. /\ IsMap(MapOf(e)) /\ DOMAIN MapOf(e) \subseteq K
      /\ \A w \in Assignments : ValueOf(e, w) = SumOver(MapOf(e), w)
  BY AffineShape DEF AffineOver
<1>3. CASE e \in Names
  <2>1. e.kind = "Signal" /\ e.symbol \in Signals /\ MapOf(e) = Initialize(OneKey(e.symbol, 1))
    BY <1>3, NameShape
  <2>2. IsMap(OneKey(e.symbol, 1)) /\ to = OneKey(e.symbol, 1)
    BY <2>1, OneKeySum, FieldFacts DEF Keys
  <2>3. DOMAIN to \subseteq K
    BY <1>2, <2>1, <2>2 DEF Initialize
  <2>4. \A w \in Assignments : SumOver(to, w) = ValueOf(e, w)
    BY <1>2, <2>1, <2>2, InitializeSum
  <2> HIDE DEF to, sub
  <2> QED BY <1>1, <2>2, <2>3, <2>4 DEF sub
<1>4. CASE e \notin Names
  <2>1. to = MapOf(e)
    BY <1>4, NumberShape, LineShape DEF IsKnown, AffineOver
  <2> HIDE DEF to, sub
  <2> QED BY <1>1, <1>2, <2>1 DEF sub
<1> QED BY <1>3, <1>4

LEMMA MulNumber ==
    ASSUME NEW v \in Elements, NEW K, One \in K, NEW e, AffineOver(e, K)
    PROVE  /\ AffineOver(Mul(e, Number(v)), K)
           /\ \A w \in Assignments : ValueOf(Mul(e, Number(v)), w) = MulMod(v, ValueOf(e, w))
<1>1. v \in Int /\ IsKnown(e) /\ IsKnown(Number(v)) /\ Number(v) \in Numbers
  BY NumberMeans, FieldFacts DEF AffineOver
<1>2. \A w \in Assignments : ValueOf(Number(v), w) = v /\ ValueOf(e, w) \in Int
  BY <1>1, NumberMeans, ValueElement
<1>3. CASE e \in Numbers
  <2>1. e.kind = "Number" /\ e.value \in Int /\ \A w \in Assignments : ValueOf(e, w) = e.value
    BY <1>3, NumberShape
  <2>2. Mul(e, Number(v)) = ScaleExpr(e.value, Number(v))
    BY <2>1, Zenon DEF Mul
  <2>3. \A w \in Assignments : ValueOf(ScaleExpr(e.value, Number(v)), w) = MulMod(e.value, v)
    BY <1>1, <1>2, <2>1, ScaleMeans
  <2>4. AffineOver(ScaleExpr(e.value, Number(v)), K)
    BY <2>1, NumberAffine, ScaleAffine
  <2>5. MulMod(e.value, v) = MulMod(v, e.value)
    BY <1>1, <2>1, Commute
  <2> QED BY <2>1, <2>2, <2>3, <2>4, <2>5
<1>4. CASE e \notin Numbers
  <2>1. e.kind # "Number" /\ Number(v).kind = "Number" /\ Number(v).value = v
    BY <1>4, NameShape, LineShape DEF IsKnown, AffineOver, Number
  <2>2. Mul(e, Number(v)) = ScaleExpr(v, e)
    BY <2>1 DEF Mul
  <2> QED BY <1>1, <2>2, ScaleMeans, ScaleAffine
<1> QED BY <1>3, <1>4

(* What normalizing makes of the unnormalized substitution. *)
Normalized(con, s) ==
    LET raw == ClearSignalNotNormalized(con, s)
    IN NewSubstitution(s, Mul(IntoArith(raw.sub.to), Number(DivMod(1, raw.coefficient))))

LEMMA NormalizedSolves ==
    ASSUME NEW con, NEW s, Solvable(con, s)
    PROVE  Solves(Normalized(con, s), con, s)
<1> DEFINE raw == ClearSignalNotNormalized(con, s)
           k == raw.coefficient
           i == DivMod(1, k)
           K == DOMAIN raw.sub.to
           e == IntoArith(raw.sub.to)
           d == Mul(e, Number(i))
           sub == NewSubstitution(s, d)
<1>1. /\ k \in Elements /\ k \in Int /\ k # 0 /\ K = (DOMAIN con.c \ {s}) \union {One}
      /\ IsMap(raw.sub.to) /\ s \notin K /\ s \in Signals
      /\ \A w \in Assignments : Holds(con, w) <=> MulMod(w[s], k) = SumOver(raw.sub.to, w)
  BY UnnormalizedSolves DEF Solvable
<1>2. Normalized(con, s) = sub
  BY DEF Normalized
<1> HIDE DEF raw, k, K
<1>3. i \in Elements
  BY <1>1, Divided, FieldFacts
<1>4. One \in K /\ K \union {One} = K
  BY <1>1
<1>5. /\ AffineOver(e, K)
      /\ \A w \in Assignments : ValueOf(e, w) = SumOver(raw.sub.to, w)
  BY <1>1, <1>4, IntoArithMeans DEF K
<1> HIDE DEF e, i
<1>6. AffineOver(d, K) /\ \A w \in Assignments : ValueOf(d, w) = MulMod(i, ValueOf(e, w))
  BY <1>3, <1>4, <1>5, MulNumber
<1> HIDE DEF d
<1>7. /\ sub = Substitution(s, sub.to) /\ IsMap(sub.to) /\ DOMAIN sub.to \subseteq K
      /\ \A w \in Assignments : SumOver(sub.to, w) = ValueOf(d, w)
  BY <1>6, NewSubstitutionMeans
<1> HIDE DEF sub
<1>8. ASSUME NEW w \in Assignments
      PROVE  Holds(con, w) <=> w[s] = SumOver(sub.to, w)
  <2>1. w[s] \in Elements /\ SumOver(raw.sub.to, w) \in Elements
    BY <1>1, SumOverElement DEF Assignments
  <2> DEFINE x == w[s]
             r == SumOver(raw.sub.to, w)
  <2>2. MulMod(x, k) = r <=> x = MulMod(i, r)
    <3>1. x \in Elements /\ r \in Elements /\ k \in Elements /\ k # 0
      BY <1>1, <2>1
    <3> HIDE DEF x, r
    <3> QED BY <3>1, Divided DEF i
  <2>3. SumOver(sub.to, w) = MulMod(i, SumOver(raw.sub.to, w))
    BY <1>5, <1>6, <1>7
  <2> QED BY <1>1, <2>2, <2>3
<1> QED BY <1>1, <1>2, <1>7, <1>8 DEF Solves

-----------------------------------------------------------------------------
(* Elimination *)

(* One step of the elimination, for every prime and every number of signals: *)
(* a linear constraint is solved for a signal, at once or divided out later   *)
(* (algebra.rs 1056-1077, simplification_utils.rs), the signal is replaced in *)
(* another constraint and that is put in order (algebra.rs 1138-1147,         *)
(* 1309-1324).  The signal is gone; an assignment satisfies the new           *)
(* constraint exactly when, completed with the value computed for the signal, *)
(* it satisfies the old two; and the old two leave the signal no other value. *)
THEOREM EliminationKeepsSolutions ==
    ASSUME NEW con, NEW s, Solvable(con, s),
           NEW sub \in {ClearSignal(con, s), Normalized(con, s)},
           NEW other, IsConstraint(other)
    PROVE  LET new == FixConstraint(Substitute(other, sub))
               completed(w) == [w EXCEPT ![s] = SumOver(sub.to, w)]
           IN /\ IsConstraint(new) /\ s \notin SignalsOf(new)
              /\ \A w \in Assignments :
                   /\ Holds(new, w) <=> Holds(con, completed(w)) /\ Holds(other, completed(w))
                   /\ Holds(con, w) <=> w = completed(w)
<1> DEFINE to == sub.to
           raw == Substitute(other, sub)
           new == FixConstraint(raw)
           completed(w) == [w EXCEPT ![s] = SumOver(to, w)]
<1>1. /\ sub = Substitution(s, to) /\ IsMap(to) /\ s \notin DOMAIN to
      /\ \A w \in Assignments : Holds(con, w) <=> w[s] = SumOver(to, w)
  BY ClearSignalSolves, NormalizedSolves DEF Solves
<1>0. s \in Signals
  BY DEF Solvable
<1>2. s # One
  BY <1>0, SignalsAssumption DEF One
<1>3. \A w \in Assignments : completed(w) \in Assignments /\ completed(w)[s] = SumOver(to, w)
  BY <1>0, <1>1, SumOverElement DEF Assignments
<1>4. \A w \in Assignments : SumOver(to, completed(w)) = SumOver(to, w)
  BY <1>0, <1>1, SumOverElement, Unmentioned
<1>5. \A w \in Assignments : Holds(con, w) <=> w = completed(w)
  <2> SUFFICES ASSUME NEW w \in Assignments PROVE w[s] = SumOver(to, w) <=> w = completed(w)
    BY <1>1
  <2>1. w[s] = SumOver(to, w) => w = completed(w)
    BY DEF Assignments
  <2>2. w = completed(w) => w[s] = completed(w)[s]
    OBVIOUS
  <2> QED BY <1>3, <2>1, <2>2
<1>6. \A w \in Assignments : Holds(con, completed(w))
  BY <1>1, <1>3, <1>4
<1>7. raw = Constraint(SubstituteInMap(other.a, Substitution(s, to)),
                       SubstituteInMap(other.b, Substitution(s, to)),
                       SubstituteInMap(other.c, Substitution(s, to)))
  BY <1>1 DEF Substitute
<1>8. /\ raw.a = SubstituteInMap(other.a, Substitution(s, to))
      /\ raw.b = SubstituteInMap(other.b, Substitution(s, to))
      /\ raw.c = SubstituteInMap(other.c, Substitution(s, to))
  BY <1>7 DEF Constraint
<1> HIDE DEF raw
<1>9. IsMap(other.a) /\ IsMap(other.b) /\ IsMap(other.c)
  BY DEF IsConstraint
<1>10. IsConstraint(raw) /\ s \notin SignalsOf(raw)
  <2>1. /\ IsMap(raw.a) /\ DOMAIN raw.a \subseteq (DOMAIN other.a \ {s}) \union DOMAIN to \union {One}
        /\ IsMap(raw.b) /\ DOMAIN raw.b \subseteq (DOMAIN other.b \ {s}) \union DOMAIN to \union {One}
        /\ IsMap(raw.c) /\ DOMAIN raw.c \subseteq (DOMAIN other.c \ {s}) \union DOMAIN to \union {One}
    BY <1>0, <1>1, <1>8, <1>9, SubstituteSum
  <2> QED BY <1>1, <1>2, <2>1 DEF IsConstraint, SignalsOf
<1>11. \A w \in Assignments : Holds(raw, w) <=> Holds(other, completed(w))
  <2>1. \A w \in Assignments : /\ SumOver(raw.a, w) = SumOver(other.a, completed(w))
                               /\ SumOver(raw.b, w) = SumOver(other.b, completed(w))
                               /\ SumOver(raw.c, w) = SumOver(other.c, completed(w))
    BY <1>0, <1>1, <1>8, <1>9, SubstituteSum
  <2> HIDE DEF completed
  <2> QED BY <2>1 DEF Holds
<1>12. /\ IsConstraint(new) /\ SignalsOf(new) \subseteq SignalsOf(raw)
       /\ \A w \in Assignments : Holds(new, w) <=> Holds(raw, w)
  BY <1>10, FixConstraintHolds
<1>13. IsConstraint(new) /\ s \notin SignalsOf(new)
  BY <1>10, <1>12
<1>14. \A w \in Assignments : Holds(new, w) <=> Holds(con, completed(w)) /\ Holds(other, completed(w))
  BY <1>6, <1>11, <1>12, Zenon
<1> QED BY <1>5, <1>13, <1>14, Zenon DEF raw

(* Two constraints solved for one signal: given the first, the second says     *)
(* what their cross difference says, and that is a linear constraint without   *)
(* the signal (simplification_utils.rs 259-294).                               *)
THEOREM ConflictKeepsSolutions ==
    ASSUME NEW con, NEW other, NEW s, Solvable(con, s), Solvable(other, s)
    PROVE  LET merged == MergeConflict(ClearSignalNotNormalized(con, s),
                                       ClearSignalNotNormalized(other, s))
           IN /\ IsConstraint(merged) /\ IsLinear(merged)
              /\ SignalsOf(merged) \subseteq (SignalsOf(con) \union SignalsOf(other)) \ {s}
              /\ \A w \in Assignments :
                   Holds(con, w) => (Holds(other, w) <=> Holds(merged, w))
<1> DEFINE known == ClearSignalNotNormalized(con, s)
           new == ClearSignalNotNormalized(other, s)
           k == known.coefficient
           n == new.coefficient
           K == (DOMAIN known.sub.to \union DOMAIN new.sub.to) \union {One}
           d == IntoArith(known.sub.to)
           e == IntoArith(new.sub.to)
           l == Mul(Number(k), e)
           r == Mul(Number(n), d)
           diff == Sub(l, r)
           form == ToConstraint(diff)
           merged == CleanConstraint(form)
<1>1. /\ k \in Elements /\ k \in Int /\ k # 0 /\ IsMap(known.sub.to)
      /\ DOMAIN known.sub.to = (DOMAIN con.c \ {s}) \union {One} /\ s \notin DOMAIN known.sub.to
      /\ \A w \in Assignments : Holds(con, w) <=> MulMod(w[s], k) = SumOver(known.sub.to, w)
  BY UnnormalizedSolves
<1>2. /\ n \in Elements /\ n \in Int /\ n # 0 /\ IsMap(new.sub.to)
      /\ DOMAIN new.sub.to = (DOMAIN other.c \ {s}) \union {One} /\ s \notin DOMAIN new.sub.to
      /\ \A w \in Assignments : Holds(other, w) <=> MulMod(w[s], n) = SumOver(new.sub.to, w)
  BY UnnormalizedSolves
<1>3. MergeConflict(known, new) = merged
  BY DEF MergeConflict
<1>4. s \in Signals
  BY DEF Solvable
<1> HIDE DEF known, new, k, n
<1>5. K \ {One} \subseteq (SignalsOf(con) \union SignalsOf(other)) \ {s} /\ One \in K
  BY <1>1, <1>2 DEF SignalsOf
<1>6. /\ AffineOver(d, K) /\ \A w \in Assignments : ValueOf(d, w) = SumOver(known.sub.to, w)
      /\ AffineOver(e, K) /\ \A w \in Assignments : ValueOf(e, w) = SumOver(new.sub.to, w)
  BY <1>1, <1>2, IntoArithMeans DEF AffineOver
<1> HIDE DEF d, e, K
<1>7. l = ScaleExpr(k, e) /\ r = ScaleExpr(n, d) /\ diff = Add(l, ScaleExpr(-1, r))
  <2>1. \A v, x : Mul(Number(v), x) = ScaleExpr(v, x)
    <3> SUFFICES ASSUME NEW v, NEW x PROVE Mul(Number(v), x) = ScaleExpr(v, x)
      OBVIOUS
    <3>1. Number(v).kind = "Number" /\ Number(v).value = v
      BY DEF Number
    <3> QED BY <3>1, Zenon DEF Mul
  <2> QED BY <2>1 DEF Sub
<1>8. /\ AffineOver(l, K) /\ \A w \in Assignments : ValueOf(l, w) = MulMod(k, ValueOf(e, w))
      /\ AffineOver(r, K) /\ \A w \in Assignments : ValueOf(r, w) = MulMod(n, ValueOf(d, w))
  BY <1>1, <1>2, <1>5, <1>6, <1>7, ScaleAffine, ScaleMeans DEF AffineOver
<1> HIDE DEF l, r
<1>9. AffineOver(diff, K)
  BY <1>5, <1>7, <1>8, ScaleAffine, AddAffine
<1>10. \A w \in Assignments : ValueOf(diff, w) = (ValueOf(l, w) - ValueOf(r, w)) % Field
  <2>1. Means(diff, [w \in Assignments |-> (ValueOf(l, w) - ValueOf(r, w)) % Field])
    BY <1>8, SubMeans DEF AffineOver
  <2>2. diff # NonQuadratic
    BY <1>9, KnownKinds DEF AffineOver
  <2> HIDE DEF diff
  <2> QED BY <2>1, <2>2 DEF Means
<1> HIDE DEF diff
<1>11. /\ form.a = Initialize(NoKeys) /\ form.b = Initialize(NoKeys)
       /\ form.c = Scale(Initialize(MapOf(diff)), -1)
  BY <1>9, AffineShape DEF ToConstraint, Constraint, AffineOver
<1>12. /\ IsMap(form.a) /\ IsMap(form.b) /\ IsMap(form.c)
       /\ DOMAIN form.c \subseteq K
  <2>1. IsMap(MapOf(diff)) /\ DOMAIN MapOf(diff) \subseteq K
    BY <1>9, AffineShape DEF AffineOver
  <2>2. IsMap(Initialize(MapOf(diff))) /\ DOMAIN Initialize(MapOf(diff)) \subseteq K
    BY <1>5, <2>1, InitializeSum DEF Initialize
  <2> QED BY <1>11, <2>2, ScaleSum, NoKeysSum
<1>13. \A w \in Assignments : Holds(form, w) <=> ValueOf(diff, w) = 0
  BY <1>9, ConstraintHolds DEF AffineOver
<1> HIDE DEF form
<1>14. /\ IsMap(merged.a) /\ IsMap(merged.b) /\ IsMap(merged.c)
       /\ DOMAIN merged.a = {} /\ DOMAIN merged.b = {} /\ DOMAIN merged.c \subseteq K
       /\ \A w \in Assignments : Holds(merged, w) <=> Holds(form, w)
  <2>1. merged.a = RemoveZeros(form.a) /\ merged.b = RemoveZeros(form.b) /\ merged.c = RemoveZeros(form.c)
    BY DEF CleanConstraint, Constraint
  <2>2. DOMAIN RemoveZeros(Initialize(NoKeys)) = {}
    <3>1. \A j \in DOMAIN Initialize(NoKeys) : Initialize(NoKeys)[j] = 0
      BY EmptyMap DEF Initialize, Coefficient
    <3> QED BY <3>1 DEF RemoveZeros
  <2> HIDE DEF merged
  <2>3. /\ IsMap(merged.a) /\ IsMap(merged.b) /\ IsMap(merged.c)
        /\ DOMAIN merged.a = {} /\ DOMAIN merged.b = {} /\ DOMAIN merged.c \subseteq K
    BY <1>11, <1>12, <2>1, <2>2, RemoveZerosSum
  <2> QED BY <1>12, <2>1, <2>3, RemoveZerosSum DEF Holds
<1> HIDE DEF merged
<1>15. ASSUME NEW w \in Assignments, Holds(con, w)
       PROVE  Holds(other, w) <=> Holds(merged, w)
  <2> DEFINE x == w[s]
             a == SumOver(known.sub.to, w)
             b == SumOver(new.sub.to, w)
             p == MulMod(x, n)
  <2>1. x \in Elements /\ x \in Int /\ a \in Int /\ b \in Elements /\ b \in Int
    BY <1>1, <1>2, <1>4, SumOverElement, FieldFacts DEF Assignments
  <2>2. MulMod(x, k) = a /\ (Holds(other, w) <=> p = b)
    BY <1>1, <1>2, <1>15
  <2>3. Holds(merged, w) <=> (MulMod(k, b) - MulMod(n, a)) % Field = 0
    BY <1>6, <1>8, <1>10, <1>13, <1>14
  <2> HIDE DEF x, a, b, p
  <2>4. p \in Elements /\ p \in Int
    BY <1>2, <2>1, Closed DEF p
  <2>5. MulMod(n, a) = MulMod(p, k)
    <3>1. MulMod(n, MulMod(x, k)) = (n * x * k) % Field
      BY <1>1, <1>2, <2>1, Associate
    <3>2. MulMod(MulMod(n, x), k) = (n * x * k) % Field
      BY <1>1, <1>2, <2>1, Associate
    <3>3. MulMod(n, x) = p
      BY <1>2, <2>1, Commute DEF p
    <3> QED BY <2>2, <3>1, <3>2, <3>3
  <2>6. MulMod(k, b) = MulMod(b, k)
    BY <1>1, <2>1, Commute
  <2>7. (MulMod(b, k) - MulMod(p, k)) % Field = 0 <=> MulMod(b, k) = MulMod(p, k)
    <3>1. MulMod(b, k) \in Elements /\ MulMod(p, k) \in Elements
      BY <1>1, <2>1, <2>4, Closed
    <3> QED BY <3>1, FieldFacts DEF Elements
  <2>8. MulMod(b, k) = MulMod(p, k) <=> p = b
    BY <1>1, <2>1, <2>4, Cancel
  <2> QED BY <2>2, <2>3, <2>5, <2>6, <2>7, <2>8
<1>16. IsConstraint(merged) /\ IsLinear(merged)
  BY <1>14 DEF IsConstraint, IsLinear
<1>17. SignalsOf(merged) \subseteq (SignalsOf(con) \union SignalsOf(other)) \ {s}
  BY <1>5, <1>14 DEF SignalsOf
<1> QED BY <1>3, <1>15, <1>16, <1>17 DEF known, new

=============================================================================
