---------------------------- MODULE FieldProofs -----------------------------
(*****************************************************************************)
(* Facts about the arithmetic of ModularArithmetic, for every prime:         *)
(* remainders, inverses (one, and a list of them), powers, sums and bits.    *)
(*****************************************************************************)
EXTENDS ModularArithmetic, FiniteSetTheorems, TLAPS

-----------------------------------------------------------------------------
(* The recursive definitions, as instances of one scheme. *)

powerStart(x) == 1
powerStep(x, n, power) == x * power
Powering == INSTANCE Recursion WITH Start <- powerStart, Step <- powerStep

powerModStart(x) == 1
powerModStep(x, n, power) == MulMod(x, power)
PoweringMod == INSTANCE Recursion WITH Start <- powerModStart, Step <- powerModStep

chainStart(p) == p.start
chainStep(p, n, product) == MulMod(product, p.factors[n])
Chaining == INSTANCE Recursion WITH Start <- chainStart, Step <- chainStep

-----------------------------------------------------------------------------
(* Remainders *)

LEMMA FieldFacts == Field \in Nat /\ Field > 0 /\ Field > 2 /\ 0 \in Elements /\ 1 \in Elements /\ Elements \subseteq Int
BY FieldIsPrime DEF Elements

LEMMA Division ==
    ASSUME NEW n \in Nat, n > 0, NEW x \in Int
    PROVE  x = n * (x \div n) + (x % n) /\ x \div n \in Int /\ x % n \in 0 .. (n - 1)
OBVIOUS

(* Quotient and remainder are the only ones. *)
LEMMA Quotient ==
    ASSUME NEW n \in Nat, n > 0, NEW x \in Int, NEW q \in Int, NEW r \in 0 .. (n - 1), x = n * q + r
    PROVE  x \div n = q /\ x % n = r
OBVIOUS

LEMMA Distribute ==
    ASSUME NEW n \in Int, NEW a \in Int, NEW b \in Int, NEW y \in Int
    PROVE  /\ (n * a + b) * y = n * (a * y) + b * y
           /\ n * (a + b) = n * a + n * b
           /\ a * y \in Int /\ n * a \in Int
OBVIOUS

(* Numbers that differ by multiples of n have one remainder. *)
LEMMA SameRemainder ==
    ASSUME NEW n \in Nat, n > 0, NEW x \in Int, NEW y \in Int, NEW k \in Int, x = y + n * k
    PROVE  x % n = y % n
<1>1. y = n * (y \div n) + (y % n) /\ y \div n \in Int /\ y % n \in 0 .. (n - 1)
  BY Division
<1> DEFINE q == y \div n
           r == y % n
<1>2. q \in Int /\ r \in 0 .. (n - 1) /\ y = n * q + r
  BY <1>1
<1> HIDE DEF q, r
<1>3. x = n * (q + k) + r
  BY <1>2, Distribute
<1>4. q + k \in Int
  BY <1>2
<1>5. x % n = r
  BY <1>2, <1>3, <1>4, Quotient, Zenon
<1> QED BY <1>5 DEF r

(* Operands may be reduced first. *)
LEMMA RemainderOfSum ==
    ASSUME NEW n \in Nat, n > 0, NEW x \in Int, NEW y \in Int
    PROVE  ((x % n) + y) % n = (x + y) % n
<1> DEFINE q == x \div n
           r == x % n
           left == r + y
           right == x + y
<1>1. x = n * q + r /\ q \in Int /\ r \in Int
  BY Division
<1> HIDE DEF q, r
<1>2. right = left + n * q /\ left \in Int /\ right \in Int
  BY <1>1
<1> HIDE DEF left, right
<1>3. right % n = left % n
  BY <1>1, <1>2, SameRemainder
<1> QED BY <1>3 DEF left, right, r

LEMMA RemainderOfProduct ==
    ASSUME NEW n \in Nat, n > 0, NEW x \in Int, NEW y \in Int
    PROVE  ((x % n) * y) % n = (x * y) % n
<1>1. x = n * (x \div n) + (x % n) /\ x \div n \in Int /\ x % n \in Int
  BY Division
<1> DEFINE q == x \div n
           r == x % n
<1>2. q \in Int /\ r \in Int /\ x = n * q + r
  BY <1>1
<1> HIDE DEF q, r
<1>3. x * y = n * (q * y) + r * y /\ q * y \in Int /\ r * y \in Int /\ x * y \in Int
  BY <1>2, Distribute
<1>4. x * y = r * y + n * (q * y)
  <2> DEFINE a == x * y
             b == n * (q * y)
             c == r * y
  <2>1. a = b + c /\ a \in Int /\ b \in Int /\ c \in Int
    BY <1>3, Distribute
  <2> HIDE DEF a, b, c
  <2>2. a = c + b
    BY <2>1
  <2> QED BY <2>2 DEF a, b, c
<1>5. (x * y) % n = (r * y) % n
  BY <1>3, <1>4, SameRemainder
<1> QED BY <1>5 DEF r

(* Elements are their own remainders. *)
LEMMA Canonical ==
    ASSUME NEW x \in Elements
    PROVE  x % Field = x
BY FieldFacts DEF Elements

LEMMA Remainder ==
    ASSUME NEW x \in Int
    PROVE  x % Field \in Elements /\ (x % Field) % Field = x % Field
BY FieldFacts DEF Elements

-----------------------------------------------------------------------------
(* Sums and products modulo Field *)

LEMMA ProductFacts ==
    ASSUME NEW a \in Int, NEW b \in Int, NEW c \in Int
    PROVE  /\ a * b = b * a /\ a * b \in Int
           /\ (a * b) * c = a * (b * c)
           /\ (a + b) * c = a * c + b * c
           /\ (a - b) * c = a * c - b * c
OBVIOUS

(* Every operation answers a canonical element. *)
LEMMA Closed ==
    ASSUME NEW x \in Int, NEW y \in Int
    PROVE  /\ AddMod(x, y) \in Elements /\ AddMod(x, y) \in Int
           /\ MulMod(x, y) \in Elements /\ MulMod(x, y) \in Int
<1>1. x + y \in Int /\ x * y \in Int
  OBVIOUS
<1> QED BY <1>1, Remainder, FieldFacts DEF AddMod, MulMod

LEMMA Commute ==
    ASSUME NEW x \in Int, NEW y \in Int
    PROVE  AddMod(x, y) = AddMod(y, x) /\ MulMod(x, y) = MulMod(y, x)
<1>1. x + y = y + x /\ x * y = y * x
  BY ProductFacts
<1> QED BY <1>1 DEF AddMod, MulMod

(* Operands may be reduced first. *)
LEMMA ReduceFirst ==
    ASSUME NEW x \in Int, NEW y \in Int
    PROVE  /\ AddMod(x % Field, y) = AddMod(x, y) /\ AddMod(y, x % Field) = AddMod(y, x)
           /\ MulMod(x % Field, y) = MulMod(x, y) /\ MulMod(y, x % Field) = MulMod(y, x)
<1>1. x % Field \in Int
  BY Remainder, FieldFacts
<1>2. AddMod(x % Field, y) = AddMod(x, y) /\ MulMod(x % Field, y) = MulMod(x, y)
  <2>1. ((x % Field) + y) % Field = (x + y) % Field
    BY RemainderOfSum, FieldFacts, Zenon
  <2>2. ((x % Field) * y) % Field = (x * y) % Field
    BY RemainderOfProduct, FieldFacts, Zenon
  <2> QED BY <2>1, <2>2, Zenon DEF AddMod, MulMod
<1> QED BY <1>1, <1>2, Commute

LEMMA Associate ==
    ASSUME NEW x \in Int, NEW y \in Int, NEW z \in Int
    PROVE  /\ AddMod(AddMod(x, y), z) = (x + y + z) % Field
           /\ AddMod(x, AddMod(y, z)) = (x + y + z) % Field
           /\ MulMod(MulMod(x, y), z) = (x * y * z) % Field
           /\ MulMod(x, MulMod(y, z)) = (x * y * z) % Field
<1>1. x + y \in Int /\ y + z \in Int /\ x * y \in Int /\ y * z \in Int
  OBVIOUS
<1>2. /\ AddMod((x + y) % Field, z) = AddMod(x + y, z)
      /\ AddMod(x, (y + z) % Field) = AddMod(x, y + z)
      /\ MulMod((x * y) % Field, z) = MulMod(x * y, z)
      /\ MulMod(x, (y * z) % Field) = MulMod(x, y * z)
  BY <1>1, ReduceFirst
<1>3. x + (y + z) = x + y + z /\ x * (y * z) = x * y * z
  BY ProductFacts
<1> QED BY <1>2, <1>3 DEF AddMod, MulMod

LEMMA DistributeMod ==
    ASSUME NEW x \in Int, NEW y \in Int, NEW z \in Int
    PROVE  MulMod(AddMod(x, y), z) = AddMod(MulMod(x, z), MulMod(y, z))
<1> DEFINE s == x + y
           p == x * z
           q == y * z
<1>1. s \in Int /\ p \in Int /\ q \in Int /\ s * z = p + q
  BY ProductFacts
<1>2. AddMod(x, y) = s % Field /\ MulMod(x, z) = p % Field /\ MulMod(y, z) = q % Field
  BY DEF AddMod, MulMod
<1> HIDE DEF s, p, q
<1>3. MulMod(s % Field, z) = MulMod(s, z)
  BY <1>1, ReduceFirst
<1>4. q % Field \in Int
  BY <1>1, Remainder, FieldFacts
<1>5. AddMod(p % Field, q % Field) = AddMod(p, q)
  BY <1>1, <1>4, ReduceFirst
<1> QED BY <1>1, <1>2, <1>3, <1>5 DEF AddMod, MulMod

LEMMA Units ==
    ASSUME NEW x \in Int
    PROVE  /\ MulMod(1, x) = x % Field /\ MulMod(x, 1) = x % Field
           /\ AddMod(0, x) = x % Field /\ AddMod(x, 0) = x % Field
           /\ MulMod(0, x) = 0 /\ MulMod(x, 0) = 0
<1>1. 1 * x = x /\ x * 1 = x /\ 0 + x = x /\ x + 0 = x /\ 0 * x = 0 /\ x * 0 = 0
  OBVIOUS
<1>2. 0 % Field = 0
  BY Canonical, FieldFacts
<1> QED BY <1>1, <1>2 DEF AddMod, MulMod

(* Equal remainders give equal remainders of sums and products. *)
LEMMA SameSums ==
    ASSUME NEW a \in Int, NEW b \in Int, NEW c \in Int, NEW d \in Int,
           c % Field = a % Field, d % Field = b % Field
    PROVE  AddMod(c, d) = AddMod(a, b) /\ MulMod(c, d) = MulMod(a, b)
<1>1. a % Field \in Int /\ c % Field \in Int
  BY Remainder, FieldFacts
<1>2. AddMod(c % Field, d % Field) = AddMod(c, d) /\ AddMod(a % Field, b % Field) = AddMod(a, b)
  BY <1>1, ReduceFirst
<1>3. MulMod(c % Field, d % Field) = MulMod(c, d) /\ MulMod(a % Field, b % Field) = MulMod(a, b)
  BY <1>1, ReduceFirst
<1> QED BY <1>2, <1>3

-----------------------------------------------------------------------------
(* Inverses *)

(* Remainders of a prime: one divided out leaves a smaller one. *)
LEMMA NextRemainder ==
    ASSUME NEW y \in Int, NEW i \in Int, NEW m \in Nat, m > 0, MulMod(i, y) = m
    PROVE  \E j \in Elements : MulMod(j, y) = (Field % m) % Field
<1> DEFINE q == Field \div m
           r == Field % m
           c == (i * y) \div Field
           p == i * y
<1>1. Field = m * q + r /\ q \in Int /\ r \in Int
  BY Division, FieldFacts
<1>2. p \in Int /\ c \in Int /\ p = Field * c + m
  BY Division, FieldFacts DEF MulMod
<1>3. (-(q * i)) * y = -(q * p) /\ -(q * i) \in Int
  BY <1>1, ProductFacts
<1> HIDE DEF q, r, c, p
<1>4. q * p = q * (Field * c) + q * m
  BY <1>1, <1>2, FieldFacts
<1>5. q * (Field * c) = Field * (q * c) /\ q * m = Field - r
  BY <1>1, <1>2, FieldFacts
<1>6. -(q * p) = r + Field * (-(q * c) - 1)
  BY <1>1, <1>2, <1>4, <1>5, FieldFacts
<1> DEFINE j == -(q * i)
           k == -(q * c) - 1
<1>7. j \in Int /\ k \in Int /\ j * y \in Int /\ j * y = r + Field * k
  BY <1>1, <1>2, <1>3, <1>6
<1> HIDE DEF j, k
<1>8. MulMod(j, y) = r % Field
  <2> DEFINE z == j * y
  <2>1. z \in Int /\ z = r + Field * k
    BY <1>7
  <2> HIDE DEF z
  <2>2. r \in Int /\ k \in Int /\ Field \in Nat /\ Field > 0
    BY <1>1, <1>7, FieldFacts
  <2>3. z % Field = r % Field
    BY <2>1, <2>2, SameRemainder
  <2> QED BY <2>3 DEF MulMod, z
<1>9. MulMod(j % Field, y) = r % Field
  BY <1>7, <1>8, ReduceFirst
<1>10. j % Field \in Elements
  BY <1>7, Remainder
<1> QED BY <1>9, <1>10 DEF r

(* mod_inverse of an element that is not 0 is never None: the least multiple of *)
(* y that is positive leaves the prime no remainder, so it is 1.               *)
THEOREM InverseExists ==
    ASSUME NEW y \in Elements, y # 0
    PROVE  \E i \in Elements : MulMod(i, y) = 1
<1> DEFINE S == {m \in Nat : m > 0 /\ \E i \in Elements : MulMod(i, y) = m}
<1>1. y \in S
  <2>1. MulMod(1, y) = y
    BY Units, Canonical, FieldFacts
  <2> QED BY <2>1, FieldFacts DEF Elements
<1>2. PICK m \in S : \A k \in S : m <= k
  <2>1. S \in SUBSET Nat /\ S # {}
    BY <1>1
  <2> HIDE DEF S
  <2> QED BY <2>1, Powering!LeastNumber
<1>3. PICK i \in Elements : MulMod(i, y) = m
  OBVIOUS
<1>4. m \in Nat /\ m > 0 /\ m < Field
  BY <1>3, Closed, FieldFacts DEF Elements
<1>5. PICK j \in Elements : MulMod(j, y) = (Field % m) % Field
  BY <1>3, <1>4, FieldFacts, NextRemainder
<1>6. Field % m \in 0 .. (m - 1)
  BY <1>4, FieldFacts, Division
<1>7. (Field % m) % Field = Field % m
  <2>1. Field % m \in Elements
    BY <1>4, <1>6, FieldFacts DEF Elements
  <2> QED BY <2>1, Canonical
<1>8. Field % m \notin S
  BY <1>2, <1>6
<1>9. Field % m = 0
  BY <1>5, <1>6, <1>7, <1>8
<1>10. m = 1
  <2>1. m \notin 2 .. (Field - 1)
    BY <1>9, FieldIsPrime
  <2> QED BY <2>1, <1>4, FieldFacts
<1> QED BY <1>3, <1>10

(* An element that is not zero can be cancelled. *)
LEMMA Cancel ==
    ASSUME NEW x \in Elements, NEW z \in Elements, NEW y \in Elements, y # 0,
           MulMod(x, y) = MulMod(z, y)
    PROVE  x = z
<1>1. PICK i \in Elements : MulMod(i, y) = 1
  BY InverseExists
<1>2. ASSUME NEW v \in Elements PROVE MulMod(MulMod(v, y), i) = v
  <2>1. MulMod(y, i) = 1
    BY <1>1, Commute, FieldFacts
  <2>2. MulMod(MulMod(v, y), i) = MulMod(v, MulMod(y, i))
    BY Associate, FieldFacts
  <2>3. MulMod(v, 1) = v
    BY Units, Canonical, FieldFacts
  <2> QED BY <2>1, <2>2, <2>3
<1> QED BY <1>2

(* Division is the inverse of multiplication. *)
LEMMA DivModValue ==
    ASSUME NEW x \in Int, NEW y \in Elements, y # 0
    PROVE  /\ DivMod(x, y) \in Elements
           /\ MulMod(DivMod(x, y), y) = x % Field
           /\ DivMod(x, y) = MulMod(x, DivMod(1, y))
<1> DEFINE i == CHOOSE i \in Inverses(y) : TRUE
<1>1. i \in Inverses(y) /\ Inverses(y) # {}
  BY InverseExists DEF Inverses
<1>2. i \in Elements /\ MulMod(i, y) = 1
  BY <1>1 DEF Inverses
<1>3. DivMod(x, y) = MulMod(x, i) /\ DivMod(1, y) = MulMod(1, i)
  BY <1>1 DEF DivMod
<1> HIDE DEF i
<1>4. MulMod(1, i) = i
  BY <1>2, Units, Canonical, FieldFacts
<1>5. MulMod(MulMod(x, i), y) = MulMod(x, MulMod(i, y))
  BY <1>2, Associate, FieldFacts
<1>6. MulMod(x, 1) = x % Field
  BY Units
<1> QED BY <1>2, <1>3, <1>4, <1>5, <1>6, Closed, FieldFacts

(* Division by zero, and only by zero, is refused. *)
LEMMA ZeroHasNoInverse == Inverses(0) = {}
<1>1. \A i \in Elements : MulMod(i, 0) = 0
  BY Units, FieldFacts
<1> QED BY <1>1 DEF Inverses

LEMMA DivisionDefined ==
    ASSUME NEW y \in Elements
    PROVE  /\ Inverses(y) = {} <=> y = 0
           /\ \A x : DivMod(x, 0) = Undefined
<1>1. y # 0 => Inverses(y) # {}
  BY InverseExists DEF Inverses
<1> QED BY <1>1, ZeroHasNoInverse DEF DivMod

(* The quotient is the only number with this product. *)
LEMMA QuotientValue ==
    ASSUME NEW x \in Elements, NEW y \in Elements, y # 0
    PROVE  (CHOOSE q \in Elements : (q * y) % Field = x) = DivMod(x, y)
<1>1. DivMod(x, y) \in Elements /\ MulMod(DivMod(x, y), y) = x
  BY DivModValue, Canonical, FieldFacts
<1>2. \A q \in Elements : MulMod(q, y) = x => q = DivMod(x, y)
  BY <1>1, Cancel
<1> DEFINE chosen == CHOOSE q \in Elements : MulMod(q, y) = x
<1>3. chosen \in Elements /\ MulMod(chosen, y) = x
  BY <1>1
<1>4. chosen = DivMod(x, y)
  BY <1>2, <1>3
<1> QED BY <1>4 DEF MulMod

-----------------------------------------------------------------------------
(* All inverses from one division *)

LEMMA ProductNotZero ==
    ASSUME NEW x \in Elements, x # 0, NEW y \in Elements, y # 0
    PROVE  MulMod(x, y) \in Elements /\ MulMod(x, y) # 0
<1>1. x \in Int /\ y \in Int /\ 0 \in Elements
  BY FieldFacts
<1>2. MulMod(0, y) = 0 /\ MulMod(x, y) \in Elements
  BY <1>1, Units, Closed
<1>3. MulMod(x, y) # MulMod(0, y)
  BY <1>1, Cancel
<1> QED BY <1>2, <1>3

(* The two recursions of multi_inv have a value for every list. *)
LEMMA MultiInvValues ==
    ASSUME NEW values, Len(values) \in Nat
    PROVE  LET n == Len(values)
           IN \E partial, inverse :
                /\ partial[0] = 1
                /\ \A i \in 1 .. n : partial[i] = MulMod(partial[i - 1], values[i])
                /\ inverse[n] = DivMod(1, partial[n])
                /\ \A i \in 0 .. (n - 1) : inverse[i] = MulMod(inverse[i + 1], values[i + 1])
                /\ MultiInv(values)
                     = [i \in 1 .. (n + 1) |->
                          IF i = n + 1 THEN 0 ELSE MulMod(partial[i - 1], inverse[i])]
<1> DEFINE n == Len(values)
           F(f) == [i \in 0 .. n |-> IF i = 0 THEN 1 ELSE MulMod(f[i - 1], values[i])]
           partial == CHOOSE f : f = F(f)
           G(f) == [i \in 0 .. n |-> IF i = n THEN DivMod(1, partial[n])
                                     ELSE MulMod(f[i + 1], values[i + 1])]
           inverse == CHOOSE f : f = G(f)
<1>1. MultiInv(values) = [i \in 1 .. (n + 1) |->
                            IF i = n + 1 THEN 0 ELSE MulMod(partial[i - 1], inverse[i])]
  BY DEF MultiInv
<1>2. partial = F(partial)
  <2> DEFINE p == [start |-> 1, factors |-> values]
  <2>1. PICK f : Chaining!Upto(f, p, n)
    BY Chaining!UptoExists
  <2>2. f = [i \in 0 .. n |-> IF i = 0 THEN chainStart(p) ELSE chainStep(p, i, f[i - 1])]
    BY <2>1 DEF Chaining!Upto
  <2>3. f = F(f)
    BY <2>2 DEF chainStart, chainStep
  <2> QED BY <2>3
<1> HIDE DEF partial
<1>3. inverse = G(inverse)
  <2> DEFINE last == DivMod(1, partial[n])
             p == [start |-> last, factors |-> [j \in 1 .. n |-> values[(n - j) + 1]]]
  <2>1. PICK b : Chaining!Upto(b, p, n)
    BY Chaining!UptoExists
  <2>2. b = [i \in 0 .. n |-> IF i = 0 THEN chainStart(p) ELSE chainStep(p, i, b[i - 1])]
    BY <2>1 DEF Chaining!Upto
  <2>3. b[0] = last /\ \A i \in 1 .. n : b[i] = MulMod(b[i - 1], values[(n - i) + 1])
    <3>1. p.start = last /\ \A i \in 1 .. n : p.factors[i] = values[(n - i) + 1]
      OBVIOUS
    <3>2. 0 \in 0 .. n /\ \A i \in 1 .. n : i \in 0 .. n /\ i # 0
      OBVIOUS
    <3> HIDE DEF n, p, last
    <3>3. b[0] = chainStart(p) /\ \A i \in 1 .. n : b[i] = chainStep(p, i, b[i - 1])
      BY <2>2, <3>2
    <3> QED BY <3>1, <3>3 DEF chainStart, chainStep
  <2> DEFINE f == [i \in 0 .. n |-> b[n - i]]
  <2> HIDE DEF last, p
  <2>4. f = G(f)
    <3>1. ASSUME NEW i \in 0 .. n, i # n
          PROVE  b[n - i] = MulMod(f[i + 1], values[i + 1])
      <4>1. n - i \in 1 .. n /\ (n - i) - 1 = n - (i + 1) /\ (n - (n - i)) + 1 = i + 1 /\ i + 1 \in 0 .. n
        BY <3>1
      <4>2. f[i + 1] = b[n - (i + 1)]
        BY <4>1
      <4> HIDE DEF n, f
      <4> QED BY <2>3, <4>1, <4>2
    <3>2. b[n - n] = last
      BY <2>3
    <3> QED BY <3>1, <3>2 DEF last
  <2> QED BY <2>4
<1> HIDE DEF inverse
<1>4. partial[0] = 1 /\ \A i \in 1 .. n : partial[i] = MulMod(partial[i - 1], values[i])
  <2>1. 0 \in 0 .. n /\ \A i \in 1 .. n : i \in 0 .. n /\ i # 0
    OBVIOUS
  <2> HIDE DEF n
  <2> QED BY <1>2, <2>1
<1>5. inverse[n] = DivMod(1, partial[n])
      /\ \A i \in 0 .. (n - 1) : inverse[i] = MulMod(inverse[i + 1], values[i + 1])
  <2>1. n \in 0 .. n /\ \A i \in 0 .. (n - 1) : i \in 0 .. n /\ i # n
    OBVIOUS
  <2> HIDE DEF n
  <2> QED BY <1>3, <2>1
<1> QED BY <1>1, <1>4, <1>5

(* multi_inv (modular_arithmetic.rs 71-91) answers, from one division, the   *)
(* inverse of every number of any list without zero, for every prime: what   *)
(* the substitutions of a cluster are normalized with.                       *)
THEOREM MultiInvInverts ==
    ASSUME NEW values \in Seq(Elements), \A i \in 1 .. Len(values) : values[i] # 0
    PROVE  \A i \in 1 .. Len(values) : MultiInv(values)[i] = DivMod(1, values[i])
<1> DEFINE n == Len(values)
<1>1. n \in Nat /\ \A i \in 1 .. n : values[i] \in Elements /\ values[i] # 0
  OBVIOUS
<1>2. PICK partial, inverse :
        /\ partial[0] = 1
        /\ \A i \in 1 .. n : partial[i] = MulMod(partial[i - 1], values[i])
        /\ inverse[n] = DivMod(1, partial[n])
        /\ \A i \in 0 .. (n - 1) : inverse[i] = MulMod(inverse[i + 1], values[i + 1])
        /\ MultiInv(values) = [i \in 1 .. (n + 1) |->
                                 IF i = n + 1 THEN 0 ELSE MulMod(partial[i - 1], inverse[i])]
  BY <1>1, MultiInvValues
<1> HIDE DEF n
<1>3. \A i \in 0 .. n : partial[i] \in Elements /\ partial[i] # 0
  <2> DEFINE S == {i \in Nat : i <= n => partial[i] \in Elements /\ partial[i] # 0}
  <2>1. 0 \in S
    BY <1>2, FieldFacts
  <2>2. ASSUME NEW i \in Nat, i \in S PROVE i + 1 \in S
    <3> SUFFICES ASSUME i + 1 <= n PROVE partial[i + 1] \in Elements /\ partial[i + 1] # 0
      OBVIOUS
    <3>1. i + 1 \in 1 .. n /\ (i + 1) - 1 = i /\ i <= n
      BY <1>1
    <3>2. partial[i] \in Elements /\ partial[i] # 0
      BY <2>2, <3>1
    <3>3. partial[i + 1] = MulMod(partial[i], values[i + 1])
      BY <1>2, <3>1
    <3>4. values[i + 1] \in Elements /\ values[i + 1] # 0
      BY <1>1, <3>1
    <3> QED BY <3>2, <3>3, <3>4, ProductNotZero
  <2> HIDE DEF S
  <2>3. Nat \subseteq S
    BY <2>1, <2>2, Chaining!Induction
  <2> QED BY <1>1, <2>3 DEF S
<1>4. \A i \in 0 .. n : inverse[i] \in Elements /\ MulMod(inverse[i], partial[i]) = 1
  <2> DEFINE good(i) == inverse[i] \in Elements /\ MulMod(inverse[i], partial[i]) = 1
             S == {j \in Nat : j <= n => good(n - j)}
  <2>1. 0 \in S
    <3>1. n \in 0 .. n /\ n - 0 = n /\ 1 % Field = 1 /\ 1 \in Int
      BY <1>1, Canonical, FieldFacts
    <3>2. good(n)
      BY <1>2, <1>3, <3>1, DivModValue
    <3> QED BY <3>1, <3>2
  <2>2. ASSUME NEW j \in Nat, j \in S PROVE j + 1 \in S
    <3> SUFFICES ASSUME j + 1 <= n PROVE good(n - (j + 1))
      OBVIOUS
    <3> DEFINE i == n - (j + 1)
    <3>1. i \in 0 .. (n - 1) /\ i + 1 \in 1 .. n /\ (i + 1) - 1 = i /\ i + 1 = n - j /\ j <= n
          /\ i \in 0 .. n
      BY <1>1
    <3> DEFINE x == inverse[i + 1]
               v == values[i + 1]
               q == partial[i]
    <3>2. x \in Elements /\ MulMod(x, partial[i + 1]) = 1
      BY <2>2, <3>1
    <3>3. inverse[i] = MulMod(x, v) /\ partial[i + 1] = MulMod(q, v)
      BY <1>2, <3>1
    <3>4. x \in Int /\ v \in Int /\ q \in Int
      BY <1>1, <1>3, <3>1, <3>2, FieldFacts
    <3> HIDE DEF i, x, v, q
    <3>5. MulMod(x, v) \in Elements
      BY <3>4, Closed
    <3>6. MulMod(MulMod(x, v), q) = MulMod(x, MulMod(q, v))
      <4>1. MulMod(MulMod(x, v), q) = (x * v * q) % Field /\ MulMod(x, MulMod(v, q)) = (x * v * q) % Field
        BY <3>4, Associate
      <4>2. MulMod(v, q) = MulMod(q, v)
        BY <3>4, Commute
      <4> QED BY <4>1, <4>2
    <3>7. good(i)
      BY <3>2, <3>3, <3>5, <3>6 DEF q
    <3> QED BY <3>7 DEF i
  <2> HIDE DEF S
  <2>3. Nat \subseteq S
    BY <2>1, <2>2, Chaining!Induction
  <2>4. ASSUME NEW i \in 0 .. n PROVE good(i)
    <3>1. n - i \in Nat /\ n - i <= n /\ n - (n - i) = i
      BY <1>1
    <3>2. good(n - (n - i))
      BY <2>3, <3>1 DEF S
    <3> HIDE DEF good
    <3> QED BY <3>1, <3>2
  <2> QED BY <2>4
<1>5. ASSUME NEW i \in 1 .. n PROVE MultiInv(values)[i] = DivMod(1, values[i])
  <2> DEFINE x == inverse[i]
             v == values[i]
             q == partial[i - 1]
             u == MulMod(q, x)
  <2>1. i \in 0 .. n /\ i - 1 \in 0 .. n /\ i \in 1 .. (n + 1) /\ i # n + 1
    BY <1>1
  <2>2. MultiInv(values)[i] = u
    BY <1>2, <2>1
  <2>3. MulMod(x, MulMod(q, v)) = 1
    BY <1>2, <1>4, <2>1
  <2>4. v \in Elements /\ v # 0 /\ v \in Int /\ x \in Int /\ q \in Int
    BY <1>1, <1>3, <1>4, <2>1, FieldFacts
  <2> HIDE DEF x, v, q
  <2>5. u \in Elements
    BY <2>4, Closed
  <2>6. MulMod(u, v) = 1
    <3>1. MulMod(MulMod(q, x), v) = (q * x * v) % Field /\ MulMod(MulMod(x, q), v) = (x * q * v) % Field
          /\ MulMod(x, MulMod(q, v)) = (x * q * v) % Field
      BY <2>4, Associate
    <3>2. MulMod(q, x) = MulMod(x, q)
      BY <2>4, Commute
    <3> QED BY <2>3, <3>1, <3>2
  <2>7. DivMod(1, v) \in Elements /\ MulMod(DivMod(1, v), v) = 1
    <3>1. 1 \in Int /\ 1 % Field = 1
      BY Canonical, FieldFacts
    <3> QED BY <2>4, <3>1, DivModValue
  <2> HIDE DEF u
  <2>8. u = DivMod(1, v)
    BY <2>4, <2>5, <2>6, <2>7, Cancel
  <2> QED BY <2>2, <2>8 DEF v
<1> QED BY <1>5 DEF n

-----------------------------------------------------------------------------
(* Powers *)

LEMMA PowerValues ==
    ASSUME NEW x
    PROVE  Power(x, 0) = 1 /\ \A n \in Nat : Power(x, n + 1) = x * Power(x, n)
<1> DEFINE F(at) == [n \in Nat |-> IF n = 0 THEN 1 ELSE x * at[n - 1]]
           value == CHOOSE at : at = F(at)
<1>1. Powering!iterate(x) = F(Powering!iterate(x))
  BY Powering!Iterates DEF powerStart, powerStep
<1>2. value = F(value)
  BY <1>1
<1>3. Powers(x) = value
  BY DEF Powers
<1> HIDE DEF value
<1>4. value[0] = 1
  BY <1>2
<1>5. ASSUME NEW n \in Nat PROVE value[n + 1] = x * value[n]
  <2>1. n + 1 \in Nat /\ n + 1 # 0 /\ (n + 1) - 1 = n
    OBVIOUS
  <2> QED BY <1>2, <2>1, Zenon
<1> QED BY <1>3, <1>4, <1>5 DEF Power

LEMMA PowerModValues ==
    ASSUME NEW x
    PROVE  PowMod(x, 0) = 1 /\ \A n \in Nat : PowMod(x, n + 1) = MulMod(x, PowMod(x, n))
<1> DEFINE F(at) == [n \in Nat |-> IF n = 0 THEN 1 ELSE MulMod(x, at[n - 1])]
           value == CHOOSE at : at = F(at)
<1>1. PoweringMod!iterate(x) = F(PoweringMod!iterate(x))
  BY PoweringMod!Iterates DEF powerModStart, powerModStep
<1>2. value = F(value)
  BY <1>1
<1>3. PowersMod(x) = value
  BY DEF PowersMod
<1> HIDE DEF value
<1>4. value[0] = 1
  BY <1>2
<1>5. ASSUME NEW n \in Nat PROVE value[n + 1] = MulMod(x, value[n])
  <2>1. n + 1 \in Nat /\ n + 1 # 0 /\ (n + 1) - 1 = n
    OBVIOUS
  <2> QED BY <1>2, <2>1, Zenon
<1> QED BY <1>3, <1>4, <1>5 DEF PowMod

LEMMA PowerType ==
    ASSUME NEW x \in Int
    PROVE  \A n \in Nat : Power(x, n) \in Int
<1> DEFINE S == {n \in Nat : Power(x, n) \in Int}
<1>1. 0 \in S
  BY PowerValues
<1>2. ASSUME NEW n \in Nat, n \in S PROVE n + 1 \in S
  <2>1. Power(x, n) \in Int /\ Power(x, n + 1) = x * Power(x, n)
    BY <1>2, PowerValues
  <2>2. x * Power(x, n) \in Int
    BY <2>1, ProductFacts
  <2> QED BY <2>1, <2>2
<1> HIDE DEF S
<1>3. Nat \subseteq S
  BY <1>1, <1>2, Powering!Induction
<1> QED BY <1>3 DEF S

(* The power of a sum of exponents is a product. *)
LEMMA PowerOfSum ==
    ASSUME NEW x \in Int, NEW a \in Nat
    PROVE  \A b \in Nat : Power(x, a + b) = Power(x, a) * Power(x, b)
<1> DEFINE S == {b \in Nat : Power(x, a + b) = Power(x, a) * Power(x, b)}
<1>0. \A n \in Nat : Power(x, n) \in Int
  BY PowerType
<1>1. 0 \in S
  <2>1. Power(x, a) * 1 = Power(x, a) /\ a + 0 = a
    BY <1>0
  <2> QED BY <2>1, PowerValues
<1>2. ASSUME NEW b \in Nat, b \in S PROVE b + 1 \in S
  <2>1. Power(x, a + b) = Power(x, a) * Power(x, b)
    BY <1>2
  <2>2. Power(x, (a + b) + 1) = x * Power(x, a + b) /\ Power(x, b + 1) = x * Power(x, b)
    BY PowerValues
  <2>3. x * (Power(x, a) * Power(x, b)) = Power(x, a) * (x * Power(x, b))
    <3> DEFINE u == Power(x, a)
               v == Power(x, b)
    <3>1. u \in Int /\ v \in Int
      BY <1>0
    <3> HIDE DEF u, v
    <3>2. x * (u * v) = u * (x * v)
      BY <3>1
    <3> QED BY <3>2 DEF u, v
  <2>4. (a + b) + 1 = a + (b + 1) /\ b + 1 \in Nat
    OBVIOUS
  <2> QED BY <2>1, <2>2, <2>3, <2>4
<1> HIDE DEF S
<1>3. Nat \subseteq S
  BY <1>1, <1>2, Powering!Induction
<1> QED BY <1>3 DEF S

LEMMA PowModValue ==
    ASSUME NEW x \in Int
    PROVE  \A n \in Nat : PowMod(x, n) = Power(x, n) % Field
<1> DEFINE S == {n \in Nat : PowMod(x, n) = Power(x, n) % Field}
<1>1. 0 \in S
  BY PowerValues, PowerModValues, Canonical, FieldFacts
<1>2. ASSUME NEW n \in Nat, n \in S PROVE n + 1 \in S
  <2> DEFINE p == Power(x, n)
  <2>1. p \in Int
    BY PowerType
  <2>2. PowMod(x, n) = p % Field
    BY <1>2
  <2>3. Power(x, n + 1) = x * p /\ PowMod(x, n + 1) = MulMod(x, p % Field)
    BY <2>2, PowerValues, PowerModValues
  <2> HIDE DEF p
  <2>4. MulMod(x, p % Field) = (x * p) % Field
    BY <2>1, ReduceFirst DEF MulMod
  <2> QED BY <2>3, <2>4
<1> HIDE DEF S
<1>3. Nat \subseteq S
  BY <1>1, <1>2, Powering!Induction
<1> QED BY <1>3 DEF S

(* Halving the exponent squares the power. *)
LEMMA SquareAndMultiply ==
    ASSUME NEW x \in Elements, NEW y \in Nat, NEW half \in Int,
           half = Power(x, y \div 2) % Field
    PROVE  (half * half * (IF y % 2 = 1 THEN x ELSE 1)) % Field = PowMod(x, y)
<1> DEFINE h == y \div 2
           p == Power(x, h)
           last == IF y % 2 = 1 THEN x ELSE 1
<1>1. h \in Nat /\ (y = h + h \/ y = (h + h) + 1) /\ (y % 2 = 1 <=> y = (h + h) + 1)
  OBVIOUS
<1>2. x \in Int /\ last \in Int /\ p \in Int
  BY <1>1, PowerType, FieldFacts
<1>3. Power(x, h + h) = p * p /\ Power(x, (h + h) + 1) = x * Power(x, h + h)
  <2> HIDE DEF h
  <2>1. Power(x, h + h) = Power(x, h) * Power(x, h)
    BY <1>1, <1>2, PowerOfSum
  <2>2. h + h \in Nat
    BY <1>1
  <2> QED BY <2>1, <2>2, PowerValues
<1>4. p * p \in Int /\ x * (p * p) = (p * p) * x /\ (p * p) * 1 = p * p
  BY <1>2
<1>5. Power(x, y) = (p * p) * last
  BY <1>1, <1>3, <1>4
<1>6. PowMod(x, y) = ((p * p) * last) % Field
  BY <1>2, <1>5, PowModValue
<1>7. half = p % Field
  OBVIOUS
<1> HIDE DEF p, last
<1>8. MulMod(half, half) = MulMod(p, p)
  BY <1>2, <1>7, ReduceFirst
<1>9. MulMod(MulMod(half, half), last) = (half * half * last) % Field
  BY <1>2, Associate
<1>10. MulMod(MulMod(p, p), last) = (p * p * last) % Field
  BY <1>2, Associate
<1> QED BY <1>6, <1>8, <1>9, <1>10 DEF last

-----------------------------------------------------------------------------
(* Sums over finite sets *)

(* What holds of the empty set and survives one more element. *)
LEMMA SetInduction ==
    ASSUME NEW S, IsFiniteSet(S), NEW C, {} \in C,
           \A T \in SUBSET S : \A x \in S \ T : T \in C => T \union {x} \in C
    PROVE  S \in C
<1> DEFINE N == {n \in Nat : \A T \in SUBSET S : Cardinality(T) = n => T \in C}
<1>1. 0 \in N
  BY FS_Subset, FS_EmptySet
<1>2. ASSUME NEW n \in Nat, n \in N PROVE n + 1 \in N
  <2> SUFFICES ASSUME NEW T \in SUBSET S, Cardinality(T) = n + 1 PROVE T \in C
    OBVIOUS
  <2>1. IsFiniteSet(T) /\ T # {}
    BY FS_Subset, FS_EmptySet
  <2>2. PICK x : x \in T
    BY <2>1
  <2>3. Cardinality(T \ {x}) = n
    <3>1. Cardinality(T \ {x}) = Cardinality(T) - 1
      BY <2>1, <2>2, FS_RemoveElement, Zenon
    <3> QED BY <3>1
  <2>4. T \ {x} \in C /\ T \ {x} \in SUBSET S /\ x \in S \ (T \ {x})
    BY <1>2, <2>2, <2>3
  <2>5. (T \ {x}) \union {x} = T
    BY <2>2
  <2>6. (T \ {x}) \union {x} \in C
    BY <2>4
  <2> QED BY <2>5, <2>6
<1> HIDE DEF N
<1>3. Nat \subseteq N
  BY <1>1, <1>2, Powering!Induction
<1> QED BY <1>3, FS_CardinalityType DEF N

SumOn(f, S) == SumFunctionOnSet(f, S)

picked(S) == CHOOSE x \in S : TRUE

(* A function that computes the sums over the subsets in D. *)
SumsOver(D, f, sums) ==
    \A T \in D : sums[T] = IF T = {} THEN 0 ELSE f[picked(T)] + sums[T \ {picked(T)}]

(* One round of the recursion that adds over the subsets of S. *)
sumRound(f, S, sums) ==
    [T \in SUBSET S |-> IF T = {} THEN 0 ELSE f[picked(T)] + sums[T \ {picked(T)}]]

LEMMA PickedIn == ASSUME NEW S, S # {} PROVE picked(S) \in S
BY DEF picked

(* Sums over finite sets, in the form in which SumFunction makes them. *)
LEMMA SumsExist ==
    ASSUME NEW f, NEW S, IsFiniteSet(S)
    PROVE  \E sums : sums = sumRound(f, S, sums)
<1> DEFINE small(n) == {T \in SUBSET S : Cardinality(T) <= n}
           N == {n \in Nat : \E sums : SumsOver(small(n), f, sums)}
<1>0. \A T \in SUBSET S : IsFiniteSet(T) /\ Cardinality(T) \in Nat
  BY FS_Subset, FS_CardinalityType
<1>1. 0 \in N
  <2>1. small(0) = {{}}
    BY <1>0, FS_EmptySet
  <2> DEFINE sums == [T \in {{}} |-> 0]
  <2>2. SumsOver({{}}, f, sums)
    BY DEF SumsOver
  <2> QED BY <2>1, <2>2
<1>2. ASSUME NEW n \in Nat, n \in N PROVE n + 1 \in N
  <2>1. PICK sums : SumsOver(small(n), f, sums)
    BY <1>2
  <2> DEFINE more == [T \in small(n + 1) |->
                        IF T \in small(n) THEN sums[T]
                        ELSE f[picked(T)] + sums[T \ {picked(T)}]]
  <2>2. ASSUME NEW T \in small(n + 1)
        PROVE  more[T] = IF T = {} THEN 0 ELSE f[picked(T)] + more[T \ {picked(T)}]
    <3>1. CASE T = {}
      <4>1. T \in small(n)
        BY <3>1, FS_EmptySet
      <4> QED BY <2>1, <3>1, <4>1 DEF SumsOver
    <3>2. CASE T # {}
      <4>1. picked(T) \in T /\ T \in SUBSET S /\ Cardinality(T) <= n + 1
        BY <3>2, PickedIn
      <4>2. Cardinality(T \ {picked(T)}) = Cardinality(T) - 1
        BY <1>0, <4>1, FS_RemoveElement
      <4>3. T \ {picked(T)} \in small(n) /\ T \ {picked(T)} \in small(n + 1)
        BY <1>0, <4>1, <4>2
      <4>4. more[T \ {picked(T)}] = sums[T \ {picked(T)}]
        BY <4>3
      <4>5. T \in small(n) => sums[T] = f[picked(T)] + sums[T \ {picked(T)}]
        BY <2>1, <3>2 DEF SumsOver
      <4> QED BY <3>2, <4>4, <4>5
    <3> QED BY <3>1, <3>2
  <2> HIDE DEF more
  <2>3. SumsOver(small(n + 1), f, more)
    BY <2>2 DEF SumsOver
  <2> QED BY <2>3
<1> HIDE DEF N
<1>3. Nat \subseteq N
  BY <1>1, <1>2, Powering!Induction
<1>4. Cardinality(S) \in N
  BY <1>0, <1>3
<1>5. PICK sums : SumsOver(small(Cardinality(S)), f, sums)
  BY <1>4 DEF N
<1>6. small(Cardinality(S)) = SUBSET S
  BY FS_Subset
<1> DEFINE all == [T \in SUBSET S |-> sums[T]]
<1>7. ASSUME NEW T \in SUBSET S
      PROVE  all[T] = IF T = {} THEN 0 ELSE f[picked(T)] + all[T \ {picked(T)}]
  BY <1>5, <1>6 DEF SumsOver
<1>8. all = [T \in SUBSET S |-> IF T = {} THEN 0 ELSE f[picked(T)] + all[T \ {picked(T)}]]
  BY <1>7
<1> HIDE DEF all
<1>9. all = sumRound(f, S, all)
  BY <1>8 DEF sumRound
<1> QED BY <1>9

LEMMA SumIs ==
    ASSUME NEW f, NEW S, IsFiniteSet(S)
    PROVE  \E sums : SumsOver(SUBSET S, f, sums) /\ SumOn(f, S) = sums[S]
<1> DEFINE sums == CHOOSE sums : sums = sumRound(f, S, sums)
<1>1. sums = sumRound(f, S, sums)
  BY SumsExist, Zenon
<1>2. SumOn(f, S) = sums[S]
  BY DEF SumOn, SumFunctionOnSet, FoldFunctionOnSet, MapThenFoldSet, picked, sumRound
<1> HIDE DEF sums
<1>3. SumsOver(SUBSET S, f, sums)
  BY <1>1 DEF SumsOver, sumRound
<1> QED BY <1>2, <1>3

(* The sums over the subsets of a finite set. *)
SubsetSums(f, S, sums) == IsFiniteSet(S) /\ SumsOver(SUBSET S, f, sums)

LEMMA SumsAgree ==
    ASSUME NEW f, NEW S, NEW R \in SUBSET S,
           NEW sums, SubsetSums(f, S, sums),
           NEW others, SubsetSums(f, R, others)
    PROVE  sums[R] = others[R]
<1> USE DEF SubsetSums
<1> DEFINE N == {n \in Nat : \A T \in SUBSET R : Cardinality(T) = n => sums[T] = others[T]}
<1>0. \A T \in SUBSET R : T \in SUBSET S /\ IsFiniteSet(T) /\ Cardinality(T) \in Nat
  BY FS_Subset, FS_CardinalityType
<1>1. 0 \in N
  <2> SUFFICES ASSUME NEW T \in SUBSET R, Cardinality(T) = 0 PROVE sums[T] = others[T]
    OBVIOUS
  <2>1. T = {} /\ T \in SUBSET S
    BY <1>0, FS_EmptySet
  <2> QED BY <2>1 DEF SumsOver
<1>2. ASSUME NEW n \in Nat, n \in N PROVE n + 1 \in N
  <2> SUFFICES ASSUME NEW T \in SUBSET R, Cardinality(T) = n + 1 PROVE sums[T] = others[T]
    OBVIOUS
  <2>1. T # {} /\ IsFiniteSet(T) /\ T \in SUBSET S
    BY <1>0, FS_EmptySet
  <2> DEFINE x == picked(T)
  <2>2. x \in T
    BY <2>1, PickedIn
  <2>3. sums[T] = f[x] + sums[T \ {x}] /\ others[T] = f[x] + others[T \ {x}]
    BY <2>1 DEF SumsOver
  <2> HIDE DEF x
  <2>4. Cardinality(T \ {x}) = Cardinality(T) - 1
    BY <2>1, <2>2, FS_RemoveElement, Zenon
  <2>5. Cardinality(T \ {x}) = n /\ T \ {x} \in SUBSET R
    BY <2>4
  <2>6. sums[T \ {x}] = others[T \ {x}]
    BY <1>2, <2>5
  <2> QED BY <2>3, <2>6
<1> HIDE DEF N
<1>3. Nat \subseteq N
  BY <1>1, <1>2, Powering!Induction
<1>4. R \in SUBSET R /\ Cardinality(R) \in N
  BY <1>0, <1>3
<1> QED BY <1>4 DEF N

LEMMA SumOfNone == ASSUME NEW f PROVE SumOn(f, {}) = 0
<1>1. PICK sums : SumsOver(SUBSET {}, f, sums) /\ SumOn(f, {}) = sums[{}]
  BY FS_EmptySet, SumIs
<1> QED BY <1>1 DEF SumsOver

LEMMA SumPicked ==
    ASSUME NEW f, NEW S, IsFiniteSet(S), S # {}
    PROVE  SumOn(f, S) = f[picked(S)] + SumOn(f, S \ {picked(S)})
<1> DEFINE x == picked(S)
           R == S \ {x}
<1>1. PICK sums : SumsOver(SUBSET S, f, sums) /\ SumOn(f, S) = sums[S]
  BY SumIs
<1>2. IsFiniteSet(R) /\ R \subseteq S
  BY FS_RemoveElement
<1> HIDE DEF R
<1>3. PICK others : SumsOver(SUBSET R, f, others) /\ SumOn(f, R) = others[R]
  BY <1>2, SumIs
<1>4. sums[R] = others[R]
  <2>1. SubsetSums(f, S, sums)
    BY <1>1 DEF SubsetSums
  <2>2. SubsetSums(f, R, others)
    BY <1>2, <1>3 DEF SubsetSums
  <2>3. R \in SUBSET S
    BY <1>2
  <2> QED BY <2>1, <2>2, <2>3, SumsAgree
<1>5. sums[S] = f[x] + sums[R]
  BY <1>1 DEF SumsOver, R
<1> QED BY <1>1, <1>3, <1>4, <1>5 DEF R

LEMMA SumType ==
    ASSUME NEW S, IsFiniteSet(S), NEW f, \A x \in S : f[x] \in Int
    PROVE  SumOn(f, S) \in Int
<1> DEFINE N == {n \in Nat : \A T \in SUBSET S : Cardinality(T) = n => SumOn(f, T) \in Int}
<1>0. \A T \in SUBSET S : IsFiniteSet(T) /\ Cardinality(T) \in Nat
  BY FS_Subset, FS_CardinalityType
<1>1. 0 \in N
  BY <1>0, FS_EmptySet, SumOfNone
<1>2. ASSUME NEW n \in Nat, n \in N PROVE n + 1 \in N
  <2> SUFFICES ASSUME NEW T \in SUBSET S, Cardinality(T) = n + 1 PROVE SumOn(f, T) \in Int
    OBVIOUS
  <2>1. T # {} /\ IsFiniteSet(T)
    BY <1>0, FS_EmptySet
  <2> DEFINE x == picked(T)
  <2>2. x \in T /\ SumOn(f, T) = f[x] + SumOn(f, T \ {x})
    BY <2>1, PickedIn, SumPicked
  <2> HIDE DEF x
  <2>3. Cardinality(T \ {x}) = Cardinality(T) - 1
    BY <2>1, <2>2, FS_RemoveElement, Zenon
  <2>4. Cardinality(T \ {x}) = n /\ T \ {x} \in SUBSET S
    BY <2>3
  <2>5. SumOn(f, T \ {x}) \in Int
    BY <1>2, <2>4
  <2> QED BY <2>2, <2>5
<1> HIDE DEF N
<1>3. Nat \subseteq N
  BY <1>1, <1>2, Powering!Induction
<1> QED BY <1>0, <1>3 DEF N

(* Any element may be taken out of a sum. *)
LEMMA SumWithout ==
    ASSUME NEW S, IsFiniteSet(S), NEW f, \A x \in S : f[x] \in Int, NEW y \in S
    PROVE  SumOn(f, S) = f[y] + SumOn(f, S \ {y})
<1> DEFINE N == {n \in Nat : \A T \in SUBSET S : \A z \in T :
                    Cardinality(T) = n => SumOn(f, T) = f[z] + SumOn(f, T \ {z})}
<1>0. \A T \in SUBSET S : IsFiniteSet(T) /\ Cardinality(T) \in Nat
  BY FS_Subset, FS_CardinalityType
<1>1. 0 \in N
  BY <1>0, FS_EmptySet
<1>2. ASSUME NEW n \in Nat, n \in N PROVE n + 1 \in N
  <2> SUFFICES ASSUME NEW T \in SUBSET S, NEW z \in T, Cardinality(T) = n + 1
               PROVE  SumOn(f, T) = f[z] + SumOn(f, T \ {z})
    OBVIOUS
  <2>1. T # {} /\ IsFiniteSet(T)
    BY <1>0
  <2> DEFINE x == picked(T)
             rest == T \ {x}
             other == T \ {z}
             both == T \ {x, z}
  <2>2. x \in T /\ SumOn(f, T) = f[x] + SumOn(f, rest)
    BY <2>1, PickedIn, SumPicked
  <2>3. CASE x = z
    BY <2>2, <2>3
  <2>4. CASE x # z
    <3> HIDE DEF x
    <3>1. Cardinality(rest) = Cardinality(T) - 1 /\ Cardinality(other) = Cardinality(T) - 1
      BY <2>1, <2>2, FS_RemoveElement, Zenon
    <3>2. /\ Cardinality(rest) = n /\ rest \in SUBSET S /\ z \in rest
          /\ Cardinality(other) = n /\ other \in SUBSET S /\ x \in other
      BY <2>2, <2>4, <3>1
    <3>3. rest \ {z} = both /\ other \ {x} = both /\ both \in SUBSET S
      OBVIOUS
    <3> HIDE DEF rest, other, both
    <3>4. SumOn(f, rest) = f[z] + SumOn(f, rest \ {z}) /\ SumOn(f, other) = f[x] + SumOn(f, other \ {x})
      BY <1>2, <3>2
    <3>5. f[x] \in Int /\ f[z] \in Int /\ SumOn(f, both) \in Int
      <4>1. IsFiniteSet(both) /\ \A v \in both : f[v] \in Int
        BY <1>0, <3>3
      <4> QED BY <2>2, <4>1, SumType
    <3>6. SumOn(f, rest) = f[z] + SumOn(f, both) /\ SumOn(f, other) = f[x] + SumOn(f, both)
      BY <3>3, <3>4, Zenon
    <3>7. SumOn(f, T) = f[x] + SumOn(f, rest)
      BY <2>2
    <3>8. SumOn(f, T) = f[z] + SumOn(f, other)
      BY <3>5, <3>6, <3>7
    <3> QED BY <3>8 DEF other
  <2> QED BY <2>3, <2>4
<1> HIDE DEF N
<1>3. Nat \subseteq N
  BY <1>1, <1>2, Powering!Induction
<1>4. Cardinality(S) \in N
  BY <1>0, <1>3
<1> QED BY <1>4 DEF N

LEMMA SumWith ==
    ASSUME NEW S, IsFiniteSet(S), NEW y, y \notin S,
           NEW f, \A x \in S \union {y} : f[x] \in Int
    PROVE  SumOn(f, S \union {y}) = f[y] + SumOn(f, S)
<1> DEFINE T == S \union {y}
<1>1. IsFiniteSet(T) /\ y \in T /\ T \ {y} = S
  BY FS_AddElement
<1>2. \A x \in T : f[x] \in Int
  OBVIOUS
<1> HIDE DEF T
<1>3. SumOn(f, T) = f[y] + SumOn(f, T \ {y})
  BY <1>1, <1>2, SumWithout
<1> QED BY <1>1, <1>3 DEF T

(* What the sums over a set and over the same set with one more element say. *)
LEMMA SumSame ==
    ASSUME NEW S, IsFiniteSet(S), NEW f, NEW g, \A x \in S : f[x] \in Int /\ g[x] = f[x]
    PROVE  SumOn(g, S) = SumOn(f, S)
<1> DEFINE C == {T \in SUBSET S : SumOn(g, T) = SumOn(f, T)}
<1>1. {} \in C
  BY SumOfNone
<1>2. ASSUME NEW T \in SUBSET S, NEW x \in S \ T, T \in C PROVE T \union {x} \in C
  <2>1. IsFiniteSet(T) /\ (\A y \in T \union {x} : f[y] \in Int /\ g[y] \in Int)
    BY FS_Subset
  <2>2. SumOn(f, T \union {x}) = f[x] + SumOn(f, T) /\ SumOn(g, T \union {x}) = g[x] + SumOn(g, T)
    BY <2>1, SumWith
  <2> QED BY <1>2, <2>2
<1> HIDE DEF C
<1>3. S \in C
  BY <1>1, <1>2, SetInduction
<1> QED BY <1>3 DEF C

LEMMA SumPlus ==
    ASSUME NEW S, IsFiniteSet(S), NEW f, NEW g, NEW h,
           \A x \in S : f[x] \in Int /\ g[x] \in Int /\ h[x] = f[x] + g[x]
    PROVE  SumOn(h, S) = SumOn(f, S) + SumOn(g, S)
<1> DEFINE C == {T \in SUBSET S : SumOn(h, T) = SumOn(f, T) + SumOn(g, T)}
<1>1. {} \in C
  BY SumOfNone
<1>2. ASSUME NEW T \in SUBSET S, NEW x \in S \ T, T \in C PROVE T \union {x} \in C
  <2>1. IsFiniteSet(T) /\ (\A y \in T \union {x} : f[y] \in Int /\ g[y] \in Int /\ h[y] \in Int)
    BY FS_Subset
  <2>2. /\ SumOn(f, T \union {x}) = f[x] + SumOn(f, T)
        /\ SumOn(g, T \union {x}) = g[x] + SumOn(g, T)
        /\ SumOn(h, T \union {x}) = h[x] + SumOn(h, T)
    BY <2>1, SumWith
  <2>3. SumOn(f, T) \in Int /\ SumOn(g, T) \in Int
    BY <2>1, SumType
  <2> QED BY <1>2, <2>1, <2>2, <2>3
<1> HIDE DEF C
<1>3. S \in C
  BY <1>1, <1>2, SetInduction
<1> QED BY <1>3 DEF C

LEMMA SumTimes ==
    ASSUME NEW S, IsFiniteSet(S), NEW f, NEW h, NEW c \in Int,
           \A x \in S : f[x] \in Int /\ h[x] = c * f[x]
    PROVE  SumOn(h, S) = c * SumOn(f, S)
<1> DEFINE C == {T \in SUBSET S : SumOn(h, T) = c * SumOn(f, T)}
<1>1. {} \in C
  BY SumOfNone
<1>2. ASSUME NEW T \in SUBSET S, NEW x \in S \ T, T \in C PROVE T \union {x} \in C
  <2>1. IsFiniteSet(T) /\ (\A y \in T \union {x} : f[y] \in Int /\ h[y] \in Int)
    BY FS_Subset
  <2>2. /\ SumOn(f, T \union {x}) = f[x] + SumOn(f, T)
        /\ SumOn(h, T \union {x}) = h[x] + SumOn(h, T)
    BY <2>1, SumWith
  <2>3. SumOn(f, T) \in Int
    BY <2>1, SumType
  <2>4. c * (f[x] + SumOn(f, T)) = c * f[x] + c * SumOn(f, T)
    BY <2>1, <2>3, Distribute
  <2> QED BY <1>2, <2>1, <2>2, <2>4
<1> HIDE DEF C
<1>3. S \in C
  BY <1>1, <1>2, SetInduction
<1> QED BY <1>3 DEF C

(* Terms that are 0 may be left out. *)
LEMMA SumSupport ==
    ASSUME NEW S, IsFiniteSet(S), NEW R \in SUBSET S, NEW f,
           \A x \in S : f[x] \in Int, \A x \in S \ R : f[x] = 0
    PROVE  SumOn(f, S) = SumOn(f, R)
<1> DEFINE C == {T \in SUBSET S : SumOn(f, T) = SumOn(f, T \intersect R)}
<1>1. {} \in C
  BY SumOfNone
<1>2. ASSUME NEW T \in SUBSET S, NEW x \in S \ T, T \in C PROVE T \union {x} \in C
  <2>1. IsFiniteSet(T) /\ IsFiniteSet(T \intersect R)
    BY FS_Subset
  <2>2. SumOn(f, T \union {x}) = f[x] + SumOn(f, T)
    BY <2>1, SumWith
  <2>3. CASE x \in R
    <3>1. (T \union {x}) \intersect R = (T \intersect R) \union {x} /\ x \notin T \intersect R
      BY <2>3
    <3>2. SumOn(f, (T \intersect R) \union {x}) = f[x] + SumOn(f, T \intersect R)
      BY <2>1, <3>1, SumWith
    <3> QED BY <1>2, <2>2, <3>1, <3>2
  <2>4. CASE x \notin R
    <3>1. (T \union {x}) \intersect R = T \intersect R
      BY <2>4
    <3>2. SumOn(f, T) \in Int
      BY <2>1, SumType
    <3>3. SumOn(f, T \union {x}) = SumOn(f, T)
      BY <2>2, <2>4, <3>2
    <3> QED BY <1>2, <3>1, <3>3
  <2> QED BY <2>3, <2>4
<1> HIDE DEF C
<1>3. S \in C
  BY <1>1, <1>2, SetInduction
<1>4. S \intersect R = R
  OBVIOUS
<1> QED BY <1>3, <1>4 DEF C

LEMMA SumUnion ==
    ASSUME NEW S, IsFiniteSet(S), NEW R, IsFiniteSet(R), S \intersect R = {}, NEW f,
           \A x \in S \union R : f[x] \in Int
    PROVE  SumOn(f, S \union R) = SumOn(f, S) + SumOn(f, R)
<1> DEFINE C == {T \in SUBSET S : SumOn(f, T \union R) = SumOn(f, T) + SumOn(f, R)}
<1>0. SumOn(f, R) \in Int
  BY SumType
<1>1. {} \in C
  <2>1. {} \union R = R
    OBVIOUS
  <2> QED BY <1>0, <2>1, SumOfNone
<1>2. ASSUME NEW T \in SUBSET S, NEW x \in S \ T, T \in C PROVE T \union {x} \in C
  <2>1. IsFiniteSet(T) /\ IsFiniteSet(T \union R)
    BY FS_Subset, FS_Union
  <2>2. SumOn(f, T \union {x}) = f[x] + SumOn(f, T)
    BY <2>1, SumWith
  <2>3. (T \union {x}) \union R = (T \union R) \union {x} /\ x \notin T \union R
    OBVIOUS
  <2>4. SumOn(f, (T \union R) \union {x}) = f[x] + SumOn(f, T \union R)
    BY <2>1, <2>3, SumWith
  <2>5. SumOn(f, T) \in Int /\ f[x] \in Int
    BY <2>1, SumType
  <2>6. SumOn(f, T \union R) = SumOn(f, T) + SumOn(f, R)
    BY <1>2
  <2>7. SumOn(f, (T \union R) \union {x}) = SumOn(f, T \union {x}) + SumOn(f, R)
    BY <1>0, <2>2, <2>4, <2>5, <2>6
  <2> QED BY <2>3, <2>7
<1> HIDE DEF C
<1>3. S \in C
  BY <1>1, <1>2, SetInduction
<1> QED BY <1>3 DEF C

(* Only the remainders of the terms count for the remainder of the sum. *)
LEMMA SumMod ==
    ASSUME NEW S, IsFiniteSet(S), NEW f, NEW g,
           \A x \in S : f[x] \in Int /\ g[x] \in Int /\ g[x] % Field = f[x] % Field
    PROVE  SumOn(g, S) % Field = SumOn(f, S) % Field
<1> DEFINE C == {T \in SUBSET S : SumOn(g, T) % Field = SumOn(f, T) % Field}
<1>1. {} \in C
  BY SumOfNone
<1>2. ASSUME NEW T \in SUBSET S, NEW x \in S \ T, T \in C PROVE T \union {x} \in C
  <2>1. IsFiniteSet(T) /\ (\A y \in T \union {x} : f[y] \in Int /\ g[y] \in Int)
    BY FS_Subset
  <2>2. SumOn(f, T \union {x}) = f[x] + SumOn(f, T) /\ SumOn(g, T \union {x}) = g[x] + SumOn(g, T)
    BY <2>1, SumWith
  <2>3. SumOn(f, T) \in Int /\ SumOn(g, T) \in Int
    BY <2>1, SumType
  <2>4. (g[x] + SumOn(g, T)) % Field = (f[x] + SumOn(f, T)) % Field
    <3>1. g[x] % Field = f[x] % Field /\ SumOn(g, T) % Field = SumOn(f, T) % Field
      BY <1>2
    <3>2. f[x] \in Int /\ g[x] \in Int
      OBVIOUS
    <3> HIDE DEF C
    <3>3. AddMod(g[x], SumOn(g, T)) = AddMod(f[x], SumOn(f, T))
      BY <2>3, <3>1, <3>2, SameSums
    <3> QED BY <3>3 DEF AddMod
  <2> QED BY <2>2, <2>4
<1> HIDE DEF C
<1>3. S \in C
  BY <1>1, <1>2, SetInduction
<1> QED BY <1>3 DEF C

-----------------------------------------------------------------------------
(* Bits *)

two(n) == Power(2, n)

(* Powers of two. *)
LEMMA TwoFacts ==
    /\ two(0) = 1
    /\ \A n \in Nat : two(n) \in Nat /\ two(n) > n /\ two(n + 1) = 2 * two(n)
<1> DEFINE S == {n \in Nat : two(n) \in Nat /\ two(n) > n}
<1>1. two(0) = 1 /\ \A n \in Nat : two(n + 1) = 2 * two(n)
  BY PowerValues DEF two
<1>2. 0 \in S
  BY <1>1
<1>3. ASSUME NEW n \in Nat, n \in S PROVE n + 1 \in S
  BY <1>1, <1>3
<1> HIDE DEF S
<1>4. Nat \subseteq S
  BY <1>2, <1>3, Powering!Induction
<1> QED BY <1>1, <1>4 DEF S

(* The number of bits is the one a reader expects. *)
LEMMA NumBitsFacts ==
    NumBits \in Nat /\ NumBits > 0 /\ two(NumBits - 1) <= Field /\ Field < two(NumBits)
<1> DEFINE S == {b \in Nat : Field < two(b)}
<1>1. Field \in S
  BY FieldFacts, TwoFacts
<1>2. PICK b \in S : \A k \in S : b <= k
  <2>1. S \in SUBSET Nat /\ S # {}
    BY <1>1
  <2> HIDE DEF S
  <2> QED BY <2>1, Powering!LeastNumber
<1>3. b # 0
  BY TwoFacts, FieldFacts
<1>4. b - 1 \in Nat /\ b - 1 \notin S
  BY <1>2, <1>3
<1>5. b \in 1 .. Field /\ two(b - 1) <= Field /\ Field < two(b)
  BY <1>1, <1>2, <1>3, <1>4, TwoFacts, FieldFacts
<1>6. NumBits \in 1 .. Field /\ two(NumBits - 1) <= Field /\ Field < two(NumBits)
  BY <1>5 DEF NumBits, two
<1> QED BY <1>6, FieldFacts

(* A set of places is the number that is the sum of its powers of two. *)
LEMMA OfBitsSum ==
    ASSUME NEW S \in SUBSET Nat, IsFiniteSet(S)
    PROVE  OfBits(S) = SumOn(Powers(2), S) /\ OfBits(S) \in Int
<1> DEFINE g == [i \in S |-> Power(2, i)]
<1>1. OfBits(S) = SumOn(g, S)
  BY DEF OfBits, SumFunction, SumOn
<1>2. \A i \in S : Powers(2)[i] \in Int /\ g[i] = Powers(2)[i]
  BY PowerType DEF Power
<1> HIDE DEF g
<1>3. SumOn(g, S) = SumOn(Powers(2), S)
  BY <1>2, SumSame
<1> QED BY <1>1, <1>2, <1>3, SumType

LEMMA PowersType == \A i \in Nat : Powers(2)[i] \in Int /\ Powers(2)[i] = two(i)
BY PowerType DEF Power, two

(* The places below n of the ones of x. *)
digits(x, n) == {i \in 0 .. (n - 1) : (x \div two(i)) % 2 = 1}

LEMMA DigitsFinite ==
    ASSUME NEW x, NEW n \in Nat
    PROVE  digits(x, n) \in SUBSET Nat /\ IsFiniteSet(digits(x, n))
<1>1. digits(x, n) \subseteq 0 .. (n - 1) /\ 0 .. (n - 1) \subseteq Nat
  BY DEF digits
<1>2. IsFiniteSet(0 .. (n - 1))
  BY FS_Interval
<1> QED BY <1>1, <1>2, FS_Subset

(* One more digit: the quotient gives it up. *)
LEMMA NextDigit ==
    ASSUME NEW x \in Nat, NEW p \in Nat, p > 0
    PROVE  x % (2 * p) = (x % p) + p * ((x \div p) % 2)
<1> DEFINE q == x \div p
           r == x % p
           h == q \div 2
           b == q % 2
<1>1. q \in Int /\ r \in 0 .. (p - 1) /\ x = p * q + r
  BY Division
<1>2. h \in Int /\ b \in 0 .. 1 /\ q = 2 * h + b
  BY <1>1
<1> HIDE DEF q, r, h, b
<1>3. x = (2 * p) * h + (r + p * b)
  <2>1. p * q = p * (2 * h) + p * b
    BY <1>2, Distribute
  <2>2. p * (2 * h) = (2 * p) * h
    BY <1>2
  <2>3. p * b \in Int /\ (2 * p) * h \in Int
    BY <1>2
  <2> QED BY <1>1, <2>1, <2>2, <2>3
<1>4. r + p * b \in 0 .. (2 * p - 1)
  <2>1. p * b = 0 \/ p * b = p
    BY <1>2
  <2> QED BY <1>1, <2>1
<1> DEFINE m == 2 * p
           s == r + p * b
<1>5. m \in Nat /\ m > 0 /\ s \in 0 .. (m - 1) /\ x = m * h + s
  BY <1>3, <1>4
<1> HIDE DEF m, s
<1>6. x % m = s
  BY <1>2, <1>5, Quotient
<1> QED BY <1>6 DEF m, s, r, b, q

(* The digits below n make up the number, but for what is above them. *)
LEMMA DigitsValue ==
    ASSUME NEW x \in Nat
    PROVE  \A n \in Nat : SumOn(Powers(2), digits(x, n)) = x % two(n)
<1> DEFINE S == {n \in Nat : SumOn(Powers(2), digits(x, n)) = x % two(n)}
<1>1. 0 \in S
  <2>1. digits(x, 0) = {}
    BY DEF digits
  <2>2. x % 1 = 0
    OBVIOUS
  <2> QED BY <2>1, <2>2, SumOfNone, TwoFacts
<1>2. ASSUME NEW n \in Nat, n \in S PROVE n + 1 \in S
  <2> DEFINE b == (x \div two(n)) % 2
             low == digits(x, n)
  <2>1. SumOn(Powers(2), low) = x % two(n)
    BY <1>2
  <2>2. x % two(n + 1) = (x % two(n)) + two(n) * b
    <3>1. two(n) \in Nat /\ two(n) > 0 /\ two(n + 1) = 2 * two(n)
      BY TwoFacts
    <3> QED BY <3>1, NextDigit
  <2>3. two(n) \in Nat /\ two(n) > 0 /\ x \div two(n) \in Nat
    BY TwoFacts
  <2>4. b \in {0, 1} /\ x % two(n) \in Int
    BY <2>3
  <2>5. CASE b = 0
    <3>1. digits(x, n + 1) = low
      BY <2>5 DEF digits
    <3> HIDE DEF b
    <3>2. x % two(n + 1) = x % two(n)
      BY <2>2, <2>3, <2>4, <2>5
    <3> QED BY <2>1, <3>1, <3>2
  <2>6. CASE b = 1
    <3>1. digits(x, n + 1) = low \union {n} /\ n \notin low
      BY <2>6 DEF digits
    <3>2. SumOn(Powers(2), low \union {n}) = Powers(2)[n] + SumOn(Powers(2), low)
      <4>1. \A y \in low \union {n} : Powers(2)[y] \in Int
        BY DigitsFinite, PowersType
      <4>2. IsFiniteSet(low)
        BY DigitsFinite
      <4> HIDE DEF low
      <4> QED BY <3>1, <4>1, <4>2, SumWith
    <3> HIDE DEF b
    <3>3. x % two(n + 1) = two(n) + (x % two(n))
      BY <2>2, <2>3, <2>4, <2>6
    <3>4. SumOn(Powers(2), digits(x, n + 1)) = x % two(n + 1)
      BY <2>1, <3>1, <3>2, <3>3, PowersType
    <3> QED BY <3>4
  <2> QED BY <2>4, <2>5, <2>6
<1> HIDE DEF S
<1>3. Nat \subseteq S
  BY <1>1, <1>2, Powering!Induction
<1> QED BY <1>3 DEF S

(* Bits and digits are the same. *)
LEMMA BitsAreDigits == ASSUME NEW x PROVE Bits(x) = digits(x, NumBits)
BY DEF Bits, digits, two

LEMMA BitsFinite ==
    ASSUME NEW x
    PROVE  Bits(x) \in SUBSET Nat /\ Bits(x) \subseteq 0 .. (NumBits - 1) /\ IsFiniteSet(Bits(x))
<1>1. Bits(x) \subseteq 0 .. (NumBits - 1)
  BY DEF Bits
<1> QED BY <1>1, BitsAreDigits, DigitsFinite, NumBitsFacts

(* A number is the sum of its bits. *)
LEMMA BitsValue ==
    ASSUME NEW x \in Elements
    PROVE  OfBits(Bits(x)) = x
<1>1. OfBits(Bits(x)) = x % two(NumBits)
  <2>1. x \in Nat
    BY FieldFacts DEF Elements
  <2>2. OfBits(Bits(x)) = SumOn(Powers(2), Bits(x))
    BY BitsFinite, OfBitsSum
  <2>3. SumOn(Powers(2), digits(x, NumBits)) = x % two(NumBits)
    BY <2>1, DigitsValue, NumBitsFacts
  <2> QED BY <2>2, <2>3, BitsAreDigits
<1>2. x \in Nat /\ two(NumBits) \in Nat /\ x < two(NumBits)
  BY NumBitsFacts, TwoFacts, FieldFacts DEF Elements
<1>3. x % two(NumBits) = x
  BY <1>2
<1> QED BY <1>1, <1>3

LEMMA AllOnes ==
    \A n \in Nat : SumOn(Powers(2), 0 .. (n - 1)) = two(n) - 1
<1> DEFINE S == {n \in Nat : SumOn(Powers(2), 0 .. (n - 1)) = two(n) - 1}
<1>1. 0 \in S
  <2>1. 0 .. (0 - 1) = {}
    OBVIOUS
  <2> QED BY <2>1, SumOfNone, TwoFacts
<1>2. ASSUME NEW n \in Nat, n \in S PROVE n + 1 \in S
  <2> DEFINE low == 0 .. (n - 1)
  <2>1. 0 .. ((n + 1) - 1) = low \union {n} /\ n \notin low /\ low \subseteq Nat
    OBVIOUS
  <2>2. IsFiniteSet(low)
    BY FS_Interval
  <2>3. SumOn(Powers(2), low) = two(n) - 1
    BY <1>2
  <2> HIDE DEF low
  <2>4. \A y \in low \union {n} : Powers(2)[y] \in Int
    BY <2>1, PowersType
  <2>5. SumOn(Powers(2), low \union {n}) = Powers(2)[n] + SumOn(Powers(2), low)
    BY <2>1, <2>2, <2>4, SumWith
  <2>6. SumOn(Powers(2), low \union {n}) = two(n + 1) - 1
    BY <2>3, <2>5, PowersType, TwoFacts
  <2>7. SumOn(Powers(2), 0 .. ((n + 1) - 1)) = two(n + 1) - 1
    BY <2>1, <2>6, Zenon
  <2> QED BY <2>7
<1> HIDE DEF S
<1>3. Nat \subseteq S
  BY <1>1, <1>2, Powering!Induction
<1> QED BY <1>3 DEF S

(* The complement has the ones where the number has none. *)
LEMMA ComplementValue ==
    ASSUME NEW x \in Elements
    PROVE  Complement(x) = OfBits((0 .. (NumBits - 1)) \ Bits(x)) % Field
<1> DEFINE all == 0 .. (NumBits - 1)
           rest == all \ Bits(x)
           ones == Bits(x)
<1>1. /\ IsFiniteSet(ones) /\ IsFiniteSet(rest) /\ ones \in SUBSET Nat /\ rest \in SUBSET Nat
      /\ ones \intersect rest = {} /\ ones \union rest = all
  <2>1. IsFiniteSet(all) /\ all \subseteq Nat
    BY FS_Interval, NumBitsFacts
  <2>2. ones \in SUBSET all /\ rest \in SUBSET all /\ ones \intersect rest = {} /\ ones \union rest = all
    BY BitsFinite
  <2> HIDE DEF all, ones, rest
  <2>3. IsFiniteSet(ones) /\ IsFiniteSet(rest)
    BY <2>1, <2>2, FS_Subset
  <2> QED BY <2>1, <2>2, <2>3
<1>2. SumOn(Powers(2), all) = two(NumBits) - 1
  BY AllOnes, NumBitsFacts
<1>3. OfBits(ones) = x
  BY BitsValue
<1>4. x % two(NumBits) = x /\ x \in Nat /\ two(NumBits) \in Nat
  <2>1. x \in Nat /\ two(NumBits) \in Nat /\ x < two(NumBits)
    BY NumBitsFacts, TwoFacts, FieldFacts DEF Elements
  <2> QED BY <2>1
<1>5. Complement(x) = ((two(NumBits) - 1) - x) % Field
  BY <1>4 DEF Complement, Mask, two
<1> HIDE DEF all, rest, ones
<1>6. OfBits(ones) = SumOn(Powers(2), ones) /\ OfBits(rest) = SumOn(Powers(2), rest) /\ OfBits(rest) \in Int
  BY <1>1, OfBitsSum
<1>7. \A y \in ones \union rest : Powers(2)[y] \in Int
  BY <1>1, PowersType
<1>8. SumOn(Powers(2), ones \union rest) = SumOn(Powers(2), ones) + SumOn(Powers(2), rest)
  BY <1>1, <1>7, SumUnion
<1>9. OfBits(rest) = (two(NumBits) - 1) - x
  <2>1. two(NumBits) - 1 = x + OfBits(rest)
    BY <1>1, <1>2, <1>3, <1>6, <1>8
  <2> QED BY <1>4, <1>6, <2>1
<1> QED BY <1>5, <1>9 DEF all, rest, ones

(* Moving every one k places up multiplies by a power of two. *)
LEMMA ShiftedSum ==
    ASSUME NEW S \in SUBSET Nat, IsFiniteSet(S), NEW k \in Nat
    PROVE  /\ SumOn(Powers(2), {i + k : i \in S}) = two(k) * SumOn(Powers(2), S)
           /\ IsFiniteSet({i + k : i \in S})
<1> DEFINE up(T) == {i + k : i \in T}
           C == {T \in SUBSET S : /\ IsFiniteSet(up(T))
                                  /\ SumOn(Powers(2), up(T)) = two(k) * SumOn(Powers(2), T)}
<1>1. {} \in C
  <2>1. up({}) = {} /\ IsFiniteSet({})
    BY FS_EmptySet
  <2>2. two(k) * 0 = 0
    BY TwoFacts
  <2> QED BY <2>1, <2>2, SumOfNone
<1>2. ASSUME NEW T \in SUBSET S, NEW x \in S \ T, T \in C PROVE T \union {x} \in C
  <2>1. up(T \union {x}) = up(T) \union {x + k}
    OBVIOUS
  <2>2. x + k \notin up(T) /\ up(T) \subseteq Nat /\ x + k \in Nat
    OBVIOUS
  <2>3. /\ IsFiniteSet(up(T)) /\ SumOn(Powers(2), up(T)) = two(k) * SumOn(Powers(2), T)
        /\ IsFiniteSet(T) /\ T \in SUBSET Nat /\ x \in Nat /\ x \notin T
    BY <1>2, FS_Subset
  <2> HIDE DEF up
  <2>4. IsFiniteSet(up(T) \union {x + k})
    BY <2>3, FS_AddElement
  <2>5. \A y \in up(T) \union {x + k} : Powers(2)[y] \in Int
    BY <2>2, PowersType
  <2>6. SumOn(Powers(2), up(T) \union {x + k}) = Powers(2)[x + k] + SumOn(Powers(2), up(T))
    BY <2>2, <2>3, <2>5, SumWith
  <2>7. \A y \in T \union {x} : Powers(2)[y] \in Int
    BY <2>3, PowersType
  <2>8. SumOn(Powers(2), T \union {x}) = Powers(2)[x] + SumOn(Powers(2), T)
    BY <2>3, <2>7, SumWith
  <2>9. Powers(2)[x + k] = two(k) * two(x) /\ Powers(2)[x] = two(x)
    <3>1. Power(2, k + x) = Power(2, k) * Power(2, x) /\ k + x = x + k
      BY <2>3, PowerOfSum
    <3> QED BY <2>2, <2>3, <3>1, PowersType DEF two
  <2>10. SumOn(Powers(2), T) \in Int
    BY <2>3, <2>7, SumType
  <2>11. two(k) * (two(x) + SumOn(Powers(2), T)) = two(k) * two(x) + two(k) * SumOn(Powers(2), T)
    BY <2>3, <2>10, Distribute, TwoFacts
  <2>12. SumOn(Powers(2), up(T \union {x})) = two(k) * SumOn(Powers(2), T \union {x})
    BY <2>1, <2>3, <2>6, <2>8, <2>9, <2>11
  <2> QED BY <2>1, <2>4, <2>12
<1>3. S \in C
  <2> HIDE DEF C
  <2> QED BY <1>1, <1>2, SetInduction
<1> QED BY <1>3

(* A product with a power of two, cut off at another. *)
LEMMA ShiftedRemainder ==
    ASSUME NEW x \in Nat, NEW p \in Nat, p > 0, NEW m \in Nat, m > 0
    PROVE  (x * p) % (p * m) = p * (x % m)
<1> DEFINE q == x \div m
           r == x % m
<1>1. q \in Int /\ r \in 0 .. (m - 1) /\ x = m * q + r
  BY Division
<1> HIDE DEF q, r
<1> DEFINE n == p * m
           s == p * r
           y == x * p
<1>2. y = n * q + s
  <2>1. y = (m * q) * p + r * p
    BY <1>1, ProductFacts
  <2>2. (m * q) * p = (p * m) * q /\ r * p = p * r
    BY <1>1
  <2> QED BY <2>1, <2>2
<1>3. n \in Nat /\ n > 0 /\ s \in 0 .. (n - 1)
  <2>1. n = p * (m - 1 - r) + s + p
    BY <1>1
  <2>2. p * (m - 1 - r) \in Nat /\ s \in Nat
    BY <1>1
  <2> HIDE DEF n, s
  <2> QED BY <2>1, <2>2
<1>4. y \in Int
  OBVIOUS
<1> HIDE DEF n, s, y
<1>5. y % n = s
  BY <1>1, <1>2, <1>3, <1>4, Quotient
<1> QED BY <1>5 DEF n, s, y, r

(* A shift to the left moves the ones and drops those above the field's bits. *)
LEMMA ShiftLeftValue ==
    ASSUME NEW x \in Elements, NEW k \in Nat
    PROVE  ShiftLeftBy(x, k) = OfBits({i + k : i \in {j \in Bits(x) : j + k < NumBits}}) % Field
<1> DEFINE kept == {j \in Bits(x) : j + k < NumBits}
           moved == {i + k : i \in kept}
<1>0. x \in Nat /\ NumBits \in Nat
  BY NumBitsFacts, FieldFacts DEF Elements
<1>1. kept \in SUBSET Nat /\ IsFiniteSet(kept) /\ moved \in SUBSET Nat
  BY BitsFinite, FS_Subset
<1>2. SumOn(Powers(2), moved) = two(k) * SumOn(Powers(2), kept) /\ IsFiniteSet(moved)
  <2> HIDE DEF kept
  <2> QED BY <1>1, ShiftedSum
<1>3. OfBits(moved) = SumOn(Powers(2), moved)
  <2> HIDE DEF moved
  <2> QED BY <1>1, <1>2, OfBitsSum
<1>4. ShiftLeftBy(x, k) = ((x * two(k)) % two(NumBits)) % Field
  <2>1. Mask + 1 = two(NumBits)
    BY <1>0, TwoFacts DEF Mask, two
  <2> QED BY <2>1 DEF ShiftLeftBy, two
<1>5. CASE k < NumBits
  <2> DEFINE n == NumBits - k
  <2>1. n \in Nat /\ k + n = NumBits
    BY <1>0, <1>5
  <2>2. kept = digits(x, n)
    BY <1>0, <1>5, BitsAreDigits DEF digits
  <2>3. two(NumBits) = two(k) * two(n)
    <3> HIDE DEF n
    <3>1. Power(2, k + n) = Power(2, k) * Power(2, n)
      BY <2>1, PowerOfSum
    <3> QED BY <2>1, <3>1 DEF two
  <2> HIDE DEF n
  <2>4. SumOn(Powers(2), kept) = x % two(n)
    BY <1>0, <2>1, <2>2, DigitsValue
  <2>5. two(k) \in Nat /\ two(k) > 0 /\ two(n) \in Nat /\ two(n) > 0
    BY <2>1, TwoFacts
  <2>6. (x * two(k)) % (two(k) * two(n)) = two(k) * (x % two(n))
    BY <1>0, <2>5, ShiftedRemainder
  <2> QED BY <1>2, <1>3, <1>4, <2>3, <2>4, <2>6
<1>6. CASE ~(k < NumBits)
  <2>1. kept = {}
    BY <1>0, <1>6, BitsFinite
  <2>2. moved = {}
    BY <2>1
  <2>3. OfBits(moved) = 0
    BY <1>3, <2>2, SumOfNone
  <2> DEFINE n == k - NumBits
  <2>4. n \in Nat /\ NumBits + n = k
    BY <1>0, <1>6
  <2>5. two(k) = two(NumBits) * two(n)
    <3> HIDE DEF n
    <3>1. Power(2, NumBits + n) = Power(2, NumBits) * Power(2, n)
      BY <1>0, <2>4, PowerOfSum
    <3> QED BY <2>4, <3>1 DEF two
  <2> HIDE DEF n
  <2>6. two(NumBits) \in Nat /\ two(NumBits) > 0 /\ two(n) \in Nat
    BY <1>0, <2>4, TwoFacts
  <2>7. (x * two(k)) % two(NumBits) = 0
    <3> DEFINE m == two(NumBits)
               q == x * two(n)
               y == x * two(k)
    <3>1. m \in Nat /\ m > 0 /\ q \in Int /\ y = m * q + 0 /\ y \in Int
      BY <1>0, <2>5, <2>6
    <3> HIDE DEF m, q, y
    <3>2. y % m = 0
      BY <3>1, Quotient
    <3> QED BY <3>2 DEF m, y
  <2>8. 0 % Field = 0
    BY FieldFacts
  <2> QED BY <1>4, <2>3, <2>7, <2>8
<1> QED BY <1>5, <1>6

=============================================================================
