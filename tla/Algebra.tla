------------------------------ MODULE Algebra ------------------------------
(***************************************************************************)
(* The compiler's symbolic arithmetic (circom_algebra/src/algebra.rs):     *)
(* expressions of degree at most two over signals, constraints A*B - C = 0 *)
(* and substitutions.  A HashMap of coefficients is a function whose       *)
(* domain matters: key 0 is the constant, a key may hold the coefficient   *)
(* 0, and a constraint is linear when its maps A and B have no key at all. *)
(***************************************************************************)
EXTENDS ModularArithmetic, FiniteSets

NoKeys == <<>>
One == 0                                 \* the key of the constant

Number(v)          == [kind |-> "Number", value |-> v]
Signal(s)          == [kind |-> "Signal", symbol |-> s]
Linear(m)          == [kind |-> "Linear", c |-> m]
Quadratic(a, b, c) == [kind |-> "Quadratic", a |-> a, b |-> b, c |-> c]
NonQuadratic       == [kind |-> "NonQuadratic"]
DivisionByZero     == [kind |-> "DivisionByZero"]     \* reported
Panic              == [kind |-> "Panic"]              \* not reported: the compiler aborts

IsAffine(e) == e.kind \in {"Number", "Signal", "Linear"}

---------------------------------------------------------------------------
(* Maps of coefficients *)

OneKey(key, v) == [k \in {key} |-> v]

Coefficient(m, k) == IF k \in DOMAIN m THEN m[k] ELSE 0

Initialize(m) == [k \in DOMAIN m \union {One} |-> Coefficient(m, k)]

AddMaps(m, n) ==
    [k \in DOMAIN m \union DOMAIN n |-> AddMod(Coefficient(m, k), Coefficient(n, k))]

Scale(m, v) == [k \in DOMAIN m |-> MulMod(m[k], v)]

RemoveZeros(m) == [k \in {j \in DOMAIN m : m[j] # 0} |-> m[k]]

Without(m, key) == [k \in DOMAIN m \ {key} |-> m[k]]

\* The map an affine operand contributes to a sum or to a product.
MapOf(e) ==
    CASE e.kind = "Number" -> OneKey(One, e.value)
      [] e.kind = "Signal" -> Initialize(OneKey(e.symbol, 1))
      [] e.kind = "Linear" -> e.c

---------------------------------------------------------------------------
(* Operations on expressions *)

Add(l, r) ==
    CASE l.kind = "Number" /\ r.kind = "Number" -> Number(AddMod(l.value, r.value))
      [] IsAffine(l) /\ IsAffine(r) /\ {l.kind, r.kind} # {"Number"} ->
            Linear(AddMaps(MapOf(l), MapOf(r)))
      [] IsAffine(l) /\ r.kind = "Quadratic" -> [r EXCEPT !.c = AddMaps(MapOf(l), @)]
      [] l.kind = "Quadratic" /\ IsAffine(r) -> [l EXCEPT !.c = AddMaps(MapOf(r), @)]
      [] OTHER -> NonQuadratic

ScaleExpr(v, e) ==
    CASE e.kind = "Number"    -> Number(MulMod(v, e.value))
      [] e.kind \in {"Signal", "Linear"} -> Linear(Scale(MapOf(e), v))
      [] e.kind = "Quadratic" -> [e EXCEPT !.a = Scale(@, v), !.c = Scale(@, v)]
      [] OTHER -> NonQuadratic

Mul(l, r) ==
    CASE l.kind = "Number" -> ScaleExpr(l.value, r)
      [] l.kind # "Number" /\ r.kind = "Number" -> ScaleExpr(r.value, l)
      [] l.kind = "Signal" /\ r.kind = "Linear" -> Quadratic(MapOf(r), MapOf(l), Initialize(NoKeys))
      [] <<l.kind, r.kind>> \in {<<"Signal", "Signal">>, <<"Linear", "Signal">>, <<"Linear", "Linear">>} ->
            Quadratic(MapOf(l), MapOf(r), Initialize(NoKeys))
      [] OTHER -> NonQuadratic

Sub(l, r) == Add(l, Mul(Number(-1), r))
PrefixSub(e) == Mul(e, Number(-1))

Div(l, r) ==
    IF r.kind # "Number" \/ l.kind = "NonQuadratic" THEN NonQuadratic
    ELSE IF Inverses(r.value) = {} THEN DivisionByZero
    ELSE IF l.kind = "Number" THEN Number(DivMod(l.value, r.value))
    ELSE ScaleExpr(DivMod(1, r.value), l)

Pow(l, r) ==
    CASE l.kind = "Number" /\ r.kind = "Number" -> Number(PowMod(l.value, r.value))
      [] l.kind \in {"Signal", "Linear"} /\ r = Number(2) -> Mul(l, l)
      [] OTHER -> NonQuadratic

\* The operators that only fold numbers.
Comparison(op, x, y) ==
    CASE op = "LesserEq" -> LesserEq(x, y)
      [] op = "GreaterEq" -> GreaterEq(x, y)
      [] op = "Lesser" -> Lesser(x, y)
      [] op = "Greater" -> Greater(x, y)
      [] op = "Eq" -> Equal(x, y)
      [] op = "NotEq" -> NotEqual(x, y)

Computation(op, x, y) ==
    CASE op = "IntDiv" -> IntDivMod(x, y)
      [] op = "Mod" -> ModMod(x, y)
      [] op = "ShiftL" -> ShiftL(x, y)
      [] op = "ShiftR" -> ShiftR(x, y)
      [] op = "BoolOr" -> BoolOr(x, y)
      [] op = "BoolAnd" -> BoolAnd(x, y)
      [] op = "BitOr" -> BitOr(x, y)
      [] op = "BitAnd" -> BitAnd(x, y)
      [] op = "BitXor" -> BitXor(x, y)

Fold(l, r, v) ==
    IF l.kind = "Number" /\ r.kind = "Number"
    THEN IF v = Undefined THEN DivisionByZero ELSE Number(v)
    ELSE NonQuadratic

Compare(op, l, r) == Fold(l, r, Comparison(op, l.value, r.value))
Compute(op, l, r) == Fold(l, r, Computation(op, l.value, r.value))

\* The remainder by zero has no error value: BigInt's % aborts the compiler.
Mod(l, r) == LET folded == Compute("Mod", l, r)
             IN IF folded = DivisionByZero THEN Panic ELSE folded

Not(e) == IF e.kind = "Number" THEN Number(BoolNot(e.value)) ELSE NonQuadratic
ComplementOf(e) == IF e.kind = "Number" THEN Number(Complement(e.value)) ELSE NonQuadratic

---------------------------------------------------------------------------
(* Constraints *)

Constraint(a, b, c) == [a |-> a, b |-> b, c |-> c]
EmptyConstraint == Constraint(NoKeys, NoKeys, NoKeys)

\* Wrong: C keeps its sign.
keptSign(e) ==
    IF e.kind = "Quadratic" THEN Constraint(e.a, e.b, e.c)
    ELSE Constraint(Initialize(NoKeys), Initialize(NoKeys), Scale(Initialize(MapOf(e)), -1))

\* e = 0 as A*B - C = 0.
ToConstraint(e) ==
    IF e.kind = "Quadratic" THEN Constraint(e.a, e.b, Scale(e.c, -1))
    ELSE Constraint(Initialize(NoKeys), Initialize(NoKeys), Scale(Initialize(MapOf(e)), -1))

SignalsOf(con) == (DOMAIN con.a \union DOMAIN con.b \union DOMAIN con.c) \ {One}

IsEmpty(con)  == con = EmptyConstraint
IsLinear(con) == DOMAIN con.a = {} /\ DOMAIN con.b = {}

\* x = y, up to a factor.
IsEquality(con) ==
    /\ IsLinear(con) /\ One \notin DOMAIN con.c /\ Cardinality(DOMAIN con.c) = 2
    /\ \A i, j \in DOMAIN con.c : i # j => con.c[i] = MulMod(-1, con.c[j])

\* k*x + d = 0, or k*x = 0.
IsConstantEquality(con) ==
    /\ IsLinear(con)
    /\ Cardinality(DOMAIN con.c) = IF One \in DOMAIN con.c THEN 2 ELSE 1

CleanConstraint(con) ==
    Constraint(RemoveZeros(con.a), RemoveZeros(con.b), RemoveZeros(con.c))

IsConstantMap(m) == DOMAIN m = {One}

\* A constant factor v of the product moves it into C: C - v*m.
ConstantProduct(v, m, c) ==
    Constraint(NoKeys, NoKeys,
               RemoveZeros(AddMaps(Scale(Scale(Initialize(m), v), -1), Initialize(c))))

FixConstraint(con) ==
    LET k == CleanConstraint(con)
    IN IF DOMAIN k.a = {} \/ DOMAIN k.b = {} THEN Constraint(NoKeys, NoKeys, k.c)
       ELSE IF IsConstantMap(k.a) THEN ConstantProduct(k.a[One], k.b, k.c)
       ELSE IF IsConstantMap(k.b) THEN ConstantProduct(k.b[One], k.a, k.c)
       ELSE k

\* Renumber the signals by a map; the constant keeps its key.
RenameMap(m, map) ==
    LET new(k) == IF k = One THEN One ELSE map[k]
    IN [j \in {new(k) : k \in DOMAIN m} |-> m[CHOOSE k \in DOMAIN m : new(k) = j]]

Rename(con, map) == Constraint(RenameMap(con.a, map), RenameMap(con.b, map), RenameMap(con.c, map))

---------------------------------------------------------------------------
(* Substitutions: from = to *)

Substitution(from, to) == [from |-> from, to |-> to]

\* Solve a linear constraint for a signal, and the same with the coefficient
\* left to be divided out later.
ClearSignalNotNormalized(con, s) ==
    [coefficient |-> MulMod(con.c[s], -1),
     sub |-> Substitution(s, Initialize(Without(con.c, s)))]

ClearSignal(con, s) ==
    LET raw == ClearSignalNotNormalized(con, s)
    IN Substitution(s, RemoveZeros(Scale(raw.sub.to, DivMod(1, raw.coefficient))))

SubstituteInMap(m, sub) ==
    IF sub.from \in DOMAIN m
    THEN AddMaps(Scale(Initialize(sub.to), m[sub.from]), Initialize(Without(m, sub.from)))
    ELSE Initialize(m)

Substitute(con, sub) ==
    Constraint(SubstituteInMap(con.a, sub), SubstituteInMap(con.b, sub), SubstituteInMap(con.c, sub))

SubstituteInSub(target, sub) == [target EXCEPT !.to = SubstituteInMap(@, sub)]

\* The expression a map stands for, in the smallest form that says it.
IntoArith(m) ==
    CASE DOMAIN m = {One} -> Number(m[One])
      [] One \notin DOMAIN m /\ Cardinality(DOMAIN m) = 1 /\ m[CHOOSE k \in DOMAIN m : TRUE] = 1 ->
            Signal(CHOOSE k \in DOMAIN m : TRUE)
      [] OTHER -> Linear(Initialize(m))

\* Substitution::new: a map that does not mention the signal itself.
NewSubstitution(from, e) ==
    Substitution(from, IF e.kind = "Signal" THEN OneKey(e.symbol, 1) ELSE MapOf(e))

\* Two expressions for one signal: their cross difference is a constraint.
MergeConflict(known, new) ==
    CleanConstraint(ToConstraint(
        Sub(Mul(Number(known.coefficient), IntoArith(new.sub.to)),
            Mul(Number(new.coefficient), IntoArith(known.sub.to)))))

---------------------------------------------------------------------------
(* What maps, expressions and constraints say of an assignment w *)

SumOver(m, w) ==
    SumFunction([k \in DOMAIN m |-> m[k] * (IF k = One THEN 1 ELSE w[k])]) % Field

ValueOf(e, w) ==
    IF e.kind = "Quadratic"
    THEN AddMod(MulMod(SumOver(e.a, w), SumOver(e.b, w)), SumOver(e.c, w))
    ELSE SumOver(MapOf(e), w)

Holds(con, w) == MulMod(SumOver(con.a, w), SumOver(con.b, w)) = SumOver(con.c, w)
=============================================================================
