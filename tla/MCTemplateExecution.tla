------------------------ MODULE MCTemplateExecution ------------------------
(***************************************************************************)
(* The templates: loops over a counter with a known or an unknown bound,   *)
(* conditions in sequence and nested, with assignments in the arms, the    *)
(* inputs of a component in every order and with every need of tags, and   *)
(* tags that are declared, defined and merged.                             *)
(***************************************************************************)
EXTENDS TemplateExecution
LOCAL INSTANCE Naturals
LOCAL INSTANCE Sequences
LOCAL INSTANCE SequencesExt

Template(c, needs, declared) == [code |-> c, needs |-> needs, declared |-> declared]

A == Var("a")
B == Var("b")
X == Var("x")
Y == Var("y")
Plus(l, r)  == Infix("Add", l, r)
Times(l, r) == Infix("Mul", l, r)
IsEq(l, r)  == Infix("Eq", l, r)
Differ(l, r) == Infix("NotEq", l, r)
Less(l, r)  == Infix("Lesser", l, r)
Let(v, e)   == Assign(v, "=", e)
Hint(v, e)  == Assign(v, "<--", e)
Bind(v, e)  == Assign(v, "<==", e)

Next1 == Let("a", Plus(A, Num(1)))

LoopPieces == { Let("b", A), Let("b", Plus(B, Times(X, A))), Hint("s0", B),
                Let("b", Switch(IsEq(B, Num(0)), A, Num(1))),
                IfThenElse(Differ(A, Num(0)), <<Let("b", Plus(B, Num(1)))>>, <<>>),
                IfThenElse(IsEq(A, X), <<Let("b", A)>>, <<Let("b", Num(1))>>),
               IfThenElse(Less(A, Num(1)), <<Let("b", Plus(B, A))>>, <<Let("b", X)>>),
               IfThenElse(IsEq(B, Num(0)), <<Hint("s0", A)>>, <<>>),
               While(Less(B, Num(1)), <<Let("b", Plus(B, Num(1)))>>) }
LoopConditions == {Differ(A, X), Less(A, Num(2))}
Befores == {<<>>, <<Let("b", Num(1))>>, <<Let("a", X)>>}
Ends == {Hint("s1", B), Bind("s1", B), ConstraintEquality(Times(B, X), Y)}

Loops1 == {Template(before \o <<While(c, Append(body, Next1)), end>>, {}, FALSE) :
              before \in Befores, c \in LoopConditions, body \in BoundedSeq(LoopPieces, 2),
              end \in Ends}

ArmPieces == { Let("b", Num(1)), Hint("s0", X), Hint("s1", A),
               IfThenElse(IsEq(Y, Num(1)), <<Hint("s0", Num(1))>>, <<Hint("s0", Num(2))>>),
               IfThenElse(IsEq(Y, X), <<Hint("s1", B)>>, <<>>),
               While(Less(A, Num(1)), <<Next1>>) }
Ifs == {IfThenElse(c, t, f) : c \in {IsEq(X, Num(1)), IsEq(A, Num(0))},
                              t \in BoundedSeq(ArmPieces, 2), f \in BoundedSeq(ArmPieces, 1)}
Conditions1 == {Template(<<i, end>>, {}, FALSE) : i \in Ifs, end \in {Bind("s1", B), Hint("s0", X)}}
Conditions2 == {Template(<<IfThenElse(IsEq(X, Num(1)), t, <<>>), Let("a", Num(0)), w,
                           IfThenElse(IsEq(Y, Num(1)), f, t)>>, {}, FALSE) :
                   t \in BoundedSeq(ArmPieces, 1), f \in BoundedSeq(ArmPieces, 2), w \in ArmPieces}

InCode == { <<Hint("in", Values(<<X, Y>>))>>, <<Bind("in0", X), Bind("in1", X)>>,
            <<Bind("in0", X), Bind("in1", Y)>>, <<Bind("in0", X)>>,
            <<IfThenElse(IsEq(X, Num(1)), <<Hint("in", Values(<<X, X>>))>>,
                                          <<Hint("in", Values(<<Y, X>>))>>)>> }
KCode == {<<>>, <<Bind("k", Y)>>, <<Hint("k", Plus(X, Y))>>, <<Bind("k", Y), Bind("k", X)>>}
OutCode == {<<>>, <<Bind("s0", Var("out"))>>, <<Hint("s0", Var("out")), ConstraintEquality(Var("s0"), Times(X, Y))>>}
Needs == SUBSET {"in", "k"}
Components == {Template(c, needs, FALSE) : needs \in Needs,
                  c \in UNION {{<<Create("c")>> \o i \o k \o o, <<Create("c")>> \o k \o i \o o,
                                i \o <<Create("c")>> \o k \o o} :
                                  i \in InCode, k \in KCode, o \in OutCode}}

TagEnds == { <<Let("b", Var("s.t")), ConstraintEquality(B, X)>>,
             <<Create("c"), Bind("in", Var("s")), Hint("k", X)>>,
             <<Create("c"), Bind("in0", Var("s0")), Bind("in1", Var("s1")), Bind("k", Y),
               ConstraintEquality(Var("out"), B)>> }
Tagged == {Template(before \o <<first, second>> \o end, {"in"}, declared) :
              before \in {<<>>, <<SetTag("s", Num(2))>>, <<Let("b", X)>>},
              first \in {Bind("s0", X), Bind("s0", B), Hint("s0", Y), SetTag("s", Num(1))},
              second \in {Bind("s1", X), Bind("s1", Y), Hint("s1", X), Bind("s", Values(<<X, X>>))},
              end \in TagEnds, declared \in BOOLEAN}

\* An input that is given in parts, one of them in an arm or in two.
Arms == {Template(<<Create("c"), Bind("k", Y), IfThenElse(IsEq(X, Num(1)), <<Hint(cell, X)>>, f)>> \o rest \o o, {}, FALSE) :
            cell \in {"in0", "in1"}, f \in {<<>>, <<Hint("in0", Y)>>, <<Hint("in1", Y)>>},
            rest \in {<<>>, <<Bind("in1", X)>>}, o \in OutCode}

MCPrograms == Loops1 \union Conditions1 \union Conditions2 \union Components \union Arms \union Tagged
=============================================================================
