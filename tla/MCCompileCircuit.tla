-------------------------- MODULE MCCompileCircuit --------------------------
(* A main with an output 1, a public input 2 and a private input 3, and a     *)
(* subcomponent 1 (twice: 1 and 2) with an output 1 and an input 2, over the  *)
(* field of three elements.                                                   *)
EXTENDS CompileCircuit
LOCAL INSTANCE Integers
LOCAL INSTANCE Sequences
LOCAL INSTANCE FiniteSets
LOCAL INSTANCE FiniteSetsExt
LOCAL INSTANCE SequencesExt

Eq(l, r) == ToConstraint(Sub(l, r))
S(n) == Signal(n)
o == S(1)
p == S(2)
x == S(3)
r == S(11)
a == S(12)

\* Templates: outputs, public inputs and private inputs by name; their own
\* name is the letter G.
Template(parameters, custom, outs, pubs, ins, edges, constraints) ==
    [name |-> <<71>>, parameters |-> parameters, custom |-> custom, outputs |-> outs, publics |-> pubs, privates |-> ins, intermediates |-> <<>>,
     ordered |-> ins \o pubs \o outs, connexions |-> edges, constraints |-> constraints]

Leaf(custom, constraints) == Template(<<>>, custom, <<1>>, <<>>, <<2>>, <<>>, constraints)
Square == Leaf(FALSE, <<Eq(S(1), Mul(S(2), S(2)))>>)
Wire   == Leaf(FALSE, <<Eq(S(1), S(2))>>)
Next1  == Leaf(FALSE, <<Eq(S(1), Add(S(2), Number(1)))>>)
Gate(k) == Template(<<k>>, TRUE, <<1>>, <<>>, <<2>>, <<>>, <<>>)

Edge(id, label) == [goesTo |-> id, label |-> label]
MainOf(constraints, edges) == Template(<<>>, FALSE, <<1>>, <<2>>, <<3>>, edges, constraints)

Pool == {Eq(a, x), Eq(o, r), Eq(x, p), Eq(x, Number(1)), Eq(a, Number(2)), Eq(p, Number(2)),
         Eq(Add(x, p), r), Eq(a, Add(x, Number(1))), Eq(Add(x, p), o),
         Eq(o, Mul(x, r)), Eq(p, Mul(a, x)), Eq(Mul(Sub(x, Number(1)), r), o)}

OneLeaf(leaf, n) ==
    {<<leaf, MainOf(SetToSeq(cons), <<Edge(1, 1)>>)>> : cons \in kSubset(n, Pool)}

\* Two instances of one template, and one template inside another.
Chain == <<Square, MainOf(<<Eq(a, x), Eq(S(22), r), Eq(o, S(21))>>, <<Edge(1, 1), Edge(1, 2)>>)>>
Wrapper == Template(<<>>, FALSE, <<1>>, <<>>, <<2>>, <<Edge(1, 1)>>, <<Eq(a, S(2)), Eq(S(1), r)>>)
Nested == <<Next1, Wrapper, MainOf(<<Eq(a, Mul(x, p)), Eq(o, r)>>, <<Edge(2, 1)>>)>>

\* A gate used with two parameters, once twice.
Gates == <<Gate(1), Gate(2), MainOf(<<Eq(a, x), Eq(S(22), r), Eq(o, S(31))>>,
                                    <<Edge(2, 1), Edge(1, 2), Edge(2, 3)>>)>>

MCPrograms == OneLeaf(Square, 3) \union OneLeaf(Gate(1), 3) \union OneLeaf(Wire, 2)
                \union {Chain, Nested, Gates}

Opt(level, most, old, order) == [level |-> level, rounds |-> most, oldHeuristics |-> old, up |-> order]

MCOptions == {Opt("O0", 0, FALSE, TRUE), Opt("O1", 0, FALSE, FALSE),
              Opt("O2", 1, TRUE, TRUE), Opt("O2", 9, FALSE, TRUE), Opt("O2", 9, FALSE, FALSE),
              Opt("O2", 2, TRUE, FALSE)}
=============================================================================
