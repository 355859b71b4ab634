-------------------------- MODULE MCWitnessThreads --------------------------
(* Small circuits: which components, and how their father gives them inputs   *)
(* and uses their outputs.                                                    *)
EXTENDS WitnessCode

Component(id, father, parallel, ins, outs, body) ==
    [id |-> id, father |-> father, parallel |-> parallel, inputs |-> ins, outputs |-> outs, body |-> body]

Input(c) == [kind |-> "input", to |-> <<c>>, array |-> FALSE, status |-> "Unknown"]
Element(cs) == [kind |-> "input", to |-> cs, array |-> TRUE, status |-> "Unknown"]
Output(i) == [kind |-> "output", signal |-> i]
Use(c, outs) == [kind |-> "read", sub |-> c, signals |-> outs]
Branch(holds, then, else) == [kind |-> "branch", holds |-> holds, then |-> then, else |-> else]
Loop(body) == [kind |-> "loop", body |-> body]

\* Two inputs for component c, through every form of statement.
TwoInputs(c, b) ==
    {<<Input(c), Input(c)>>,
     <<Input(c), Branch(<<b>>, <<Input(c)>>, <<Input(c)>>)>>,
     <<Branch(<<b>>, <<Input(c), Output(1)>>, <<Input(c)>>), Input(c)>>,
     <<Loop(<<Input(c)>>)>>,
     <<Loop(<<Branch(<<TRUE, b>>, <<Input(c)>>, <<Input(c)>>)>>)>>,
     <<Input(c), Branch(<<b>>, <<Input(c)>>, <<>>), Branch(<<~b>>, <<Input(c)>>, <<>>)>>}

\* One component, sequential or parallel, that may leave an output alone.
Single ==
    {<<Component(1, 1, FALSE, 1, 1, body \o <<Use(2, <<1, 2>>)>>),
       Component(2, 1, par, 2, 2, <<Output(2)>> \o rest)>> :
         par \in BOOLEAN, rest \in {<<>>, <<Output(1)>>}, body \in UNION {TwoInputs(2, b) : b \in BOOLEAN}}

\* Two elements of an array, whose second inputs come in a loop; the second
\* may need an output of the first.
Pair ==
    {<<Component(1, 1, FALSE, 1, 1, body),
       Component(2, 1, TRUE, 2, 1, <<Output(1)>>), Component(3, 1, par, 2, 1, <<Output(1)>>)>> :
         par \in BOOLEAN,
         body \in {<<Element(<<3>>), Loop(<<Element(<<2, 3>>)>>), Element(<<2>>), Use(3, <<1>>), Use(2, <<1>>)>>,
                   <<Input(2), Input(2), Input(3), Use(2, <<1>>), Input(3), Use(3, <<1>>)>>}}

\* A parallel component in a parallel component, which may announce its own
\* output before it waits.
Nest ==
    {<<Component(1, 1, FALSE, 1, 1, <<Input(2), Use(2, <<1>>)>>),
       Component(2, 1, TRUE, 1, 1, body), Component(3, 2, TRUE, 1, 1, <<Output(1)>>)>> :
         body \in {<<Input(3), Use(3, <<1>>), Output(1)>>, <<Output(1), Input(3), Use(3, <<1>>)>>}}

\* A template without inputs, used once in parallel and once not.
Constant ==
    {<<Component(1, 1, FALSE, 1, 1, <<Use(2, <<1>>), Use(3, <<1>>)>>),
       Component(2, 1, TRUE, 0, 1, <<Output(1)>>), Component(3, 1, FALSE, 0, 1, <<Output(1)>>)>>}

\* Three threads side by side, and two pairs of nested ones.
Wide ==
    {<<Component(1, 1, FALSE, 1, 1, <<Input(2), Input(3), Input(4), Use(4, <<1>>), Use(2, <<1>>), Use(3, <<1>>)>>),
       Component(2, 1, TRUE, 1, 1, <<Output(1)>>), Component(3, 1, TRUE, 1, 1, <<Output(1)>>),
       Component(4, 1, TRUE, 1, 1, <<Output(1)>>)>>,
     <<Component(1, 1, FALSE, 1, 1, <<Input(2), Input(3), Use(2, <<1>>), Use(3, <<1>>)>>),
       Component(2, 1, TRUE, 1, 1, <<Input(4), Use(4, <<1>>), Output(1)>>), Component(3, 1, TRUE, 1, 1, <<Output(1)>>),
       Component(4, 2, TRUE, 1, 1, <<Output(1)>>)>>}

MCPrograms ==
    {[maxThread |-> n, components |-> cs, code |-> Compiled(cs)] :
         n \in 1..3, cs \in Single \union Pair \union Nest \union Constant \union Wide}
=============================================================================
