----------------------------- MODULE CircuitDag -----------------------------
(***************************************************************************)
(* The compiler's DAG of template instances (dag/src): one node for each   *)
(* instance, one edge for each subcomponent, signals numbered node by node *)
(* and relocated by the offsets of the edges when the tree of components   *)
(* is walked.  A dag is [nodes, adjacency]; the last node inserted is main *)
(* and receives whatever is added.  A signal's name is a digit, and a      *)
(* component's label another: the name c.s reads as the two digits.        *)
(***************************************************************************)
EXTENDS Algebra
LOCAL INSTANCE Integers
LOCAL INSTANCE Sequences
LOCAL INSTANCE FiniteSets
LOCAL INSTANCE TLC
LOCAL INSTANCE SequencesExt

EmptyDag == [nodes |-> <<>>, adjacency |-> <<>>]

MainId(dag) == Len(dag.nodes)
Main(dag) == dag.nodes[MainId(dag)]

NewNode(name, parameters, custom) ==
    [name |-> name, parameters |-> parameters, custom |-> custom, signals |-> 0, components |-> 1, inputs |-> 0, publicInputs |-> 0,
     outputs |-> 0, correspondence |-> NoKeys, locals |-> {}, reachables |-> {},
     forbidden |-> {One}, constraints |-> <<>>, ordered |-> <<>>]

Qualified(label, name) == 10 * label + name

AddNode(dag, name, parameters, custom) ==
    [nodes |-> Append(dag.nodes, NewNode(name, parameters, custom)),
     adjacency |-> Append(dag.adjacency, <<>>)]

Count(b) == IF b THEN 1 ELSE 0

\* add_output, add_input and add_intermediate; kind is one of "output",
\* "public", "private" and "intermediate".
AddSignal(dag, name, kind) ==
    LET id == Main(dag).signals + 1
    IN [dag EXCEPT !.nodes[MainId(dag)] =
          [@ EXCEPT !.signals = id,
                    !.correspondence = (name :> id) @@ @,
                    !.locals = @ \union {id},
                    !.reachables = @ \union {id},
                    !.outputs = @ + Count(kind = "output"),
                    !.inputs = @ + Count(kind \in {"public", "private"}),
                    !.publicInputs = @ + Count(kind = "public"),
                    !.forbidden = IF kind \in {"output", "public"} THEN @ \union {id} ELSE @]]

AddSignals(dag, names, kind) == FoldLeft(LAMBDA d, n : AddSignal(d, n, kind), dag, names)

\* The signals again, in the order the template declares them.
AddOrderedSignals(dag, names) == [dag EXCEPT !.nodes[MainId(dag)].ordered = names]

\* Wrong: shares main's last number.
offByOneEdge(from, to, label) == [label |-> label, goesTo |-> to, inNumber |-> from.signals - 1]

NewEdge(from, to, label) == [label |-> label, goesTo |-> to, inNumber |-> from.signals]

\* The subcomponent's signals follow the ones main has; main sees its local
\* names, and may reach its inputs and outputs.
AddEdge(dag, to, label) ==
    LET from == Main(dag)
        sub == dag.nodes[to]
        names == {n \in DOMAIN sub.correspondence : sub.correspondence[n] \in sub.locals}
        relocated == [q \in {Qualified(label, n) : n \in names} |->
                         from.signals + sub.correspondence[q % 10]]
    IN IF to >= MainId(dag) THEN dag ELSE
       [nodes |-> [dag.nodes EXCEPT ![MainId(dag)] =
                     [@ EXCEPT !.signals = @ + sub.signals,
                               !.components = @ + sub.components,
                               !.correspondence = relocated @@ @,
                               !.reachables = @ \union
                                   {from.signals + id :
                                       id \in {i \in sub.locals : i <= sub.inputs + sub.outputs}}]],
        adjacency |-> [dag.adjacency EXCEPT ![MainId(dag)] = Append(@, NewEdge(from, to, label))]]

\* A constraint of the template, over names, becomes one over main's numbers.
AddConstraint(dag, con) ==
    [dag EXCEPT !.nodes[MainId(dag)].constraints = Append(@, Rename(con, Main(dag).correspondence))]

\* Zero coefficients go, and the constraints they leave empty.
CleanNode(node) ==
    [node EXCEPT !.constraints =
        SelectSeq([i \in DOMAIN @ |-> CleanConstraint(@[i])], LAMBDA con : ~ IsEmpty(con))]

CleanConstraints(dag) == [dag EXCEPT !.nodes = [i \in DOMAIN @ |-> CleanNode(@[i])]]

---------------------------------------------------------------------------
(* The tree of components *)

Relocate(con, offset) ==
    LET moved == [k \in SignalsOf(con) |-> k + offset] IN Rename(con, moved)

\* The visits of a walk, parents before children, edges in their order.
RECURSIVE Visits(_, _, _, _)
Visits(dag, id, offset, path) ==
    LET node == dag.nodes[id]
        edges == dag.adjacency[id]
        here == [id |-> id, offset |-> offset, path |-> path,
                 signals |-> SetToSortSeq({s + offset : s \in node.locals}, <),
                 constraints |-> [i \in DOMAIN node.constraints |->
                                     Relocate(node.constraints[i], offset)]]
        under == [i \in DOMAIN edges |->
                     Visits(dag, edges[i].goesTo, offset + edges[i].inNumber,
                            Append(path, edges[i].label))]
    IN <<here>> \o FlattenSeq(under)

Tree(dag) == Visits(dag, MainId(dag), 0, <<>>)

\* The signals of the witness, the constant first.
ProduceWitness(dag) ==
    LET tree == Tree(dag) IN <<One>> \o FlattenSeq([i \in DOMAIN tree |-> tree[i].signals])

AllConstraints(dag) ==
    LET tree == Tree(dag) IN FlattenSeq([i \in DOMAIN tree |-> tree[i].constraints])

\* Wrong: forgets the custom gates.
mainForbidden(dag) == Main(dag).forbidden

\* What may not leave the witness: the constant, main's outputs and public
\* inputs, and every signal of a custom gate.
Forbidden(dag) ==
    LET tree == Tree(dag)
    IN Main(dag).forbidden
         \union UNION {Range(tree[i].signals) : i \in {j \in DOMAIN tree : dag.nodes[tree[j].id].custom}}

\* The constraint analysis counts the constraints of each signal a template
\* reaches; one over any other signal would end it.
Analysable(node) ==
    \A i \in DOMAIN node.constraints : SignalsOf(node.constraints[i]) \subseteq node.reachables

\* The custom gates, with the parameters of each.
GatesUsed(dag) ==
    LET gates == SelectSeq(dag.nodes, LAMBDA node : node.custom)
    IN [i \in DOMAIN gates |-> [name |-> gates[i].name, parameters |-> gates[i].parameters]]

\* Their applications: the place of the gate in the list (the code counts
\* from 0), and the number of each signal.
GatesApplied(dag) ==
    LET gates == SelectSeq(Tree(dag), LAMBDA v : dag.nodes[v.id].custom)
        used == GatesUsed(dag)
        index(node) == CHOOSE i \in DOMAIN used :
            /\ used[i] = [name |-> node.name, parameters |-> node.parameters]
            /\ \A j \in 1..(i - 1) : used[j] # used[i]
        application(v, node) ==
            [index |-> index(node) - 1,
             signals |-> [j \in DOMAIN node.ordered |-> v.offset + node.correspondence[node.ordered[j]]]]
    IN [i \in DOMAIN gates |-> application(gates[i], dag.nodes[gates[i].id])]

\* A line of the .sym file: original number, place in the witness, name.
SymLines(dag, place) ==
    LET tree == Tree(dag)
        nameIn(v, s) == CHOOSE n \in DOMAIN dag.nodes[v.id].correspondence :
                            dag.nodes[v.id].correspondence[n] = s - v.offset
        lines(v) == [i \in DOMAIN v.signals |->
                        [original |-> v.signals[i], witness |-> place[v.signals[i]],
                         symbol |-> Append(v.path, nameIn(v, v.signals[i]))]]
    IN FlattenSeq([i \in DOMAIN tree |-> lines(tree[i])])
=============================================================================
