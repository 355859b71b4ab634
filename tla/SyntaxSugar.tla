----------------------------- MODULE SyntaxSugar -----------------------------
(***************************************************************************)
(* The removal of anonymous components and tuples                          *)
(* (parser/src/syntax_sugar_remover.rs).  An anonymous component becomes a *)
(* declared one, in a loop an array of them with one position for each     *)
(* pass, counted by a variable; a tuple becomes a block of substitutions.  *)
(*                                                                         *)
(* templates maps a name to [params, inputs, outputs, body], inputs and    *)
(* outputs in the order of their declaration.                              *)
(***************************************************************************)
EXTENDS CircomSyntax
LOCAL INSTANCE Naturals
LOCAL INSTANCE Sequences
LOCAL INSTANCE SequencesExt
LOCAL INSTANCE Functions
LOCAL INSTANCE FiniteSets
LOCAL INSTANCE FiniteSetsExt

CONSTANT Alphabet       \* the names of inputs in alphabetical order

NoLoop == [expr |-> "None"]

---------------------------------------------------------------------------
(* Where anonymous components may stand *)

RECURSIVE CheckAnonymousExpression(_), CheckAnonymousStatement(_)
CheckAnonymousExpression(e) ==
    CASE e.expr = "AnonymousComp" ->
            ~AnyAnonymous(e.params) /\ \A i \in DOMAIN e.args : CheckAnonymousExpression(e.args[i])
      [] e.expr = "Tuple" -> \A i \in DOMAIN e.args : CheckAnonymousExpression(e.args[i])
      [] e.expr = "ParallelOp" -> e.args[1].expr = "AnonymousComp" \/ ~ContainsAnonymous(e.args[1])
      [] OTHER -> ~AnyAnonymous(Operands(e))

CheckAnonymousStatement(s) ==
    CASE s.stmt \in {"MultSubstitution", "Substitution"} ->
            /\ ~AnyAnonymous(Front(Expressions(s)))
            /\ ContainsAnonymous(s.rhe) => s.op # "<--"
            /\ CheckAnonymousExpression(s.rhe)
      [] OTHER -> /\ ~AnyAnonymous(Expressions(s))
                  /\ \A i \in DOMAIN Statements(s) : CheckAnonymousStatement(Statements(s)[i])

---------------------------------------------------------------------------
(* Anonymous components *)

\* An expression without them, the components to declare and the statements
\* that must come before it.
Expanded(components, before, e, ok) ==
    [components |-> components, before |-> before, exp |-> e, ok |-> ok]

\* Which argument of a call each input takes: by name, or in the order of
\* declaration, where the last of two declarations of one name counts.
Bindings(template, e) ==
    LET names  == IF e.names = <<>> THEN template.inputs
                  ELSE [i \in DOMAIN e.names |-> e.names[i][1]]
    IN [ok |-> /\ Len(e.args) = Len(names)
               /\ e.names # <<>> => /\ Cardinality(Range(template.inputs)) = Len(names)
                                    /\ Range(names) = Range(template.inputs)
                                    /\ \A i \in DOMAIN e.names : e.names[i][2] = "<==",
        value |-> [n \in Range(names) |-> Max({i \in DOMAIN names : names[i] = n})]]

\* The components and statements of parts, in their order.
AllComponents(parts) == FlattenSeq([i \in DOMAIN parts |-> parts[i].components])
AllBefore(parts)     == FlattenSeq([i \in DOMAIN parts |-> parts[i].before])
AllOk(parts)         == \A i \in DOMAIN parts : parts[i].ok

\* The inputs of a template that a call gives, in the order they are assigned.
GivenInputs(template, e) ==
    LET b == Bindings(template, e) IN SelectSeq(Alphabet, LAMBDA n : n \in DOMAIN b.value)
ArgumentFor(template, e, n) == e.args[Bindings(template, e).value[n]]

\* The component for e, whose inputs have been expanded.
AnonymousInstance(template, e, loop, order, inputs) ==
    LET name == e.id \o "_" \o e.place
        here == IF loop = NoLoop THEN <<>> ELSE <<Array(loop)>>
        wire(n) == Append(here, Dot(n))
        declaration == IF loop = NoLoop THEN Declaration(ComponentType, name, <<>>)
                       ELSE Declaration(AnonymousType, name, <<loop>>)
        call == Call(e.id, e.params)
        creation == Substitution(name, here, "=", IF e.parallel THEN Parallel(call) ELSE call)
        assignments == [i \in DOMAIN order |->
                          Append(inputs[i].before,
                                 Substitution(name, wire(order[i]), "<==", inputs[i].exp))]
        outputs == [i \in DOMAIN template.outputs |-> Variable(name, wire(template.outputs[i]))]
    IN Expanded(<<declaration>> \o AllComponents(inputs),
                <<Block(<<creation>> \o FlattenSeq(assignments))>>,
                IF Len(outputs) = 1 THEN outputs[1] ELSE Tuple(outputs),
                AllOk(inputs))

RECURSIVE ExpandExpression(_, _, _)
ExpandAnonymous(templates, e, loop) ==
    LET template == templates[e.id]
        order == GivenInputs(template, e)
    IN IF e.id \notin DOMAIN templates \/ ~Bindings(template, e).ok
       THEN Expanded(<<>>, <<>>, e, FALSE)
       ELSE AnonymousInstance(template, e, loop, order,
                [i \in DOMAIN order |->
                    ExpandExpression(templates, ArgumentFor(template, e, order[i]), loop)])

ExpandedTuple(parts) ==
    Expanded(AllComponents(parts), AllBefore(parts),
             Tuple([i \in DOMAIN parts |-> parts[i].exp]), AllOk(parts))

ExpandExpression(templates, e, loop) ==
    LET parallel == e.expr = "ParallelOp" /\ e.args[1].expr = "AnonymousComp"
    IN CASE e.expr = "AnonymousComp" \/ parallel ->
               ExpandAnonymous(templates,
                   IF parallel THEN [e.args[1] EXCEPT !.parallel = TRUE] ELSE e, loop)
         [] e.expr = "Tuple" ->
               ExpandedTuple([i \in DOMAIN e.args |-> ExpandExpression(templates, e.args[i], loop)])
         [] OTHER -> Expanded(<<>>, <<>>, e, TRUE)

\* A statement without them, with the components and counters to declare and
\* the counters to reset at the start of the template.
Rewritten(body, components, counters, resets, ok) ==
    [body |-> body, components |-> components, counters |-> counters, resets |-> resets,
     ok |-> ok]

\* Wrong: the counter starts again whenever the loop is reached.
resetAtLoop(s, inner) ==
    LET id == "anon_var_" \o s.place
        count(e) == Substitution(id, <<>>, "=", e)
    IN IF inner.components = <<>> THEN Rewritten(While(s.cond, inner.body, s.place), <<>>, <<>>, <<>>, inner.ok)
       ELSE Rewritten(Block(<<count(Num(0)),
                              While(s.cond, Block(<<inner.body,
                                    count(Infix("Add", Named(id), Num(1)))>>), s.place)>>),
                      inner.components,
                      <<Declaration(VarType, id, <<>>)>> \o inner.counters,
                      inner.resets, inner.ok)

\* The passes of a loop with anonymous components are counted.
CountPasses(s, inner) ==
    LET id == "anon_var_" \o s.place
        count(e) == Substitution(id, <<>>, "=", e)
    IN IF inner.components = <<>> THEN Rewritten(While(s.cond, inner.body, s.place), <<>>, <<>>, <<>>, inner.ok)
       ELSE Rewritten(While(s.cond, Block(<<inner.body, count(Infix("Add", Named(id), Num(1)))>>),
                            s.place),
                      inner.components,
                      <<Declaration(VarType, id, <<>>)>> \o inner.counters,
                      Append(inner.resets, count(Num(0))), inner.ok)

\* A substitution with the expansion r of its right-hand side.
ExpandedSubstitution(s, r) ==
    LET new == [s EXCEPT !.rhe = r.exp]
    IN Rewritten(IF r.before = <<>> THEN new ELSE Block(Append(r.before, new)),
                 r.components, <<>>, <<>>, r.ok)

\* A statement with the rewritings of the statements in it.
ExpandedParts(s, parts) ==
    Rewritten(WithStatements(s, [i \in DOMAIN parts |-> parts[i].body]), AllComponents(parts),
              FlattenSeq([i \in DOMAIN parts |-> parts[i].counters]),
              FlattenSeq([i \in DOMAIN parts |-> parts[i].resets]), AllOk(parts))

RECURSIVE ExpandStatement(_, _, _)
ExpandStatement(templates, s, loop) ==
    LET ss == Statements(s)
        within == IF s.stmt = "While" THEN Named("anon_var_" \o s.place) ELSE loop
        parts == [i \in DOMAIN ss |-> ExpandStatement(templates, ss[i], within)]
    IN IF s.stmt \in {"Substitution", "MultSubstitution"}
       THEN ExpandedSubstitution(s, ExpandExpression(templates, s.rhe, loop))
       ELSE IF s.stmt = "While" THEN CountPasses(s, parts[1]) ELSE ExpandedParts(s, parts)

---------------------------------------------------------------------------
(* Tuples.  An anonymous component that is left is a panic. *)

RECURSIVE CheckTuplesExpression(_), CheckTuplesStatement(_)
CheckTuplesExpression(e) ==
    IF e.expr = "Tuple" THEN \A i \in DOMAIN e.args : CheckTuplesExpression(e.args[i])
    ELSE ~AnyTuple(Operands(e))

CheckTuplesStatement(s) ==
    LET es == Expressions(s)
    IN CASE s.stmt \in {"MultSubstitution", "LogCall"} ->
               \A i \in DOMAIN es : CheckTuplesExpression(es[i])
         [] s.stmt = "Substitution" -> ~AnyTuple(Front(es)) /\ CheckTuplesExpression(s.rhe)
         [] OTHER -> /\ ~AnyTuple(es)
                     /\ \A i \in DOMAIN Statements(s) : CheckTuplesStatement(Statements(s)[i])

RECURSIVE FlatTuple(_)
FlatTuple(e) ==
    IF e.expr # "Tuple" THEN e
    ELSE LET parts == [i \in DOMAIN e.args |-> FlatTuple(e.args[i])]
             elements(p) == IF p.expr = "Tuple" THEN p.args ELSE <<p>>
         IN Tuple(FlattenSeq([i \in DOMAIN parts |-> elements(parts[i])]))

\* A tuple is assigned one element after the other; "_" takes and forgets.
AssignElement(l, op, r) ==
    IF l.name = "_" THEN Underscore(op, r) ELSE Substitution(l.name, l.access, op, r)

Untupled(s, ok) == [body |-> s, ok |-> ok]

\* (l0, l1, ..) op (r0, r1, ..)
UntupledAssignments(s, l, r) ==
    IF /\ l.expr = "Tuple" /\ r.expr = "Tuple" /\ Len(l.args) = Len(r.args)
       /\ \A i \in DOMAIN l.args : l.args[i].expr = "Variable"
    THEN Untupled(Block([i \in DOMAIN l.args |->
                            AssignElement(l.args[i], s.op, r.args[i])]), TRUE)
    ELSE Untupled(s, FALSE)

UntupledSubstitution(s, r) ==
    IF r.expr = "Tuple" THEN Untupled(s, FALSE)
    ELSE Untupled(IF s.var = "_" THEN Underscore(s.op, r) ELSE [s EXCEPT !.rhe = r], TRUE)

UntupledLog(es) ==
    Untupled(Log(FlattenSeq([i \in DOMAIN es |->
                    IF es[i].expr = "Tuple" THEN es[i].args ELSE <<es[i]>>])), TRUE)

UntupledParts(s, parts) ==
    Untupled(WithStatements(s, [i \in DOMAIN parts |-> parts[i].body]), AllOk(parts))

RECURSIVE RemoveTuples(_)
RemoveTuples(s) ==
    LET ss == Statements(s)
    IN CASE s.stmt = "MultSubstitution" ->
               UntupledAssignments(s, FlatTuple(s.lhe), FlatTuple(s.rhe))
         [] s.stmt = "Substitution" -> UntupledSubstitution(s, FlatTuple(s.rhe))
         [] s.stmt = "LogCall" -> UntupledLog([i \in DOMAIN s.args |-> FlatTuple(s.args[i])])
         [] OTHER -> UntupledParts(s, [i \in DOMAIN ss |-> RemoveTuples(ss[i])])

---------------------------------------------------------------------------
(* apply_syntactic_sugar on one definition *)

\* The body of a template with the declarations and resets it needs.
WithDeclarations(r) ==
    Block(<<Initialization(VarType, r.counters), Initialization(ComponentType, r.components)>>
              \o r.resets \o r.body.stmts)

WithoutTuples(body, ok) ==
    LET u == RemoveTuples(body)
    IN [body |-> u.body, ok |-> ok /\ CheckTuplesStatement(body) /\ u.ok]

SugarFreeTemplate(templates, body) ==
    LET r == ExpandStatement(templates, body, NoLoop)
    IN WithoutTuples(WithDeclarations(r), CheckAnonymousStatement(body) /\ r.ok)

SugarFreeFunction(body) == WithoutTuples(body, ~StatementContainsAnonymous(body))
=============================================================================
