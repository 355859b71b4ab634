---------------------------- MODULE CircomSyntax ----------------------------
(***************************************************************************)
(* The abstract syntax tree of a circom program as the parser builds it    *)
(* (program_structure/src/abstract_syntax_tree): expressions, statements,  *)
(* and what the later passes ask of them.  Buses are left out.             *)
(*                                                                         *)
(* A place is where an anonymous component or a loop stands in its file;   *)
(* the names that the compiler generates are made from it.                 *)
(***************************************************************************)
LOCAL INSTANCE Naturals
LOCAL INSTANCE Sequences
LOCAL INSTANCE SequencesExt
LOCAL INSTANCE TLC

\* What the compiler knows of a name before it types it; none says that it
\* has not been asked yet.
Reduced(kind, template) == [kind |-> kind, template |-> template]
Unreduced               == Reduced("none", "")

\* Expressions.
Num(v)               == [expr |-> "Number", value |-> v]
\* reduces: what kind of thing it is, known after the decorators.
Variable(x, access)  ==
    [expr |-> "Variable", name |-> x, access |-> access, reduces |-> Unreduced]
Infix(op, l, r)      == [expr |-> "InfixOp", op |-> op, args |-> <<l, r>>]
Prefix(op, e)        == [expr |-> "PrefixOp", op |-> op, args |-> <<e>>]
Switch(c, t, f)      == [expr |-> "InlineSwitchOp", args |-> <<c, t, f>>]
Parallel(e)          == [expr |-> "ParallelOp", args |-> <<e>>]
ArrayInLine(vs)      == [expr |-> "ArrayInLine", args |-> vs]
Uniform(v, n)        == [expr |-> "UniformArray", args |-> <<v, n>>]
Call(f, es)          == [expr |-> "Call", id |-> f, args |-> es]
Tuple(vs)            == [expr |-> "Tuple", args |-> vs]
\* names is <<>>, or has one input and arrow <<name, op>> for each signal.
Anonymous(t, params, signals, names, place) ==
    [expr |-> "AnonymousComp", id |-> t, params |-> params, args |-> signals,
     names |-> names, place |-> place, parallel |-> FALSE]

Array(e) == [access |-> "ArrayAccess", index |-> e]
Dot(n)   == [access |-> "ComponentAccess", name |-> n]
Named(x) == Variable(x, <<>>)

\* Statements; an absent else arm is the empty block.
VarType             == [type |-> "Var"]
ComponentType       == [type |-> "Component"]
AnonymousType       == [type |-> "AnonymousComponent"]
SignalType(io, tags) == [type |-> "Signal", io |-> io, tags |-> tags]
\* inferred: the template of a component; constant: the value never changes.
Declaration(t, x, dims) ==
    [stmt |-> "Declaration", xtype |-> t, name |-> x, dims |-> dims,
     inferred |-> "", constant |-> FALSE]
Substitution(x, access, op, e) ==
    [stmt |-> "Substitution", var |-> x, access |-> access, op |-> op, rhe |-> e,
     reduces |-> Unreduced]
MultSubstitution(l, op, r) == [stmt |-> "MultSubstitution", lhe |-> l, op |-> op, rhe |-> r]
Underscore(op, e)          == [stmt |-> "UnderscoreSubstitution", op |-> op, rhe |-> e]
ConstraintEquality(l, r)   == [stmt |-> "ConstraintEquality", lhe |-> l, rhe |-> r]
IfThenElse(c, t, f)        == [stmt |-> "IfThenElse", cond |-> c, if_case |-> t, else_case |-> f]
While(c, s, place)         == [stmt |-> "While", cond |-> c, body |-> s, place |-> place]
Block(ss)                  == [stmt |-> "Block", stmts |-> ss]
Initialization(t, ss)      == [stmt |-> "InitializationBlock", xtype |-> t, stmts |-> ss]
Return(e)                  == [stmt |-> "Return", value |-> e]
Log(es)                    == [stmt |-> "LogCall", args |-> es]
AssertThat(e)              == [stmt |-> "Assert", arg |-> e]

\* What the source may say instead: shortcuts that the parser expands.  A
\* symbol is [name, dims, init], where init is <<>> or holds one expression.
For(init, cond, step, body, place) ==
    [stmt |-> "For", init |-> init, cond |-> cond, step |-> step, body |-> body, place |-> place]
AssignWith(op, x, access, e) ==
    [stmt |-> "AssignWith", op |-> op, var |-> x, access |-> access, rhe |-> e]
Symbol(x, dims, init)      == [name |-> x, dims |-> dims, init |-> init]
Declare(t, symbols, op)    == [stmt |-> "Declare", xtype |-> t, symbols |-> symbols, op |-> op]
DeclareTuple(t, symbols, op, init) ==
    [stmt |-> "DeclareTuple", xtype |-> t, symbols |-> symbols, op |-> op, init |-> init]

Indexes(access) ==
    LET arrays == SelectSeq(access, LAMBDA a : a.access = "ArrayAccess")
    IN [i \in DOMAIN arrays |-> arrays[i].index]

\* c[i].s[j].t is [dims |-> 1, wires |-> <<[name |-> s, dims |-> 1], [name |-> t, dims |-> 0]>>].
AccessShape(access) ==
    FoldLeft(LAMBDA acc, a :
                CASE a.access = "ComponentAccess" ->
                        [acc EXCEPT !.wires = Append(@, [name |-> a.name, dims |-> 0])]
                  [] acc.wires = <<>> -> [acc EXCEPT !.dims = @ + 1]
                  [] OTHER -> [acc EXCEPT !.wires[Len(acc.wires)].dims = @ + 1],
             [dims |-> 0, wires |-> <<>>], access)

\* The immediate subexpressions.
Operands(e) ==
    CASE e.expr = "Number" -> <<>>
      [] e.expr = "Variable" -> Indexes(e.access)
      [] e.expr = "AnonymousComp" -> e.params \o e.args
      [] OTHER -> e.args

RECURSIVE ContainsAnonymous(_), ContainsTuple(_)
ContainsAnonymous(e) ==
    e.expr = "AnonymousComp" \/ \E i \in DOMAIN Operands(e) : ContainsAnonymous(Operands(e)[i])

ContainsTuple(e) ==
    e.expr = "Tuple" \/ \E i \in DOMAIN Operands(e) : ContainsTuple(Operands(e)[i])

AnyAnonymous(es) == \E i \in DOMAIN es : ContainsAnonymous(es[i])
AnyTuple(es)     == \E i \in DOMAIN es : ContainsTuple(es[i])

\* The expressions and the statements a statement is made of.
Expressions(s) ==
    CASE s.stmt = "Declaration" -> s.dims
      [] s.stmt = "Substitution" -> Append(Indexes(s.access), s.rhe)
      [] s.stmt = "MultSubstitution" -> <<s.lhe, s.rhe>>
      [] s.stmt = "UnderscoreSubstitution" -> <<s.rhe>>
      [] s.stmt = "ConstraintEquality" -> <<s.lhe, s.rhe>>
      [] s.stmt \in {"IfThenElse", "While"} -> <<s.cond>>
      [] s.stmt = "Return" -> <<s.value>>
      [] s.stmt = "LogCall" -> s.args
      [] s.stmt = "Assert" -> <<s.arg>>
      [] OTHER -> <<>>

Statements(s) ==
    CASE s.stmt = "IfThenElse" -> <<s.if_case, s.else_case>>
      [] s.stmt = "While" -> <<s.body>>
      [] s.stmt \in {"Block", "InitializationBlock"} -> s.stmts
      [] OTHER -> <<>>

\* The same node with other immediate parts.
WithIndexes(access, es) ==
    LET before(i) == Len(SelectSeq(SubSeq(access, 1, i), LAMBDA a : a.access = "ArrayAccess"))
    IN [i \in DOMAIN access |->
          IF access[i].access = "ArrayAccess" THEN Array(es[before(i)]) ELSE access[i]]

WithOperands(e, es) ==
    CASE e.expr = "Number" -> e
      [] e.expr = "Variable" -> [e EXCEPT !.access = WithIndexes(@, es)]
      [] OTHER -> [e EXCEPT !.args = es]

WithExpressions(s, es) ==
    CASE s.stmt = "Declaration" -> [s EXCEPT !.dims = es]
      [] s.stmt = "Substitution" ->
            [s EXCEPT !.access = WithIndexes(@, es), !.rhe = Last(es)]
      [] s.stmt = "UnderscoreSubstitution" -> [s EXCEPT !.rhe = es[1]]
      [] s.stmt \in {"MultSubstitution", "ConstraintEquality"} ->
            [s EXCEPT !.lhe = es[1], !.rhe = es[2]]
      [] s.stmt \in {"IfThenElse", "While"} -> [s EXCEPT !.cond = es[1]]
      [] s.stmt = "Return" -> [s EXCEPT !.value = es[1]]
      [] s.stmt = "LogCall" -> [s EXCEPT !.args = es]
      [] s.stmt = "Assert" -> [s EXCEPT !.arg = es[1]]
      [] OTHER -> s

WithStatements(s, ss) ==
    CASE s.stmt = "IfThenElse" -> [s EXCEPT !.if_case = ss[1], !.else_case = ss[2]]
      [] s.stmt = "While" -> [s EXCEPT !.body = ss[1]]
      [] s.stmt \in {"Block", "InitializationBlock"} -> [s EXCEPT !.stmts = ss]
      [] OTHER -> s

RECURSIVE StatementContainsAnonymous(_)
StatementContainsAnonymous(s) ==
    \/ AnyAnonymous(Expressions(s))
    \/ \E i \in DOMAIN Statements(s) : StatementContainsAnonymous(Statements(s)[i])

(***************************************************************************)
(* The statements that the parser writes with other statements             *)
(* (ast_shortcuts.rs): for loops, assignments with an operator,            *)
(* declarations of several names with initial values.  Variables start     *)
(* from 0.                                                                 *)
(***************************************************************************)
AssignWithOp(op, x, access, e) == Substitution(x, access, "=", Infix(op, Variable(x, access), e))

ForIntoWhile(init, cond, step, body, place) ==
    Block(<<init, While(cond, Block(<<body, step>>), place)>>)

\* An array of zeros, the first dimension outermost.
Zeros(dims) == FoldRight(LAMBDA d, v : Uniform(v, d), dims, Num(0))

\* Arrays are zeroed even if they have an initial value.
ZeroFirst(t, symbol, initialized, op) ==
    IF t = VarType /\ (~initialized \/ symbol.dims # <<>>)
    THEN <<Substitution(symbol.name, <<>>, op, Zeros(symbol.dims))>> ELSE <<>>

SplitDeclaration(t, symbols, op) ==
    LET nodes(s) == <<Declaration(t, s.name, s.dims)>> \o ZeroFirst(t, s, s.init # <<>>, op)
                       \o [i \in DOMAIN s.init |-> Substitution(s.name, <<>>, op, s.init[i])]
    IN Initialization(t, FlattenSeq([i \in DOMAIN symbols |-> nodes(symbols[i])]))

SplitTupleDeclaration(t, symbols, op, init) ==
    LET nodes(s) == <<Declaration(t, s.name, s.dims)>> \o ZeroFirst(t, s, init # <<>>, "=")
        names    == [i \in DOMAIN symbols |-> Named(symbols[i].name)]
        assign(e) == IF Len(names) = 1 THEN Substitution(names[1].name, <<>>, op, e)
                     ELSE MultSubstitution(Tuple(names), op, e)
    IN Initialization(t, FlattenSeq([i \in DOMAIN symbols |-> nodes(symbols[i])])
                           \o [i \in DOMAIN init |-> assign(init[i])])

\* The tree of a statement of the source.
RECURSIVE Parsed(_)
Parsed(s) ==
    CASE s.stmt = "For" ->
            ForIntoWhile(Parsed(s.init), s.cond, Parsed(s.step), Parsed(s.body), s.place)
      [] s.stmt = "AssignWith" -> AssignWithOp(s.op, s.var, s.access, s.rhe)
      [] s.stmt = "Declare" -> SplitDeclaration(s.xtype, s.symbols, s.op)
      [] s.stmt = "DeclareTuple" -> SplitTupleDeclaration(s.xtype, s.symbols, s.op, s.init)
      [] s.stmt = "IfThenElse" -> IfThenElse(s.cond, Parsed(s.if_case), Parsed(s.else_case))
      [] s.stmt = "While" -> While(s.cond, Parsed(s.body), s.place)
      [] s.stmt = "Block" -> Block([i \in DOMAIN s.stmts |-> Parsed(s.stmts[i])])
      [] OTHER -> s

(***************************************************************************)
(* The environment that the passes of the compiler walk a definition with  *)
(* (program_structure/src/utils/environment.rs): blocks of variables, the  *)
(* innermost last, beside signals and components, which belong to the      *)
(* whole template.                                                         *)
(***************************************************************************)
Bind(f, x, v) == (x :> v) @@ f

AddVariableBlock(blocks)    == Append(blocks, <<>>)
RemoveVariableBlock(blocks) == Front(blocks)

BlockWith(blocks, x)       == SelectLastInSeq(blocks, LAMBDA b : x \in DOMAIN b)
HasVariable(blocks, x)     == BlockWith(blocks, x) # 0
GetVariable(blocks, x)     == blocks[BlockWith(blocks, x)][x]
SetVariable(blocks, x, v)  == [blocks EXCEPT ![BlockWith(blocks, x)] = Bind(@, x, v)]
AddVariable(blocks, x, v)  == [blocks EXCEPT ![Len(blocks)] = Bind(@, x, v)]

\* Of the signals of one name the inputs are found first, then the outputs.
SignalRank(io) == CASE io = "input" -> 1 [] io = "output" -> 2 [] OTHER -> 3

AddSignal(signals, x, io, content) ==
    IF x \in DOMAIN signals /\ SignalRank(signals[x].io) < SignalRank(io) THEN signals
    ELSE Bind(signals, x, [content EXCEPT !.io = io])

\* The parameters of a definition are variables of the first block.
ParameterBlock(params, values) ==
    LET given == {i \in DOMAIN params : i <= Len(values)}
    IN [x \in {params[i] : i \in given} |-> values[CHOOSE i \in given : params[i] = x]]
=============================================================================
