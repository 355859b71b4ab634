------------------------------ MODULE TypeCheck ------------------------------
(***************************************************************************)
(* The typing of a program (type_analysis/src/analyzers/type_check.rs): a  *)
(* walk from the main component through every template and function it     *)
(* calls, once for each list of argument dimensions.                       *)
(*                                                                         *)
(* The walk carries info: the environment, the definitions reached, the    *)
(* calls registered with the dimension they return, the dimension the      *)
(* function at hand returns, whether a report was made and whether the     *)
(* compiler panicked.  What a report says is left out: an expression that  *)
(* has no type has always made one.                                        *)
(***************************************************************************)
EXTENDS ProgramAnalyses
LOCAL INSTANCE Integers
LOCAL INSTANCE Sequences
LOCAL INSTANCE SequencesExt

---------------------------------------------------------------------------
(***************************************************************************)
(* How many dimensions a call of a function returns                        *)
(* (type_analysis/src/analyzers/type_given_function.rs): that of the first *)
(* return in the text of the function whose expression can be typed.  It   *)
(* must be known before the body is typed, as a function may call itself.  *)
(*                                                                         *)
(* A search carries the blocks of variables and the functions already      *)
(* explored, which are shared by all calls of one search.                  *)
(***************************************************************************)

NoDim == -1

\* What a search found, and where it goes on from.
Found(dim, blocks, explored) == [dim |-> dim, blocks |-> blocks, explored |-> explored]

\* The dimension of an array of elements of this one.
ArrayOf(found) == IF found.dim = NoDim THEN found ELSE [found EXCEPT !.dim = @ + 1]

RECURSIVE LookInExpression(_, _, _, _), LookInStatement(_, _, _, _)

\* The first of several that has a dimension.
FirstExpression(functions, es, blocks, explored) ==
    FoldLeft(LAMBDA acc, e : IF acc.dim # NoDim THEN acc
                             ELSE LookInExpression(functions, e, acc.blocks, acc.explored),
             Found(NoDim, blocks, explored), es)

FirstStatement(functions, ss, blocks, explored) ==
    FoldLeft(LAMBDA acc, s : IF acc.dim # NoDim THEN acc
                             ELSE LookInStatement(functions, s, acc.blocks, acc.explored),
             Found(NoDim, blocks, explored), ss)

\* The arguments one by one, until one has no dimension.
ArgumentTypes(functions, es, blocks, explored) ==
    FoldLeft(LAMBDA acc, e :
                IF ~acc.ok THEN acc
                ELSE LET r == LookInExpression(functions, e, blocks, acc.explored)
                     IN [ok |-> r.dim # NoDim, dims |-> Append(acc.dims, r.dim),
                         explored |-> r.explored],
             [ok |-> TRUE, dims |-> <<>>, explored |-> explored], es)

Start(functions, f, dims, explored) ==
    FirstStatement(functions, functions[f].body.stmts,
                   <<ParameterBlock(functions[f].params, dims)>>, explored \union {f})

LookInCall(functions, e, blocks, explored) ==
    IF e.id \in explored THEN Found(NoDim, blocks, explored)
    ELSE LET r == ArgumentTypes(functions, e.args, blocks, explored)
         IN IF ~r.ok THEN Found(NoDim, blocks, r.explored)
            ELSE [Start(functions, e.id, r.dims, r.explored) EXCEPT !.blocks = blocks]

LookInExpression(functions, e, blocks, explored) ==
    CASE e.expr = "Number" -> Found(0, blocks, explored)
      [] e.expr = "Variable" ->
            LET d == GetVariable(blocks, e.name) - Len(e.access)
            IN Found(IF d < 0 THEN NoDim ELSE d, blocks, explored)
      [] e.expr \in {"InfixOp", "PrefixOp", "ParallelOp"} ->
            FirstExpression(functions, e.args, blocks, explored)
      [] e.expr = "InlineSwitchOp" ->
            FirstExpression(functions, Tail(e.args), blocks, explored)
      [] e.expr \in {"ArrayInLine", "UniformArray"} ->
            ArrayOf(LookInExpression(functions, e.args[1], blocks, explored))
      [] e.expr = "Call" -> LookInCall(functions, e, blocks, explored)

LookInStatement(functions, s, blocks, explored) ==
    CASE s.stmt = "Return" -> LookInExpression(functions, s.value, blocks, explored)
      [] s.stmt = "Declaration" ->
            Found(NoDim, AddVariable(blocks, s.name, Len(s.dims)), explored)
      [] s.stmt = "Block" ->
            [FirstStatement(functions, s.stmts, AddVariableBlock(blocks), explored)
                EXCEPT !.blocks = blocks]
      [] s.stmt \in {"IfThenElse", "While", "InitializationBlock"} ->
            FirstStatement(functions, Statements(s), blocks, explored)
      [] OTHER -> Found(NoDim, blocks, explored)

TypeGivenFunction(functions, f, dims) == Start(functions, f, dims, {}).dim

---------------------------------------------------------------------------
\* Types, and what a name with its accesses is.
Arith(d)     == [kind |-> "arith", dim |-> d, template |-> ""]
Template(t)  == [kind |-> "template", dim |-> 0, template |-> t]
Failed       == [kind |-> "failed", dim |-> 0, template |-> ""]
IsScalar(t)  == t = Arith(0)

IsVar(d)       == [kind |-> "var", dim |-> d, template |-> ""]
IsSignal(d)    == [kind |-> "signal", dim |-> d, template |-> ""]
IsComponent(t) == [kind |-> "component", dim |-> 0, template |-> t]
IsTag          == [kind |-> "tag", dim |-> 0, template |-> ""]
Panicked       == [kind |-> "panic", dim |-> 0, template |-> ""]

Typed(t, info) == [type |-> t, info |-> info]

Demand(info, holds) == [info EXCEPT !.ok = @ /\ holds]
Report(info)        == [info EXCEPT !.ok = FALSE]
Panic(info)         == [info EXCEPT !.panic = TRUE]

NewTyping(params, dims) ==
    [blocks |-> <<ParameterBlock(params, dims)>>, signals |-> <<>>, components |-> <<>>]

---------------------------------------------------------------------------
(* Names with accesses.  A component has the template it holds, or "".     *)

\* A tag belongs to a complete signal: no index before or after it.
TagOf(tags, dimsBefore, wires) ==
    IF Head(wires).name \in tags /\ Len(wires) = 1 /\ dimsBefore + Head(wires).dims = 0
    THEN "tag" ELSE "error"

\* check_if_it_is_a_tag.  (With more indexes than dimensions a subtraction
\* wraps around, and the answer is an error as well.)
TagAccess(p, x, a, env) ==
    IF a.wires = <<>> THEN "no"
    ELSE IF x \in DOMAIN env.components THEN
        LET c == env.components[x]
            w == WireOf(p, c.template, a.wires[1].name)
        IN CASE c.dims # a.dims -> "error"
             [] Len(a.wires) = 1 -> "no"
             [] c.template \notin DOMAIN p.templates -> "panic"
             [] ~w.found -> "error"
             [] OTHER -> IF w.input THEN "error"
                         ELSE TagOf(w.wire.tags, a.wires[1].dims, Tail(a.wires))
    ELSE IF HasVariable(env.blocks, x) THEN "no"
    ELSE TagOf(env.signals[x].tags, a.dims, a.wires)

\* A wire of a component.
WireAccess(p, c, a) ==
    LET w == WireOf(p, c.template, a.wires[1].name)
    IN CASE a.dims < c.dims \/ c.template = "" -> Failed
         [] c.template \notin DOMAIN p.templates -> Panicked
         [] ~w.found \/ a.wires[1].dims > Len(w.wire.dims) -> Failed
         [] OTHER -> IsSignal(Len(w.wire.dims) - a.wires[1].dims)

\* A name without wires: variables hide signals, and signals components.
PlainAccess(x, rest, env) ==
    CASE HasVariable(env.blocks, x) -> IsVar(rest)
      [] x \in DOMAIN env.signals -> IsSignal(rest)
      [] x \in DOMAIN env.components /\ rest = 0 -> IsComponent(env.components[x].template)
      [] OTHER -> Failed

\* apply_access_to_symbol
SymbolAt(p, x, a, env) ==
    LET tag    == TagAccess(p, x, a, env)
        signal == x \in DOMAIN env.signals
        dims   == CASE x \in DOMAIN env.components -> env.components[x].dims
                    [] signal -> env.signals[x].dims
                    [] OTHER -> GetVariable(env.blocks, x)
        tags   == IF signal THEN env.signals[x].tags ELSE {}
    IN CASE tag = "panic" -> Panicked
         [] tag = "error" -> Failed
         [] tag = "tag" -> IsTag
         [] a.dims > dims -> Failed
         [] a.wires = <<>> -> PlainAccess(x, dims - a.dims, env)
         [] x \in DOMAIN env.components -> WireAccess(p, env.components[x], a)
         [] OTHER -> IF TagOf(tags, a.dims, a.wires) = "tag" THEN IsTag ELSE Failed

---------------------------------------------------------------------------
(* Expressions *)

RECURSIVE TypeExpression(_, _, _), TypeStatement(_, _, _)

TypeAll(p, es, info) ==
    FoldLeft(LAMBDA acc, e :
                IF acc.info.panic THEN [acc EXCEPT !.types = Append(@, Failed)]
                ELSE LET r == TypeExpression(p, e, acc.info)
                     IN [types |-> Append(acc.types, r.type), info |-> r.info],
             [types |-> <<>>, info |-> info], es)

TypeStatements(p, ss, info) ==
    FoldLeft(LAMBDA i, s : IF i.panic THEN i ELSE TypeStatement(p, s, i), info, ss)

SomeFailed(types) == \E i \in DOMAIN types : types[i] = Failed
AllScalar(types)  == \A i \in DOMAIN types : IsScalar(types[i])

\* One after the other, up to the first without a type.
TypeUntilFailed(p, es, info) ==
    FoldLeft(LAMBDA acc, e : IF SomeFailed(acc.types) THEN acc
                             ELSE LET r == TypeExpression(p, e, acc.info)
                                  IN [types |-> Append(acc.types, r.type), info |-> r.info],
             [types |-> <<>>, info |-> info], es)

\* What r typed must be numbers.
Numbers(r) == Demand(r.info, AllScalar(r.types))

SymbolTyped(s, info) ==
    CASE s = Failed -> Typed(Failed, Report(info))
      [] s = Panicked -> Typed(Failed, Panic(info))
      [] OTHER -> Typed(s, info)

\* treat_access: an index must be a number, and is counted if it is not.
SymbolTypedIn(p, x, access, info) ==
    SymbolTyped(SymbolAt(p, x, AccessShape(access), info.env), info)
TypeSymbol(p, x, access, info) ==
    SymbolTypedIn(p, x, access, Numbers(TypeAll(p, Indexes(access), info)))

\* The type of a name that is used as a value.
ValueType(r) ==
    CASE r.type.kind = "component" ->
            IF r.type.template = "" THEN Typed(Failed, Report(r.info))
            ELSE Typed(Template(r.type.template), r.info)
      [] r.type.kind \in {"var", "signal"} -> Typed(Arith(r.type.dim), r.info)
      [] r.type.kind = "tag" -> Typed(Arith(0), r.info)
      [] OTHER -> r

\* A definition is typed once for each list of dimensions, in an environment
\* of its own; it is registered first, so that it may call itself.
TypeBody(p, id, dims, returns, info) ==
    LET d == (IF id \in DOMAIN p.functions THEN p.functions ELSE p.templates)[id]
        r == TypeStatements(p, d.body.stmts,
                [info EXCEPT !.env = NewTyping(d.params, dims),
                             !.calls = Bind(@, <<id, dims>>, returns),
                             !.returns = IF id \in DOMAIN p.functions THEN returns ELSE @])
    IN [r EXCEPT !.env = info.env, !.returns = info.returns]

TypeFunction(p, id, dims, info) ==
    LET given == TypeGivenFunction(p.functions, id, dims)
    IN CASE <<id, dims>> \in DOMAIN info.calls -> Typed(Arith(info.calls[<<id, dims>>]), info)
         [] given = NoDim -> Typed(Failed, Report(info))
         [] OTHER -> Typed(Arith(given), TypeBody(p, id, dims, given, info))

TypeTemplate(p, id, dims, info) ==
    Typed(Template(id), IF <<id, dims>> \in DOMAIN info.calls THEN info
                        ELSE TypeBody(p, id, dims, 0, info))

\* A call whose arguments r has typed.
TypeCall(p, e, r) ==
    LET dims == [i \in DOMAIN r.types |-> r.types[i].dim]
        arithmetic == \A i \in DOMAIN r.types : r.types[i].kind = "arith"
        template == e.id \in DOMAIN p.templates
    IN CASE ~arithmetic -> Typed(IF template THEN Template(e.id) ELSE Failed, Report(r.info))
         [] Len(dims) # Len(Params(p, e.id)) -> Typed(Template(e.id), Report(r.info))
         [] template -> TypeTemplate(p, e.id, dims, r.info)
         [] OTHER -> TypeFunction(p, e.id, dims, r.info)

TypeUniform(r) ==
    IF SomeFailed(r.types) THEN Typed(Failed, r.info)
    ELSE Typed(Arith(r.types[1].dim + 1),
               Demand(r.info, r.types[1].kind = "arith" /\ IsScalar(r.types[2])))

\* r.info with a demand, and the type if it is met.
IfMet(r, type, holds) == Typed(IF holds THEN type ELSE Failed, Demand(r.info, holds))

TypeArrayInLine(r) ==
    LET first == r.types[1]
    IN IF SomeFailed(r.types) \/ r.types = <<>> THEN Typed(Failed, Report(r.info))
       ELSE Typed(Arith(first.dim + 1),
                  Demand(r.info, \A i \in DOMAIN r.types : r.types[i] = Arith(first.dim)))

TypeArithmetic(r) == IfMet(r, Arith(0), AllScalar(r.types))
TypeParallel(r)   == IfMet(r, r.types[1], r.types[1].kind = "template")
TypeSwitch(r) ==
    Typed(r.types[2], Demand(r.info, IsScalar(r.types[1]) /\ r.types[3] = r.types[2]))

\* An operator whose operands r has typed.
TypeOperator(e, r) ==
    CASE e.expr = "ArrayInLine" -> TypeArrayInLine(r)
      [] e.expr \in {"InfixOp", "PrefixOp"} -> TypeArithmetic(r)
      [] e.expr = "ParallelOp" -> TypeParallel(r)
      [] e.expr = "InlineSwitchOp" -> TypeSwitch(r)

TypeExpression(p, e, info) ==
    CASE e.expr = "Number" -> Typed(Arith(0), info)
      [] e.expr = "Variable" -> ValueType(TypeSymbol(p, e.name, e.access, info))
      [] e.expr = "Call" ->
            TypeCall(p, e, TypeAll(p, e.args, [info EXCEPT !.reached = @ \union {e.id}]))
      [] e.expr = "UniformArray" -> TypeUniform(TypeUntilFailed(p, e.args, info))
      [] e.expr \in {"ArrayInLine", "InfixOp", "PrefixOp", "ParallelOp", "InlineSwitchOp"} ->
            TypeOperator(e, TypeAll(p, Operands(e), info))
      [] OTHER -> Typed(Failed, Panic(info))

---------------------------------------------------------------------------
(* Statements *)

DeclareIn(s, env) ==
    CASE s.xtype = VarType -> [env EXCEPT !.blocks = AddVariable(@, s.name, Len(s.dims))]
      [] s.xtype.type = "Signal" ->
            [env EXCEPT !.signals = AddSignal(@, s.name, s.xtype.io,
                [dims |-> Len(s.dims), tags |-> s.xtype.tags, io |-> s.xtype.io])]
      [] OTHER ->
            [env EXCEPT !.components = Bind(@, s.name,
                [dims |-> Len(s.dims), template |-> s.inferred])]

\* The arrows are for signals; tags of a subcomponent are read only.
OperatorFits(p, s, symbol, env) ==
    LET shape == AccessShape(s.access)
    IN /\ s.op = "=" <=> symbol.kind # "signal"
       /\ ~ /\ symbol.kind = "tag" /\ s.var \in DOMAIN env.components
            /\ env.components[s.var].template # ""
            /\ WireOf(p, env.components[s.var].template, shape.wires[1].name).found

\* The first component assigned to a name decides its template.
AssignTemplate(s, symbol, type, info) ==
    IF type.kind = "template" /\ symbol.template = ""
    THEN [info EXCEPT !.env.components[s.var].template = type.template]
    ELSE Demand(info, type.kind = "template" /\ type.template = symbol.template)

\* s has r on its right and l on its left.
TypeAssigned(p, s, r, l) ==
    CASE r.type = Failed -> r.info
      [] l.type = Failed -> l.info
      [] ~OperatorFits(p, s, l.type, l.info.env) -> Report(l.info)
      [] l.type.kind = "component" -> AssignTemplate(s, l.type, r.type, l.info)
      [] OTHER -> Demand(l.info, r.type = Arith(l.type.dim))
TypeSubstitution(p, s, r) == TypeAssigned(p, s, r, TypeSymbol(p, s.var, s.access, r.info))

\* The other statements, whose expressions r has typed.
TypeDeclaration(s, r) == [Numbers(r) EXCEPT !.env = DeclareIn(s, @)]
TypeEquality(r) == Demand(r.info, r.types[1].kind = "arith" /\ r.types[2] = r.types[1])
TypeLog(r)      == Numbers(r)
TypeAssert(r)   == Demand(r.info, IsScalar(r.types[1]))
TypeReturn(r) ==
    Demand(r.info, r.types[1] # Failed => r.types[1].dim = r.info.returns)
TypeUnderscore(r) == Demand(r.info, r.types[1].kind = "arith")

TypeSimple(s, r) ==
    CASE s.stmt = "Declaration" -> TypeDeclaration(s, r)
      [] s.stmt = "ConstraintEquality" -> TypeEquality(r)
      [] s.stmt = "Assert" -> TypeAssert(r)
      [] s.stmt = "Return" -> TypeReturn(r)
      [] s.stmt = "UnderscoreSubstitution" -> TypeUnderscore(r)

\* The condition r of a statement is looked at after its arms.
TypeConditional(p, s, r) ==
    Demand(TypeStatements(p, Statements(s), r.info), IsScalar(r.types[1]))

OutOfBlock(info) == [info EXCEPT !.env.blocks = RemoveVariableBlock(@)]

TypeStatement(p, s, info) ==
    LET r == TypeAll(p, Expressions(s), info)
    IN CASE s.stmt \in {"Declaration", "ConstraintEquality", "Assert", "Return",
                        "UnderscoreSubstitution"} -> TypeSimple(s, r)
         [] s.stmt = "Substitution" ->
               TypeSubstitution(p, s, TypeExpression(p, s.rhe, info))
         [] s.stmt = "LogCall" -> TypeLog(TypeUntilFailed(p, s.args, info))
         [] s.stmt \in {"IfThenElse", "While"} -> TypeConditional(p, s, r)
         [] s.stmt = "InitializationBlock" -> TypeStatements(p, s.stmts, info)
         [] s.stmt = "Block" ->
               OutOfBlock(TypeStatements(p, s.stmts,
                              [info EXCEPT !.env.blocks = AddVariableBlock(@)]))
         [] OTHER -> Panic(info)

---------------------------------------------------------------------------
(* The whole program *)

\* The main component calls a template, and its inputs have no tags.
MainFits(p) ==
    /\ p.main.expr = "Call" /\ p.main.id \in DOMAIN p.templates
    /\ \A i \in DOMAIN p.templates[p.main.id].inputs :
            p.templates[p.main.id].inputs[i].tags = {}

NoInfo ==
    [env |-> NewTyping(<<>>, <<>>), reached |-> {}, calls |-> <<>>, returns |-> NoDim,
     ok |-> TRUE, panic |-> FALSE]

\* Errors of the main expression itself are reported before those of its kind.
TypeProgram(p) == Demand(TypeExpression(p, p.main, NoInfo).info, MainFits(p))
=============================================================================
