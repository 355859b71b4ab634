---------------------------- MODULE CircomMeaning ----------------------------
(***************************************************************************)
(* What a circom program means: it is run, on numbers.  Programs of the    *)
(* source run as they are written, with their anonymous components, tuples *)
(* and shortcuts, and programs that the front end has rewritten run too,   *)
(* so that the two can be compared.  The language is that of the           *)
(* documentation (mkdocs/docs/circom-language).                            *)
(*                                                                         *)
(* A run ends "ok", "stopped" (an assertion, an index out of range, a      *)
(* signal read too early or assigned twice, no fuel left) or "wrong": what *)
(* a typed program must never do.  It leaves a bag of events, one for each *)
(* assignment of a signal and each component created.                      *)
(***************************************************************************)
EXTENDS CircomSyntax
LOCAL INSTANCE Integers
LOCAL INSTANCE Sequences
LOCAL INSTANCE SequencesExt
LOCAL INSTANCE FiniteSets

CONSTANTS Field, Fuel       \* the modulus; how many passes and calls a run makes

---------------------------------------------------------------------------
(* Values: numbers, arrays of values, and components of dimension -1 *)

Value(d, v)    == [dim |-> d, v |-> v]
Scalar(n)      == Value(0, n)
Unset          == -1
Instance(t, params, parallel) ==
    Value(-1, [template |-> t, params |-> params, parallel |-> parallel])

RECURSIVE Filled(_, _), At(_, _), InRange(_, _), PutAt(_, _, _), Leaves(_), SameShape(_, _)
Filled(dims, leaf) ==
    IF dims = <<>> THEN Scalar(leaf)
    ELSE Value(Len(dims), [i \in 1..Head(dims) |-> Filled(Tail(dims), leaf)])

At(v, at)      == IF at = <<>> THEN v ELSE At(v.v[Head(at) + 1], Tail(at))
InRange(v, at) == at = <<>> \/ (Head(at) < Len(v.v) /\ InRange(v.v[Head(at) + 1], Tail(at)))
PutAt(v, at, w) ==
    IF at = <<>> THEN w ELSE [v EXCEPT !.v[Head(at) + 1] = PutAt(@, Tail(at), w)]
Leaves(v) ==
    IF v.dim = 0 THEN <<v.v>> ELSE FlattenSeq([i \in DOMAIN v.v |-> Leaves(v.v[i])])
SameShape(v, w) ==
    /\ v.dim = w.dim
    /\ v.dim > 0 => Len(v.v) = Len(w.v) /\ \A i \in DOMAIN v.v : SameShape(v.v[i], w.v[i])

Complete(v) == \A i \in DOMAIN Leaves(v) : Leaves(v)[i] # Unset
Empty(v)    == \A i \in DOMAIN Leaves(v) : Leaves(v)[i] = Unset

Apply(op, a, b) ==
    CASE op = "Add" -> (a + b) % Field
      [] op = "Sub" -> (a - b) % Field
      [] op = "Mul" -> (a * b) % Field
      [] op = "Lesser" -> IF a < b THEN 1 ELSE 0
      [] op = "Eq" -> IF a = b THEN 1 ELSE 0

---------------------------------------------------------------------------
(* A machine runs one definition: blocks of variables, signals with their  *)
(* tags, components, and the inputs given to it.                           *)

Answer(v, m)  == [v |-> v, m |-> m]
Running(m)    == m.status = "run"
Halt(m, why)  == IF Running(m) THEN [m EXCEPT !.status = why] ELSE m
Wrong(m)      == Halt(m, "wrong")
Stop(m)       == Halt(m, "stopped")
Must(m, holds)  == IF holds THEN m ELSE Wrong(m)
Could(m, holds) == IF holds THEN m ELSE Stop(m)
Failing(m)      == Answer(Scalar(0), m)

Happens(m, what, name, at, op, values) ==
    LET e == [what |-> what, name |-> name, at |-> at, op |-> op, values |-> values]
    IN [m EXCEPT !.events = Bind(@, e, IF e \in DOMAIN @ THEN @[e] + 1 ELSE 1)]

Burnt(m) == IF m.fuel = 0 THEN Stop(m) ELSE [m EXCEPT !.fuel = @ - 1]

\* What is behind a name: the scope of a block comes first.
KindOf(m, x, shape) ==
    LET n == Len(shape.wires)
    IN CASE HasVariable(m.blocks, x) -> IF n = 0 THEN "variable" ELSE "nothing"
         [] x \in DOMAIN m.signals ->
               (CASE n = 0 -> "signal"
                  [] n = 1 /\ shape.wires[1].name \in DOMAIN m.signals[x].tags -> "tag"
                  [] OTHER -> "nothing")
         [] x \in DOMAIN m.components ->
               (CASE n = 0 -> "component" [] n = 1 -> "wire" [] OTHER -> "wiretag")
         [] OTHER -> "nothing"

\* A mark of the front end agrees with it.
Agrees(reduces, kind) ==
    \/ reduces = Unreduced
    \/ reduces.kind = CASE kind = "wire" -> "signal" [] kind = "wiretag" -> "tag" [] OTHER -> kind

RECURSIVE Eval(_, _, _), EvalList(_, _, _), Exec(_, _, _), Loop(_, _, _, _)

EvalAll(p, es, m) ==
    FoldLeft(LAMBDA acc, e :
                IF ~Running(acc.m) THEN [acc EXCEPT !.vs = Append(@, Scalar(0))]
                ELSE LET r == Eval(p, e, acc.m)
                     IN [vs |-> Append(acc.vs, r.v), m |-> r.m],
             [vs |-> <<>>, m |-> m], es)

\* Numbers, or the run is wrong.
EvalNumbers(p, es, m) ==
    LET r == EvalAll(p, es, m)
    IN [ns |-> [i \in DOMAIN r.vs |-> r.vs[i].v],
        m |-> Must(r.m, \A i \in DOMAIN r.vs : r.vs[i].dim = 0)]

ExecAll(p, ss, m) == FoldLeft(LAMBDA n, s : IF Running(n) THEN Exec(p, s, n) ELSE n, m, ss)

---------------------------------------------------------------------------
(* Templates and functions *)

Fresh(m, params, values, given) ==
    [m EXCEPT !.blocks = <<ParameterBlock(params, values)>>, !.signals = <<>>,
              !.components = <<>>, !.given = given]

Back(m, inner) ==
    [m EXCEPT !.events = inner.events, !.fuel = inner.fuel,
              !.status = IF inner.status = "returned" THEN "run" ELSE inner.status]

CallFunction(p, f, values, m) ==
    LET inner == Exec(p, p.functions[f].body, Fresh(Burnt(m), p.functions[f].params, values, <<>>))
    IN Answer(inner.result, Must(Back(m, inner), inner.status # "run"))

\* The inputs of an instance before any is given.
NoInputs(p, t, params, m) ==
    LET ws == p.templates[t].inputs
        inner == Fresh(m, p.templates[t].params, params, <<>>)
    IN [n \in {ws[i].name : i \in DOMAIN ws} |->
          Filled(EvalNumbers(p, (CHOOSE w \in {ws[i] : i \in DOMAIN ws} : w.name = n).dims,
                             inner).ns, Unset)]

\* An instance with all its inputs runs, and gives its outputs.
RunInstance(p, c, m) ==
    LET t == p.templates[c.template]
        inner == Exec(p, t.body, Fresh(Burnt(m), t.params, c.params, c.inputs))
    IN [c |-> [c EXCEPT !.ready = TRUE, !.outputs = inner.signals], m |-> Back(m, inner)]

Completed(p, c, m) ==
    IF Running(m) /\ \A n \in DOMAIN c.inputs : Complete(c.inputs[n]) THEN RunInstance(p, c, m)
    ELSE [c |-> c, m |-> m]

NewInstance(p, i, m) ==
    LET leaves == FlattenSeq([j \in DOMAIN i.params |-> Leaves(i.params[j])])
    IN Completed(p, [template |-> i.template, params |-> i.params, ready |-> FALSE,
                     inputs |-> NoInputs(p, i.template, i.params, m), outputs |-> <<>>],
                 Happens(m, "create", i.template, <<>>,
                         IF i.parallel THEN "parallel" ELSE "", leaves))

GiveInput(p, c, n, at, op, v, m) ==
    LET old == At(c.inputs[n], at)
    IN CASE v.dim # old.dim -> [c |-> c, m |-> Wrong(m)]
         [] ~SameShape(v, old) \/ ~Empty(old) -> [c |-> c, m |-> Stop(m)]
         [] OTHER -> Completed(p, [c EXCEPT !.inputs[n] = PutAt(@, at, v)],
                               Happens(m, c.template, n, at, op, Leaves(v)))

\* The whole life of an anonymous component.
EvalAnonymous(p, e, parallel, m) ==
    LET params == EvalAll(p, e.params, m)
        args   == EvalAll(p, e.args, params.m)
        names  == IF e.names # <<>> THEN [i \in DOMAIN e.names |-> e.names[i][1]]
                  ELSE [i \in DOMAIN p.templates[e.id].inputs |-> p.templates[e.id].inputs[i].name]
        new    == NewInstance(p, Instance(e.id, params.vs, parallel).v, args.m)
        end    == FoldLeft(LAMBDA acc, i :
                             IF ~Running(acc.m) THEN acc
                             ELSE GiveInput(p, acc.c, names[i], <<>>,
                                    IF e.names = <<>> THEN "<==" ELSE e.names[i][2],
                                    args.vs[i], acc.m),
                           new, [i \in DOMAIN names |-> i])
        outs   == p.templates[e.id].outputs
        value(n) == end.c.outputs[n].value
    IN CASE ~Running(args.m) -> [vs |-> <<>>, m |-> args.m]
         [] \/ e.id \notin DOMAIN p.templates \/ Len(names) # Len(args.vs)
            \/ Len(params.vs) # Len(p.templates[e.id].params)
            \/ {names[i] : i \in DOMAIN names} # DOMAIN new.c.inputs -> [vs |-> <<>>, m |-> Wrong(m)]
         [] ~Running(end.m) -> [vs |-> <<>>, m |-> end.m]
         [] OTHER -> [vs |-> [i \in DOMAIN outs |-> value(outs[i].name)],
                      m |-> Could(end.m, end.c.ready)]

---------------------------------------------------------------------------
(* Expressions *)

ReadAt(v, at, m) ==
    CASE Len(at) > v.dim -> Failing(Wrong(m))
      [] ~InRange(v, at) -> Failing(Stop(m))
      [] ~Complete(At(v, at)) -> Failing(Stop(m))
      [] OTHER -> Answer(At(v, at), m)

\* c is the state of a component, or what is not one.
ReadWire(c, n, at, m) ==
    CASE n \in DOMAIN c.inputs -> ReadAt(c.inputs[n], at, m)
      [] n \notin DOMAIN c.inputs /\ c.ready ->
            IF n \in DOMAIN c.outputs THEN ReadAt(c.outputs[n].value, at, m) ELSE Failing(Wrong(m))
      [] OTHER -> Failing(Stop(m))

ReadTag(tags, n, m) ==
    CASE n \notin DOMAIN tags -> Failing(Wrong(m))
      [] n \in DOMAIN tags /\ tags[n] = Unset -> Failing(Stop(m))
      [] OTHER -> Answer(Scalar(tags[n]), m)

EvalVariable(p, e, m) ==
    LET r     == EvalNumbers(p, Indexes(e.access), m)
        shape == AccessShape(e.access)
        kind  == KindOf(m, e.name, shape)
        first == SubSeq(r.ns, 1, shape.dims)
        rest  == SubSeq(r.ns, shape.dims + 1, Len(r.ns))
        cs    == m.components[e.name]
    IN CASE ~Running(r.m) -> Failing(r.m)
         [] kind = "nothing" \/ ~Agrees(e.reduces, kind) -> Failing(Wrong(r.m))
         [] kind = "variable" -> ReadAt(GetVariable(m.blocks, e.name), r.ns, r.m)
         [] kind = "signal" -> ReadAt(m.signals[e.name].value, r.ns, r.m)
         [] kind = "tag" ->
               IF r.ns # <<>> THEN Failing(Wrong(r.m))
               ELSE ReadTag(m.signals[e.name].tags, shape.wires[1].name, r.m)
         [] kind = "component" -> Failing(Stop(r.m))
         [] Len(first) # cs.dim -> Failing(Wrong(r.m))
         [] first \notin DOMAIN cs.at -> Failing(Stop(r.m))
         [] kind = "wire" -> ReadWire(cs.at[first], shape.wires[1].name, rest, r.m)
         [] ~cs.at[first].ready -> Failing(Stop(r.m))
         [] OTHER ->
               IF rest # <<>> \/ shape.wires[1].name \notin DOMAIN cs.at[first].outputs
               THEN Failing(Wrong(r.m))
               ELSE ReadTag(cs.at[first].outputs[shape.wires[1].name].tags,
                            shape.wires[2].name, r.m)

EvalCall(p, e, m) ==
    LET r == EvalAll(p, e.args, m)
        known == e.id \in DOMAIN p.functions \union DOMAIN p.templates
        d == (IF e.id \in DOMAIN p.functions THEN p.functions ELSE p.templates)[e.id]
    IN CASE ~Running(r.m) -> Failing(r.m)
         [] ~known -> Failing(Wrong(r.m))
         [] Len(d.params) # Len(r.vs) \/ \E i \in DOMAIN r.vs : r.vs[i].dim < 0 ->
               Failing(Wrong(r.m))
         [] e.id \in DOMAIN p.functions -> CallFunction(p, e.id, r.vs, r.m)
         [] OTHER -> Answer(Instance(e.id, r.vs, FALSE), r.m)

EvalArray(vs, m) ==
    IF ~Running(m) \/ vs = <<>> \/ \E i \in DOMAIN vs : vs[i].dim # vs[1].dim \/ vs[i].dim < 0
    THEN Failing(Wrong(m))
    ELSE Answer(Value(vs[1].dim + 1, vs), m)

Eval(p, e, m) ==
    LET r == EvalAll(p, Operands(e), m)
        first == r.vs[1]
    IN CASE ~Running(m) -> Failing(m)
         [] e.expr = "Number" -> Answer(Scalar(e.value % Field), m)
         [] e.expr = "Variable" -> EvalVariable(p, e, m)
         [] e.expr \in {"InfixOp", "PrefixOp"} ->
               IF \E i \in DOMAIN r.vs : r.vs[i].dim # 0 THEN Failing(Wrong(r.m))
               ELSE Answer(Scalar(IF e.expr = "PrefixOp" THEN Apply(e.op, 0, first.v)
                                  ELSE Apply(e.op, first.v, r.vs[2].v)), r.m)
         [] e.expr = "InlineSwitchOp" ->
               LET c == Eval(p, e.args[1], m)
               IN IF c.v.dim # 0 THEN Failing(Wrong(c.m))
                  ELSE Eval(p, e.args[IF c.v.v # 0 THEN 2 ELSE 3], c.m)
         [] e.expr = "ParallelOp" /\ e.args[1].expr # "AnonymousComp" ->
               IF first.dim # -1 THEN Failing(Wrong(r.m))
               ELSE Answer([first EXCEPT !.v.parallel = TRUE], r.m)
         [] e.expr = "ArrayInLine" -> EvalArray(r.vs, r.m)
         [] e.expr = "UniformArray" ->
               IF Running(r.m) /\ r.vs[2].dim = 0 /\ first.dim >= 0
               THEN IF r.vs[2].v = 0 THEN Failing(Stop(r.m))
                    ELSE EvalArray([i \in 1..r.vs[2].v |-> first], r.m)
               ELSE Failing(Wrong(r.m))
         [] e.expr = "Call" -> EvalCall(p, e, m)
         [] OTHER ->
               LET list == EvalList(p, e, m)
               IN IF Len(list.vs) = 1 THEN Answer(list.vs[1], list.m) ELSE Failing(Wrong(list.m))

\* A tuple or an anonymous component has any number of values.
EvalList(p, e, m) ==
    CASE e.expr = "AnonymousComp" -> EvalAnonymous(p, e, FALSE, m)
      [] e.expr = "ParallelOp" /\ e.args[1].expr = "AnonymousComp" ->
            EvalAnonymous(p, e.args[1], TRUE, m)
      [] e.expr = "Tuple" ->
            FoldLeft(LAMBDA acc, a : LET r == EvalList(p, a, acc.m)
                                     IN [vs |-> acc.vs \o r.vs, m |-> r.m],
                     [vs |-> <<>>, m |-> m], e.args)
      [] OTHER -> LET r == Eval(p, e, m) IN [vs |-> <<r.v>>, m |-> r.m]

---------------------------------------------------------------------------
(* Statements *)

IsArrow(op) == op \in {"<==", "<--"}

AssignSignal(x, at, op, v, m) ==
    LET old == m.signals[x].value
    IN CASE ~IsArrow(op) \/ Len(at) > old.dim -> Wrong(m)
         [] ~InRange(old, at) -> Stop(m)
         [] At(old, at).dim # v.dim -> Wrong(m)
         [] \/ m.signals[x].io = "input" \/ ~SameShape(v, At(old, at))
            \/ ~Empty(At(old, at)) -> Stop(m)
         [] OTHER -> Happens([m EXCEPT !.signals[x].value = PutAt(@, at, v)],
                             "signal", x, at, op, Leaves(v))

AssignVariable(x, at, op, v, m) ==
    LET old == GetVariable(m.blocks, x)
    IN CASE op # "=" \/ Len(at) > old.dim -> Wrong(m)
         [] ~InRange(old, at) -> Stop(m)
         [] At(old, at).dim # v.dim -> Wrong(m)
         [] ~SameShape(v, At(old, at)) -> Stop(m)
         [] OTHER -> [m EXCEPT !.blocks = SetVariable(@, x, PutAt(old, at, v))]

AssignComponent(p, x, at, op, v, m) ==
    LET cs == m.components[x]
        new == NewInstance(p, v.v, m)
    IN CASE op # "=" \/ v.dim # -1 \/ Len(at) # cs.dim -> Wrong(m)
         [] cs.inferred \notin {"", v.v.template} -> Wrong(m)
         [] \E i \in DOMAIN cs.at : cs.at[i].template # v.v.template -> Wrong(m)
         [] at \in DOMAIN cs.at \/ ~cs.fits[at] -> Stop(m)
         [] OTHER -> [new.m EXCEPT !.components[x].at = Bind(@, at, new.c)]

AssignWire(p, x, at, n, rest, op, v, m) ==
    LET c == m.components[x].at[at]
        r == GiveInput(p, c, n, rest, op, v, m)
    IN CASE Len(at) # m.components[x].dim \/ ~IsArrow(op) -> Wrong(m)
         [] at \notin DOMAIN m.components[x].at -> Stop(m)
         [] n \notin DOMAIN c.inputs -> Stop(m)
         [] Len(rest) > c.inputs[n].dim -> Wrong(m)
         [] ~InRange(c.inputs[n], rest) -> Stop(m)
         [] OTHER -> [r.m EXCEPT !.components[x].at[at] = r.c]

AssignTag(x, n, op, v, m) ==
    IF op # "=" \/ v.dim # 0 THEN Wrong(m) ELSE [m EXCEPT !.signals[x].tags[n] = v.v]

\* target: a variable expression, or "_".
Assign(p, target, reduces, op, v, m) ==
    LET r     == EvalNumbers(p, Indexes(target.access), m)
        x     == target.name
        shape == AccessShape(target.access)
        kind  == KindOf(m, x, shape)
        first == SubSeq(r.ns, 1, shape.dims)
        rest  == SubSeq(r.ns, shape.dims + 1, Len(r.ns))
    IN CASE ~Running(r.m) -> r.m
         [] x = "_" -> Must(r.m, v.dim >= 0)
         [] kind \in {"nothing", "wiretag"} \/ ~Agrees(reduces, kind) -> Wrong(r.m)
         [] kind = "variable" -> AssignVariable(x, r.ns, op, v, r.m)
         [] kind = "signal" -> AssignSignal(x, r.ns, op, v, r.m)
         [] kind = "tag" -> IF r.ns # <<>> THEN Wrong(r.m)
                            ELSE AssignTag(x, shape.wires[1].name, op, v, r.m)
         [] kind = "component" -> AssignComponent(p, x, r.ns, op, v, r.m)
         [] OTHER -> AssignWire(p, x, first, shape.wires[1].name, rest, op, v, r.m)

\* Tuples are read and written flat, one element after the other.
RECURSIVE Flat(_)
Flat(e) == IF e.expr = "Tuple" THEN FlattenSeq([i \in DOMAIN e.args |-> Flat(e.args[i])]) ELSE <<e>>

AssignEach(p, targets, op, es, m) ==
    LET end == FoldLeft(LAMBDA acc, e :
                  LET r == EvalList(p, e, acc.m)
                      n == Len(r.vs)
                      some == IF acc.next + n > Len(targets) THEN Wrong(r.m)
                              ELSE FoldLeft(LAMBDA k, i :
                                       Assign(p, targets[acc.next + i], Unreduced, op, r.vs[i], k),
                                   r.m, [i \in 1..n |-> i])
                  IN [next |-> acc.next + n, m |-> some],
                  [next |-> 0, m |-> m], es)
    IN Must(end.m, end.next = Len(targets) /\ \A i \in DOMAIN targets : targets[i].expr = "Variable")

Declare_(p, t, x, dims, inferred, m) ==
    LET r == EvalNumbers(p, IF t = AnonymousType THEN <<>> ELSE dims, m)
        cells == {at \in UNION {[1..k -> 0..Field] : k \in {Len(dims)}} :
                     t = AnonymousType \/ \A i \in DOMAIN at : at[i] < r.ns[i]}
    IN CASE ~Running(r.m) -> r.m
         [] t = VarType -> [r.m EXCEPT !.blocks = AddVariable(@, x, Filled(r.ns, 0))]
         [] t.type = "Signal" ->
               [r.m EXCEPT !.signals = Bind(@, x,
                    [io |-> t.io, tags |-> [n \in t.tags |-> Unset],
                     value |-> IF t.io = "input" THEN m.given[x] ELSE Filled(r.ns, Unset)])]
         [] OTHER ->
               [r.m EXCEPT !.components = Bind(@, x,
                    [dim |-> Len(dims), inferred |-> inferred, at |-> <<>>,
                     fits |-> [at \in [1..Len(dims) -> 0..Field] |-> at \in cells]])]

Loop(p, cond, body, m) ==
    LET c == EvalNumbers(p, <<cond>>, m)
    IN IF ~Running(c.m) \/ c.ns[1] = 0 THEN c.m
       ELSE Loop(p, cond, body, ExecAll(p, body, Burnt(c.m)))

\* What a block declares ends with it.
Scoped(p, ss, m) ==
    LET inner == ExecAll(p, ss, [m EXCEPT !.blocks = AddVariableBlock(@)])
    IN [inner EXCEPT !.blocks = RemoveVariableBlock(@)]

\* Several names, each with its value.
ExecDeclare(p, s, m) ==
    FoldLeft(LAMBDA n, symbol :
               LET declared == Declare_(p, s.xtype, symbol.name, symbol.dims, "", n)
                   v == EvalAll(p, symbol.init, declared)
               IN IF symbol.init = <<>> THEN declared
                  ELSE IF ~Running(v.m) THEN v.m
                  ELSE Assign(p, Named(symbol.name), Unreduced, s.op, v.vs[1], v.m),
             m, s.symbols)

ExecDeclareTuple(p, s, m) ==
    LET declared == FoldLeft(LAMBDA n, symbol :
                               Declare_(p, s.xtype, symbol.name, symbol.dims, "", n), m, s.symbols)
    IN IF s.init = <<>> THEN declared
       ELSE AssignEach(p, [i \in DOMAIN s.symbols |-> Named(s.symbols[i].name)],
                       s.op, Flat(s.init[1]), declared)

Exec(p, s, m) ==
    LET es == EvalAll(p, Expressions(s), m)
        number == EvalNumbers(p, Expressions(s), m)
    IN CASE ~Running(m) -> m
         [] s.stmt = "Declaration" -> Declare_(p, s.xtype, s.name, s.dims, s.inferred, m)
         [] s.stmt = "Substitution" ->
               LET r == Eval(p, s.rhe, m)
               IN IF ~Running(r.m) THEN r.m
                  ELSE Assign(p, Variable(s.var, s.access), s.reduces, s.op, r.v, r.m)
         [] s.stmt = "MultSubstitution" -> AssignEach(p, Flat(s.lhe), s.op, Flat(s.rhe), m)
         [] s.stmt = "UnderscoreSubstitution" -> Must(es.m, es.vs[1].dim >= 0)
         [] s.stmt = "ConstraintEquality" ->
               CASE ~Running(es.m) -> es.m
                 [] es.vs[1].dim # es.vs[2].dim \/ es.vs[1].dim < 0 -> Wrong(es.m)
                 [] OTHER -> Happens(es.m, "===", "", <<>>, "===", Leaves(es.vs[1]) \o Leaves(es.vs[2]))
         [] s.stmt = "IfThenElse" ->
               IF ~Running(number.m) THEN number.m
               ELSE Exec(p, IF number.ns[1] # 0 THEN s.if_case ELSE s.else_case, number.m)
         [] s.stmt = "While" -> Loop(p, s.cond, <<s.body>>, m)
         [] s.stmt = "Block" -> Scoped(p, s.stmts, m)
         [] s.stmt = "InitializationBlock" -> ExecAll(p, s.stmts, m)
         [] s.stmt = "Return" -> Halt([es.m EXCEPT !.result = es.vs[1]], "returned")
         [] s.stmt = "LogCall" ->
               EvalNumbers(p, FlattenSeq([i \in DOMAIN s.args |-> Flat(s.args[i])]), m).m
         [] s.stmt = "Assert" ->
               IF ~Running(number.m) THEN number.m ELSE Could(number.m, number.ns[1] # 0)
         [] s.stmt = "For" ->
               LET inner == Exec(p, s.init, [m EXCEPT !.blocks = AddVariableBlock(@)])
               IN [Loop(p, s.cond, <<s.body, s.step>>, inner)
                      EXCEPT !.blocks = RemoveVariableBlock(@)]
         [] s.stmt = "AssignWith" ->
               LET r == Eval(p, Infix(s.op, Variable(s.var, s.access), s.rhe), m)
               IN IF ~Running(r.m) THEN r.m
                  ELSE Assign(p, Variable(s.var, s.access), Unreduced, "=", r.v, r.m)
         [] s.stmt = "Declare" -> ExecDeclare(p, s, m)
         [] s.stmt = "DeclareTuple" -> ExecDeclareTuple(p, s, m)

---------------------------------------------------------------------------
(* A run of the main component, on inputs 2, 3, ... in the field *)

Machine ==
    [blocks |-> <<<<>>>>, signals |-> <<>>, components |-> <<>>, given |-> <<>>,
     status |-> "run", events |-> <<>>, fuel |-> Fuel, result |-> Scalar(0)]

RECURSIVE Numbered(_, _)
Numbered(v, n) ==
    IF v.dim = 0 THEN Scalar(n % Field)
    ELSE [v EXCEPT !.v = [i \in DOMAIN @ |-> Numbered(@[i], n + i)]]

MeaningOf(p) ==
    LET main == Eval(p, p.main, Machine)
        c == NewInstance(p, main.v.v, main.m).c
        inputs == [n \in DOMAIN c.inputs |->
                     Numbered(c.inputs[n], 1 + CHOOSE i \in DOMAIN p.templates[c.template].inputs :
                                                  p.templates[c.template].inputs[i].name = n)]
        end == RunInstance(p, [c EXCEPT !.inputs = inputs], main.m)
    IN IF ~Running(main.m) \/ main.v.dim # -1
       THEN [status |-> "wrong", events |-> <<>>, signals |-> <<>>]
       ELSE [status |-> IF Running(end.m) THEN "ok" ELSE end.m.status, events |-> end.m.events,
             signals |-> [n \in DOMAIN end.c.outputs |-> end.c.outputs[n].value]]
=============================================================================
