---------------------------- MODULE ComponentTypes ----------------------------
(***************************************************************************)
(* What the compiler writes on the tree of a program before it types it:   *)
(* which template each component holds                                     *)
(* (type_analysis/src/decorators/component_type_inference.rs) and what     *)
(* kind of thing each variable with its accesses is (type_reduction.rs).   *)
(* The later passes find signals and components by these marks.            *)
(***************************************************************************)
EXTENDS ProgramAnalyses
LOCAL INSTANCE Naturals
LOCAL INSTANCE Sequences
LOCAL INSTANCE SequencesExt
LOCAL INSTANCE Functions

IsComponentType(t) == t \in {ComponentType, AnonymousType}

---------------------------------------------------------------------------
(* The template of a component: the last one assigned to its name.         *)

RECURSIVE IntoTemplate(_, _)
IntoTemplate(templates, e) ==
    CASE e.expr = "InlineSwitchOp" ->
            IF IntoTemplate(templates, e.args[2]) # "" THEN IntoTemplate(templates, e.args[2])
            ELSE IntoTemplate(templates, e.args[3])
      [] e.expr = "Call" /\ e.id \in templates -> e.id
      [] e.expr = "ParallelOp" -> IntoTemplate(templates, e.args[1])
      [] OTHER -> ""

\* data: the components declared so far, and the template of some of them.
RECURSIVE InferComponents(_, _, _)
InferComponents(templates, s, data) ==
    CASE s.stmt = "Declaration" ->
            IF IsComponentType(s.xtype) THEN [data EXCEPT !.components = @ \union {s.name}]
            ELSE data
      [] s.stmt = "Substitution" ->
            IF s.var \in data.components /\ IntoTemplate(templates, s.rhe) # ""
            THEN [data EXCEPT !.inferred = Bind(@, s.var, IntoTemplate(templates, s.rhe))]
            ELSE data
      [] OTHER -> FoldLeft(LAMBDA d, t : InferComponents(templates, t, d), data, Statements(s))

\* Each inference is used up by the first declaration of its name.
RECURSIVE ApplyInference(_, _)
ApplyInference(s, inferred) ==
    IF s.stmt = "Declaration" /\ IsComponentType(s.xtype) THEN
        [stmt |-> [s EXCEPT !.inferred = IF s.name \in DOMAIN inferred THEN inferred[s.name] ELSE ""],
         inferred |-> RestrictDomain(inferred, LAMBDA x : x # s.name)]
    ELSE LET r == FoldLeft(LAMBDA acc, t :
                             LET a == ApplyInference(t, acc.inferred)
                             IN [stmts |-> Append(acc.stmts, a.stmt), inferred |-> a.inferred],
                           [stmts |-> <<>>, inferred |-> inferred], Statements(s))
         IN [stmt |-> WithStatements(s, r.stmts), inferred |-> r.inferred]

Inference(templates, body) ==
    ApplyInference(body, InferComponents(templates, body,
                            [components |-> {}, inferred |-> <<>>]).inferred).stmt

---------------------------------------------------------------------------
(* What a name is: variable, signal, tag, or component of a template, ""   *)
(* as long as none was assigned in the text before.  Blocks do not count.  *)

\* A walk has the signals and the components met, and its errors.
NewWalk == [signals |-> {}, components |-> <<>>, ok |-> TRUE, panic |-> FALSE]

Reduction(x, walk) ==
    CASE x \in walk.signals -> Reduced("signal", "")
      [] x \notin walk.signals /\ x \in DOMAIN walk.components -> walk.components[x]
      [] OTHER -> Reduced("variable", "")

Missing == Reduced("missing", "")
Broken  == Reduced("panic", "")

\* One more ".n"
ReduceField(p, r, n) ==
    CASE r.kind = "component" ->
            (CASE r.template = "" -> r
               [] r.template # "" /\ r.template \notin DOMAIN p.templates -> Broken
               [] OTHER -> IF WireOf(p, r.template, n).found THEN Reduced("signal", "") ELSE Missing)
      [] r.kind = "signal" -> Reduced("tag", "")
      [] OTHER -> r

ReduceAccess(p, r, access) ==
    FoldLeft(LAMBDA acc, a : IF a.access = "ArrayAccess" THEN acc ELSE ReduceField(p, acc, a.name),
             r, access)

\* Of an expression: a call is taken for a component, whatever it calls.
RECURSIVE ReductionOf(_)
ReductionOf(e) ==
    CASE e.expr = "Call" -> Reduced("component", e.id)
      [] e.expr = "Variable" -> e.reduces
      [] e.expr = "ParallelOp" -> ReductionOf(e.args[1])
      [] OTHER -> Unreduced

Noted(walk, r) == [walk EXCEPT !.ok = @ /\ r # Missing, !.panic = @ \/ r = Broken]

RECURSIVE ReduceExpression(_, _, _)
ReduceExpressions(p, es, walk) ==
    FoldLeft(LAMBDA acc, e :
                IF acc.walk.panic THEN [acc EXCEPT !.exps = Append(@, e)]
                ELSE LET r == ReduceExpression(p, e, acc.walk)
                     IN [exps |-> Append(acc.exps, r.exp), walk |-> r.walk],
             [exps |-> <<>>, walk |-> walk], es)

\* An expression whose operands have been reduced.
OperandsReduced(p, e, rs, before) ==
    LET new == WithOperands(e, rs.exps)
        walk == rs.walk
        r == ReduceAccess(p, Reduction(e.name, before), e.access)
    IN CASE e.expr = "Variable" -> [exp |-> [new EXCEPT !.reduces = r], walk |-> Noted(walk, r)]
         [] e.expr = "ParallelOp" ->
               [exp |-> new, walk |-> [walk EXCEPT !.panic = @ \/ ReductionOf(new) = Unreduced]]
         [] OTHER -> [exp |-> new, walk |-> walk]
ReduceExpression(p, e, walk) ==
    IF e.expr \in {"AnonymousComp", "Tuple"}
    THEN [exp |-> e, walk |-> [walk EXCEPT !.panic = TRUE]]
    ELSE OperandsReduced(p, e, ReduceExpressions(p, Operands(e), walk), walk)

ReduceDeclaration(s, walk) ==
    CASE s.xtype = VarType -> walk
      [] IsComponentType(s.xtype) ->
            [walk EXCEPT !.components = Bind(@, s.name, Reduced("component", ""))]
      [] OTHER -> [walk EXCEPT !.signals = @ \union {s.name}]

\* A component assigned as a whole, or one of an array, becomes what it is
\* assigned.
ReduceAssigned(s, walk) ==
    IF /\ \A i \in DOMAIN s.access : s.access[i].access = "ArrayAccess"
       /\ s.var \in DOMAIN walk.components /\ ReductionOf(s.rhe) # Unreduced
    THEN [walk EXCEPT !.components[s.var] = ReductionOf(s.rhe)] ELSE walk

RECURSIVE ReduceStatement(_, _, _)
ReduceStatements(p, ss, walk) ==
    FoldLeft(LAMBDA acc, s :
                IF acc.walk.panic THEN [acc EXCEPT !.stmts = Append(@, s)]
                ELSE LET r == ReduceStatement(p, s, acc.walk)
                     IN [stmts |-> Append(acc.stmts, r.stmt), walk |-> r.walk],
             [stmts |-> <<>>, walk |-> walk], ss)

SubstitutionReduced(s, new, walk, r) ==
    [stmt |-> [new EXCEPT !.reduces = r], walk |-> ReduceAssigned(new, Noted(walk, r))]

PartsReduced(new, inner) ==
    [stmt |-> WithStatements(new, inner.stmts), walk |-> inner.walk]

\* A statement whose expressions have been reduced.
ExpressionsReduced(p, s, es, before) ==
    LET new == WithExpressions(s, es.exps)
    IN IF s.stmt = "Substitution"
       THEN SubstitutionReduced(s, new, es.walk,
                                ReduceAccess(p, Reduction(s.var, before), s.access))
       ELSE PartsReduced(new, ReduceStatements(p, Statements(s), es.walk))

ReduceStatement(p, s, walk) ==
    LET begun == IF s.stmt = "Declaration" THEN ReduceDeclaration(s, walk) ELSE walk
    IN IF s.stmt = "MultSubstitution" THEN [stmt |-> s, walk |-> [walk EXCEPT !.panic = TRUE]]
       ELSE ExpressionsReduced(p, s, ReduceExpressions(p, Expressions(s), begun), walk)

ReduceDefinition(p, d) == ReduceStatement(p, d.body, NewWalk)
=============================================================================
