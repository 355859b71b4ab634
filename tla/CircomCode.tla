----------------------------- MODULE CircomCode -----------------------------
(***************************************************************************)
(* The body of a circom template as the compiler's passes see it: its      *)
(* statements and expressions, the static analysis of what may be unknown  *)
(* (type_analysis/src/analyzers/unknown_known_analysis.rs) and the filters *)
(* that simplify an executed body                                          *)
(* (constraint_generation/src/execution_data/filters.rs, analysis.rs).     *)
(*                                                                         *)
(* A node is named by its place, the path from the root: it stands for the *)
(* elem_id of the abstract syntax tree.  The expression of a statement is  *)
(* its child 0, the body of a loop and the first arm its child 1, the else *)
(* arm its child 2.                                                        *)
(***************************************************************************)
LOCAL INSTANCE Integers
LOCAL INSTANCE Sequences
LOCAL INSTANCE SequencesExt
LOCAL INSTANCE FiniteSets

\* Expressions.
Num(v)          == [expr |-> "Number", value |-> v]
Var(x)          == [expr |-> "Variable", name |-> x]
Infix(op, l, r) == [expr |-> "InfixOp", op |-> op, lhe |-> l, rhe |-> r]
Switch(c, t, f) == [expr |-> "InlineSwitchOp", cond |-> c, if_true |-> t, if_false |-> f]
Values(vs)      == [expr |-> "ArrayInLine", values |-> vs]

\* Statements.  The arrows are "=", "<--" and "<==".
Assign(x, op, e)          == [stmt |-> "Substitution", var |-> x, op |-> op, rhe |-> e]
SetTag(x, e)              == [stmt |-> "TagSubstitution", var |-> x, rhe |-> e]
Create(c)                 == [stmt |-> "ComponentSubstitution", var |-> c]
ConstraintEquality(l, r)  == [stmt |-> "ConstraintEquality", lhe |-> l, rhe |-> r]
IfThenElse(c, t, f)       == [stmt |-> "IfThenElse", cond |-> c, if_case |-> t, else_case |-> f]
While(c, b)               == [stmt |-> "While", cond |-> c, body |-> b]

Child(path, k) == Append(path, k)

---------------------------------------------------------------------------
(* What the static analysis knows: env maps a variable to whether its      *)
(* value is known to the compiler; signals never are.                      *)

RECURSIVE KnownExpr(_, _)
KnownExpr(e, env) ==
    CASE e.expr = "Number" -> TRUE
      [] e.expr = "Variable" -> e.name \in DOMAIN env /\ env[e.name]
      [] e.expr = "InfixOp" -> KnownExpr(e.lhe, env) /\ KnownExpr(e.rhe, env)
      [] e.expr = "InlineSwitchOp" ->
            KnownExpr(e.cond, env) /\ KnownExpr(e.if_true, env) /\ KnownExpr(e.if_false, env)
      [] e.expr = "ArrayInLine" -> \A i \in DOMAIN e.values : KnownExpr(e.values[i], env)

Forget(env, xs) == [x \in DOMAIN env |-> env[x] /\ x \notin xs]
Both(env, other) == [x \in DOMAIN env |-> env[x] /\ other[x]]

\* What the analysis learns of a piece of code: the environment after it, the
\* variables it assigns, whether it creates constraints or assigns tags, and
\* whether it was refused.
Learned(env, modified, constrains, tags, refused) ==
    [env |-> env, modified |-> modified, constrains |-> constrains, tags |-> tags,
     refused |-> refused]

\* Under a condition that may be unknown the variables assigned become so,
\* and neither constraints nor tags may depend on it.
Conditional(info, known) ==
    IF known THEN info
    ELSE [info EXCEPT !.env = Forget(@, info.modified),
                      !.refused = @ \/ info.constrains \/ info.tags]

RECURSIVE Analyze(_, _), AnalyzeList(_, _), AnalyzeLoop(_, _)
Analyze(s, env) ==
    CASE s.stmt = "Substitution" /\ s.var \in DOMAIN env ->
            Learned([env EXCEPT ![s.var] = KnownExpr(s.rhe, env)], {s.var}, FALSE, FALSE, FALSE)
      [] s.stmt = "Substitution" /\ s.var \notin DOMAIN env ->
            Learned(env, {}, s.op = "<==", FALSE, FALSE)
      [] s.stmt = "TagSubstitution" -> Learned(env, {}, FALSE, TRUE, ~KnownExpr(s.rhe, env))
      [] s.stmt \in {"ComponentSubstitution", "ConstraintEquality"} ->
            Learned(env, {}, TRUE, FALSE, FALSE)
      [] s.stmt = "IfThenElse" ->
            LET t == AnalyzeList(s.if_case, env)
                f == AnalyzeList(s.else_case, env)
            IN Conditional(Learned(Both(t.env, f.env), t.modified \union f.modified,
                                   t.constrains \/ f.constrains, t.tags \/ f.tags,
                                   t.refused \/ f.refused),
                           KnownExpr(s.cond, env))
      [] s.stmt = "While" ->
            LET info == AnalyzeLoop(s, env) IN Conditional(info, KnownExpr(s.cond, info.env))

AnalyzeList(code, env) ==
    IF code = <<>> THEN Learned(env, {}, FALSE, FALSE, FALSE)
    ELSE LET first == Analyze(Head(code), env)
             rest == AnalyzeList(Tail(code), first.env)
         IN Learned(rest.env, first.modified \union rest.modified,
                    first.constrains \/ rest.constrains, first.tags \/ rest.tags,
                    first.refused \/ rest.refused)

\* The body again, until it makes no further variable unknown.
AnalyzeLoop(s, env) ==
    LET once == AnalyzeList(s.body, env)
        after == [once EXCEPT !.env = Both(env, @)]
    IN IF \E x \in DOMAIN env : env[x] /\ ~once.env[x] THEN AnalyzeLoop(s, after.env) ELSE after

Admitted(code, variables) == ~AnalyzeList(code, [x \in variables |-> TRUE]).refused

---------------------------------------------------------------------------
(* What the execution recorded.  computed maps the place of an expression  *)
(* to the number it always had, or to Many; reached is the set of places   *)
(* of the statements it executed.                                          *)

Many == -1

LeastUpperBound(v, w) == IF v = w THEN v ELSE Many

\* Wrong: the last value is taken for the value.
lastValue(computed, p, v) ==
    [q \in DOMAIN computed \union {p} |-> IF q = p THEN v ELSE computed[q]]

\* One more value (Many if the expression was no number) at place p.
Computed(computed, p, v) ==
    [q \in DOMAIN computed \union {p} |->
        IF q # p THEN computed[q]
        ELSE IF p \notin DOMAIN computed \/ v = Many THEN v ELSE LeastUpperBound(computed[p], v)]

HasValue(computed, p) == p \in DOMAIN computed /\ computed[p] # Many

---------------------------------------------------------------------------
(* apply_computed: an expression that always had one value is replaced by  *)
(* it, and so are the operands of the others.                              *)

RECURSIVE ComputedOrOriginal(_, _, _)
ComputedOrOriginal(e, p, computed) ==
    LET operand(f, k) == ComputedOrOriginal(f, Child(p, k), computed)
    IN CASE HasValue(computed, p) -> Num(computed[p])
         [] e.expr = "InfixOp" -> [e EXCEPT !.lhe = operand(@, 1), !.rhe = operand(@, 2)]
         [] e.expr = "InlineSwitchOp" ->
               [e EXCEPT !.cond = operand(@, 1), !.if_true = operand(@, 2),
                         !.if_false = operand(@, 3)]
         [] e.expr = "ArrayInLine" -> [e EXCEPT !.values = [i \in DOMAIN @ |-> operand(@[i], i)]]
         [] OTHER -> e

ApplyComputed(s, path, computed) ==
    LET value(e, k) == ComputedOrOriginal(e, Child(path, k), computed)
    IN CASE s.stmt \in {"Substitution", "TagSubstitution"} -> [s EXCEPT !.rhe = value(@, 0)]
         [] s.stmt = "ConstraintEquality" -> [s EXCEPT !.lhe = value(@, 0), !.rhe = value(@, 1)]
         [] s.stmt \in {"IfThenElse", "While"} -> [s EXCEPT !.cond = value(@, 0)]
         [] OTHER -> s

---------------------------------------------------------------------------
(* apply_unused, with apply_computed on the way: the statements that were  *)
(* never executed go, and a condition that had one value chooses its arm.  *)
(* A statement becomes a sequence, as an arm may take its place.           *)

RECURSIVE CleanDeadCode(_, _, _, _), CleanBlock(_, _, _, _)
CleanDeadCode(s, path, reached, computed) ==
    LET applied == ApplyComputed(s, path, computed)
        block(code, k) == CleanBlock(code, Child(path, k), reached, computed)
    IN CASE s.stmt = "IfThenElse" ->
               LET t == block(s.if_case, 1)
                   f == block(s.else_case, 2)
               IN IF t = <<>> /\ f = <<>> THEN <<>>
                  ELSE IF HasValue(computed, Child(path, 0))
                       THEN IF computed[Child(path, 0)] # 0 THEN t ELSE f
                       ELSE <<[applied EXCEPT !.if_case = t, !.else_case = f]>>
         [] s.stmt = "While" ->
               LET b == block(s.body, 1)
               IN IF b = <<>> THEN <<>> ELSE <<[applied EXCEPT !.body = b]>>
         [] OTHER -> <<applied>>

CleanBlock(code, path, reached, computed) ==
    FlattenSeq([i \in DOMAIN code |->
        IF Child(path, i) \in reached
        THEN CleanDeadCode(code[i], Child(path, i), reached, computed) ELSE <<>>])

Simplified(code, reached, computed) == CleanBlock(code, <<>>, reached, computed)
=============================================================================
