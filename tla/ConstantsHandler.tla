--------------------------- MODULE ConstantsHandler ---------------------------
(***************************************************************************)
(* Constants of functions                                                  *)
(* (type_analysis/src/decorators/constants_handler.rs).  A variable that   *)
(* is assigned only where it is declared, from constants, is one; array    *)
(* lengths must be made of constants; at last the value of a constant is   *)
(* put in its place.  Each of the three walks has blocks of its own.       *)
(***************************************************************************)
EXTENDS CircomSyntax
LOCAL INSTANCE Naturals
LOCAL INSTANCE Sequences
LOCAL INSTANCE SequencesExt

\* constants: blocks of variables with whether they are constant.
RECURSIVE HasConstantValue(_, _)
HasConstantValue(e, constants) ==
    CASE e.expr = "Variable" -> GetVariable(constants, e.name)
      [] e.expr \in {"ArrayInLine", "UniformArray"} -> FALSE
      [] OTHER -> \A i \in DOMAIN Operands(e) : HasConstantValue(Operands(e)[i], constants)

---------------------------------------------------------------------------
(* Which declarations are constant *)

\* A number declared with a value may be one, an assignment ends that.
InferInitialization(s, constants) ==
    LET given == {s.stmts[i].var : i \in {j \in DOMAIN s.stmts : s.stmts[j].stmt = "Substitution"}}
    IN FoldLeft(LAMBDA c, t :
                   IF t.stmt # "Declaration" THEN c
                   ELSE AddVariable(c, t.name,
                            t.dims = <<>> /\ t.name \in given /\ t.xtype = VarType),
                constants, s.stmts)

\* At the end of its block: the value must be made of constants.
ConstantsOfInitialization(s, constants) ==
    FoldLeft(LAMBDA c, t :
                IF t.stmt # "Substitution" THEN c
                ELSE SetVariable(c, t.var,
                         GetVariable(c, t.var) /\ HasConstantValue(t.rhe, c)),
             constants, s.stmts)

MarkConstants(s, constants) ==
    [s EXCEPT !.stmts =
        [i \in DOMAIN s.stmts |->
            LET t == s.stmts[i]
            IN IF t.stmt # "Declaration" THEN t
               ELSE [t EXCEPT !.constant = GetVariable(constants, t.name)]]]

\* A statement with its declarations marked, and what holds after it.
Inferred(s, constants) == [stmt |-> s, constants |-> constants]

RECURSIVE InferConstants(_, _)
InferEach(ss, constants) ==
    FoldLeft(LAMBDA acc, s : LET r == InferConstants(s, acc.constants)
                             IN [stmts |-> Append(acc.stmts, r.stmt), constants |-> r.constants],
             [stmts |-> <<>>, constants |-> constants], ss)

ApplyConstants(ss, constants) ==
    FoldLeft(LAMBDA acc, s :
                IF s.stmt # "InitializationBlock" THEN [acc EXCEPT !.stmts = Append(@, s)]
                ELSE LET c == ConstantsOfInitialization(s, acc.constants)
                     IN [stmts |-> Append(acc.stmts, MarkConstants(s, c)), constants |-> c],
             [stmts |-> <<>>, constants |-> constants], ss)

InferBlock(s, constants) ==
    LET visited == InferEach(s.stmts, AddVariableBlock(constants))
        applied == ApplyConstants(visited.stmts, visited.constants)
    IN Inferred(Block(applied.stmts), RemoveVariableBlock(applied.constants))

InferConstants(s, constants) ==
    LET inner == InferEach(Statements(s), constants)
    IN CASE s.stmt = "Substitution" -> Inferred(s, SetVariable(constants, s.var, FALSE))
         [] s.stmt = "InitializationBlock" -> Inferred(s, InferInitialization(s, constants))
         [] s.stmt = "Block" -> InferBlock(s, constants)
         [] OTHER -> Inferred(WithStatements(s, inner.stmts), inner.constants)

---------------------------------------------------------------------------
(* Array lengths *)

LengthsChecked(ok, constants) == [ok |-> ok, constants |-> constants]

RECURSIVE CheckLengths(_, _)
CheckEach(ss, constants) ==
    FoldLeft(LAMBDA acc, s : LET r == CheckLengths(s, acc.constants)
                             IN LengthsChecked(acc.ok /\ r.ok, r.constants),
             LengthsChecked(TRUE, constants), ss)

CheckInitialization(s, constants) ==
    LET declared == SelectSeq(s.stmts, LAMBDA t : t.stmt = "Declaration")
    IN LengthsChecked(\A i \in DOMAIN declared : \A j \in DOMAIN declared[i].dims :
                         HasConstantValue(declared[i].dims[j], constants),
                      FoldLeft(LAMBDA c, t : AddVariable(c, t.name, t.constant),
                               constants, declared))

CheckLengths(s, constants) ==
    CASE s.stmt = "InitializationBlock" -> CheckInitialization(s, constants)
      [] s.stmt = "Block" ->
            LengthsChecked(CheckEach(s.stmts, AddVariableBlock(constants)).ok, constants)
      [] s.stmt \in {"IfThenElse", "While"} -> CheckEach(Statements(s), constants)
      [] OTHER -> LengthsChecked(TRUE, constants)

---------------------------------------------------------------------------
(* Expansion.  held has the constants with their values only: a variable   *)
(* of the same name in an inner block does not hide them.                  *)

RECURSIVE ExpandConstants(_, _)
ExpandConstants(e, held) ==
    IF e.expr = "Variable" /\ e.access = <<>> /\ HasVariable(held, e.name)
    THEN GetVariable(held, e.name)
    ELSE WithOperands(e, [i \in DOMAIN Operands(e) |-> ExpandConstants(Operands(e)[i], held)])

HoldConstants(s, held) ==
    LET constants == {s.stmts[i].name : i \in {j \in DOMAIN s.stmts :
                         s.stmts[j].stmt = "Declaration" /\ s.stmts[j].constant}}
    IN FoldLeft(LAMBDA h, t : IF t.stmt = "Substitution" /\ t.var \in constants
                              THEN AddVariable(h, t.var, t.rhe) ELSE h,
                held, s.stmts)

ConstantsExpanded(s, held) == [stmt |-> s, held |-> held]

RECURSIVE ExpandStatements(_, _)
ExpandEach(ss, held) ==
    FoldLeft(LAMBDA acc, s : LET r == ExpandStatements(s, acc.held)
                             IN [stmts |-> Append(acc.stmts, r.stmt), held |-> r.held],
             [stmts |-> <<>>, held |-> held], ss)

ExpandStatements(s, held) ==
    LET new   == WithExpressions(s, [i \in DOMAIN Expressions(s) |->
                                        ExpandConstants(Expressions(s)[i], held)])
        inner == ExpandEach(Statements(s), held)
        both  == WithStatements(new, inner.stmts)
    IN CASE s.stmt = "InitializationBlock" -> ConstantsExpanded(both, HoldConstants(both, held))
         [] s.stmt = "Block" ->
               ConstantsExpanded(Block(ExpandEach(s.stmts, AddVariableBlock(held)).stmts), held)
         [] OTHER -> ConstantsExpanded(both, inner.held)

\* handle_function_constants
HandleConstants(f) ==
    LET params == <<[x \in {f.params[i] : i \in DOMAIN f.params} |-> FALSE]>>
        marked == InferConstants(f.body, params)
    IN [definition |-> [f EXCEPT !.body = ExpandStatements(marked.stmt, <<<<>>>>).stmt],
        ok |-> CheckLengths(marked.stmt, marked.constants).ok]
=============================================================================
