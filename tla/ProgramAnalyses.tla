--------------------------- MODULE ProgramAnalyses ---------------------------
(***************************************************************************)
(* The analyses of a program before it is typed                            *)
(* (type_analysis/src/analyzers): names, returns, the places of signals,   *)
(* functions without elements of templates, custom gates.  A program is    *)
(* [templates, functions, main, public]; a definition has params and body, *)
(* a template also parallel and custom.                                    *)
(***************************************************************************)
EXTENDS CircomSyntax
LOCAL INSTANCE Naturals
LOCAL INSTANCE Sequences
LOCAL INSTANCE SequencesExt
LOCAL INSTANCE Functions

\* The input or output signals a body declares, in order (template_data.rs).
RECURSIVE Wires(_, _)
Wires(s, io) ==
    IF s.stmt = "Declaration" THEN
        IF s.xtype.type = "Signal" /\ s.xtype.io = io
        THEN <<[name |-> s.name, dims |-> s.dims, tags |-> s.xtype.tags]>> ELSE <<>>
    ELSE FlattenSeq([i \in DOMAIN Statements(s) |-> Wires(Statements(s)[i], io)])

WireNames(wires) == [i \in DOMAIN wires |-> wires[i].name]

\* The wire of a name: the last of those declared.
WireNamed(wires, n) == SelectLastInSeq(wires, LAMBDA w : w.name = n)

\* An input or output of a template: the input if both have the name.
WireOf(p, t, n) ==
    LET input  == WireNamed(p.templates[t].inputs, n)
        output == WireNamed(p.templates[t].outputs, n)
    IN CASE input # 0 ->
               [found |-> TRUE, input |-> TRUE, wire |-> p.templates[t].inputs[input]]
         [] input = 0 /\ output # 0 ->
               [found |-> TRUE, input |-> FALSE, wire |-> p.templates[t].outputs[output]]
         [] OTHER -> [found |-> FALSE]

---------------------------------------------------------------------------
(* Names (symbol_analysis.rs).  known is a sequence of blocks.             *)

Callable(p) == DOMAIN p.functions \union DOMAIN p.templates
Params(p, id) == (IF id \in DOMAIN p.functions THEN p.functions ELSE p.templates)[id].params

IsKnown(x, known) == \E i \in DOMAIN known : x \in known[i]

RECURSIVE NamesInExpression(_, _, _)
NamesInExpression(p, e, known) ==
    /\ e.expr = "Variable" => IsKnown(e.name, known)
    /\ e.expr = "Call" => e.id \in Callable(p) /\ Len(e.args) = Len(Params(p, e.id))
    /\ e.expr \notin {"AnonymousComp", "Tuple"} =>
            \A i \in DOMAIN Operands(e) : NamesInExpression(p, Operands(e)[i], known)

\* A statement declares names in the last block, and checks what it uses.
Checked(known, ok) == [known |-> known, ok |-> ok]

Declared(x, known) == x \in Last(known)

RECURSIVE NamesInStatement(_, _, _)
NamesInStatements(p, ss, known) ==
    FoldLeft(LAMBDA acc, s : LET r == NamesInStatement(p, s, acc.known)
                             IN Checked(r.known, acc.ok /\ r.ok),
             Checked(known, TRUE), ss)

NamesInStatement(p, s, known) ==
    LET uses == \A i \in DOMAIN Expressions(s) : NamesInExpression(p, Expressions(s)[i], known)
    IN CASE s.stmt = "Declaration" ->
               Checked([known EXCEPT ![Len(known)] = @ \union {s.name}],
                       uses /\ ~Declared(s.name, known))
         [] s.stmt = "Substitution" -> Checked(known, uses /\ IsKnown(s.var, known))
         [] s.stmt = "Block" ->
               Checked(known, NamesInStatements(p, s.stmts, Append(known, {})).ok)
         [] OTHER -> LET inner == NamesInStatements(p, Statements(s), known)
                     IN Checked(inner.known, uses /\ inner.ok)

NamesInDefinition(p, d) ==
    /\ IsInjective(d.params)
    /\ NamesInStatements(p, d.body.stmts, <<Range(d.params)>>).ok

NamesInMain(p) ==
    /\ p.main.expr = "Call" /\ p.main.id \in DOMAIN p.templates =>
         p.public \subseteq Range(WireNames(p.templates[p.main.id].inputs))
    /\ NamesInExpression(p, p.main, <<{}>>)

CheckNamingCorrectness(p) ==
    /\ NamesInMain(p)
    /\ \A id \in DOMAIN p.templates : NamesInDefinition(p, p.templates[id])
    /\ \A id \in DOMAIN p.functions : NamesInDefinition(p, p.functions[id])

---------------------------------------------------------------------------
(* Templates: no returns, and no signals or components in a loop.          *)

RECURSIVE FreeOfReturns(_)
FreeOfReturns(s) ==
    /\ s.stmt # "Return"
    /\ s.stmt \in {"IfThenElse", "While", "Block"} =>
            \A i \in DOMAIN Statements(s) : FreeOfReturns(Statements(s)[i])

RECURSIVE SignalsCorrect(_, _)
SignalsCorrect(s, allowed) ==
    CASE s.stmt = "InitializationBlock" -> allowed \/ s.xtype.type \notin {"Signal", "Component"}
      [] s.stmt = "While" -> SignalsCorrect(s.body, FALSE)
      [] s.stmt \in {"IfThenElse", "Block"} ->
            \A i \in DOMAIN Statements(s) : SignalsCorrect(Statements(s)[i], allowed)
      [] OTHER -> TRUE

---------------------------------------------------------------------------
(* Functions: a return on every path, and nothing of a template.           *)

\* Wrong: a loop is taken to be entered.
RECURSIVE loopReturns(_)
loopReturns(s) ==
    CASE s.stmt = "Return" -> TRUE
      [] s.stmt = "While" -> loopReturns(s.body)
      [] s.stmt = "IfThenElse" -> loopReturns(s.if_case) /\ loopReturns(s.else_case)
      [] s.stmt = "Block" -> \E i \in DOMAIN s.stmts : loopReturns(s.stmts[i])
      [] OTHER -> FALSE

RECURSIVE AllPathsReturn(_)
AllPathsReturn(s) ==
    CASE s.stmt = "Return" -> TRUE
      [] s.stmt = "IfThenElse" -> AllPathsReturn(s.if_case) /\ AllPathsReturn(s.else_case)
      [] s.stmt = "Block" -> \E i \in DOMAIN s.stmts : AllPathsReturn(s.stmts[i])
      [] OTHER -> FALSE

FreeAccess(access) == \A i \in DOMAIN access : access[i].access = "ArrayAccess"

RECURSIVE FreeExpression(_, _)
FreeExpression(p, e) ==
    /\ e.expr = "Variable" => FreeAccess(e.access)
    /\ e.expr = "Call" => e.id \in DOMAIN p.functions
    /\ \A i \in DOMAIN Operands(e) : FreeExpression(p, Operands(e)[i])

RECURSIVE FreeOfTemplateElements(_, _)
FreeOfTemplateElements(p, s) ==
    /\ s.stmt = "Declaration" => s.xtype = VarType
    /\ s.stmt = "InitializationBlock" => s.xtype.type # "Signal"
    /\ s.stmt \in {"Substitution", "UnderscoreSubstitution"} => s.op = "="
    /\ s.stmt = "Substitution" => FreeAccess(s.access)
    /\ s.stmt # "ConstraintEquality"
    /\ \A i \in DOMAIN Expressions(s) : FreeExpression(p, Expressions(s)[i])
    /\ \A i \in DOMAIN Statements(s) : FreeOfTemplateElements(p, Statements(s)[i])

---------------------------------------------------------------------------
(* Custom gates have neither components nor constraints.                   *)

RECURSIVE CustomGateCorrect(_)
CustomGateCorrect(s) ==
    /\ s.stmt = "Declaration" => s.xtype \notin {ComponentType, AnonymousType}
    /\ s.stmt \in {"Substitution", "UnderscoreSubstitution"} => s.op # "<=="
    /\ s.stmt # "ConstraintEquality"
    /\ \A i \in DOMAIN Statements(s) : CustomGateCorrect(Statements(s)[i])
=============================================================================
