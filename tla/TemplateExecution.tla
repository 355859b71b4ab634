------------------------- MODULE TemplateExecution -------------------------
(***************************************************************************)
(* The execution of a template at compile time                             *)
(* (constraint_generation/src/execute.rs).  The statements are executed    *)
(* with what is known: numbers, and expressions over signals.  A condition *)
(* that is not a number opens an unknown block, where both arms are        *)
(* executed and every variable assigned becomes unknown; a loop on such a  *)
(* condition is executed twice.  The result is the constraints of the      *)
(* template and its body, simplified by what the execution saw, from which *)
(* the witness code is generated.                                          *)
(*                                                                         *)
(* The template has inputs x and y, a signal s[2], variables a and b, and  *)
(* a component c with inputs in[2] and k and the output out = in[0]+in[1]+k.*)
(***************************************************************************)
EXTENDS Algebra, CircomCode, SignalState
LOCAL INSTANCE Integers
LOCAL INSTANCE Sequences
LOCAL INSTANCE SequencesExt
LOCAL INSTANCE FiniteSets
LOCAL INSTANCE FiniteSetsExt

CONSTANT Programs     \* the templates: [code, needs, declared], the tagged
                      \* inputs of c and whether s is declared with the tag

VARIABLES program,
          todo,            \* the work left, the innermost statement first
          block,           \* "Known" or "Unknown" (runtime.block_type)
          conditions,      \* runtime.conditions_state
          unknownCounter,  \* runtime.unknown_counter
          variables,       \* the value and the tag of each variable
          signals,         \* the AssignmentState of the cells of s
          tag,             \* the tag of s
          comp,            \* the ComponentRepresentation of c
          constraints,     \* those added to the node
          reached,         \* runtime.analysis: the statements executed and the
          computed,        \*   values the expressions had
          given,           \* history: the tag each cell was assigned with, the
                           \*   block, and whether as part of its signal
          stale,           \* history: a value was recorded that a further pass
                           \*   over a loop would have taken back
          strayed,         \* history: an unknown condition ended with more on the
                           \*   stack of conditions than itself
          code,            \* the simplified body
          status           \* "executing", "refused" or "executed"

flow     == <<block, conditions, unknownCounter>>
memory   == <<variables, signals, tag, comp, given>>
analysis == <<reached, computed, stale, strayed>>
result   == <<constraints, code, status>>
vars     == <<program, todo, flow, memory, analysis, result>>

CellsOf == [x |-> <<1>>, y |-> <<2>>, s |-> <<3, 4>>, s0 |-> <<3>>, s1 |-> <<4>>,
            in |-> <<5, 6>>, in0 |-> <<5>>, in1 |-> <<6>>, k |-> <<7>>, out |-> <<8>>]
VariableNames == {"a", "b"}
SignalNames   == {"s", "s0", "s1"}
InputOf == [in |-> "in", in0 |-> "in", in1 |-> "in", k |-> "k"]
InputCells == [in |-> {5, 6}, k |-> {7}]

Work(c, path) == [i \in DOMAIN c |-> [do |-> "Execute", stmt |-> c[i], path |-> Child(path, i)]]

Init ==
    /\ program \in {p \in Programs : Admitted(p.code, VariableNames)}
    /\ todo = Work(program.code, <<>>)
    /\ block = "Known" /\ conditions = <<>> /\ unknownCounter = 0
    /\ variables = [v \in VariableNames |-> [value |-> Number(0), tag |-> Absent]]
    /\ signals = [c \in {3, 4} |-> NoAssigned]
    /\ tag = DeclaredTag(program.declared, 2)
    /\ comp = NoComponent
    /\ constraints = <<>> /\ reached = {} /\ computed = <<>>
    /\ given = <<>> /\ stale = FALSE /\ strayed = FALSE /\ code = <<>> /\ status = "executing"

---------------------------------------------------------------------------
(* execute_expression *)

Folded(values, t, failed, c, skipped) ==
    [values |-> values, tag |-> t, failed |-> failed, computed |-> c, skipped |-> skipped]

\* The inputs x and y come with the tag, of value 1 and 2.
ReadName(name) ==
    LET cells == CellsOf[name]
        slice == [i \in DOMAIN cells |-> Signal(cells[i])]
    IN CASE name \in VariableNames -> <<<<variables[name].value>>, variables[name].tag, FALSE>>
         [] name = "x" -> <<slice, PropagatedTag(InputTag(1)), FALSE>>
         [] name = "y" -> <<slice, PropagatedTag(InputTag(2)), FALSE>>
         [] name \in SignalNames ->
               <<slice, PropagatedTag(tag), \E i \in DOMAIN cells : signals[cells[i]] = NoAssigned>>
         [] name = "out" -> <<slice, Absent, ~OutputReadable(comp)>>
         [] name = "s.t" ->
               <<<<Number(tag.value)>>, Absent,
                 tag.value < 0 \/ ~(tag.valueDefined \/ tag.remaining = 0)>>

ExecuteInfix(op, l, r) ==
    CASE op = "Add" -> Add(l, r)
      [] op = "Mul" -> Mul(l, r)
      [] op \in {"Lesser", "Eq", "NotEq"} -> Compare(op, l, r)

IsNumber(e) == e.kind = "Number"
Truth(e) == Normalize(e.value) = 1

\* The value of the expression e at place p, and the values recorded.
RECURSIVE Execute(_, _, _)
Execute(e, p, c) ==
    LET operand(f, k, d) == Execute(f, Child(p, k), d)
        folded ==
          CASE e.expr = "Number" -> Folded(<<Number(e.value)>>, Absent, FALSE, c, {})
            [] e.expr = "Variable" ->
                  LET read == ReadName(e.name) IN Folded(read[1], read[2], read[3], c, {})
            [] e.expr = "InfixOp" ->
                  LET l == operand(e.lhe, 1, c)
                      r == operand(e.rhe, 2, l.computed)
                  IN Folded(<<ExecuteInfix(e.op, l.values[1], r.values[1])>>, Absent,
                            l.failed \/ r.failed, r.computed, l.skipped \union r.skipped)
            [] e.expr = "InlineSwitchOp" ->
                  LET cond == operand(e.cond, 1, c)
                  IN IF IsNumber(cond.values[1])
                     THEN IF Truth(cond.values[1]) THEN operand(e.if_true, 2, cond.computed)
                                                   ELSE operand(e.if_false, 3, cond.computed)
                     ELSE Folded(<<NonQuadratic>>, Absent, cond.failed, cond.computed,
                                 {Child(p, 2), Child(p, 3)})
            [] e.expr = "ArrayInLine" ->
                  FoldLeft(LAMBDA f, k :
                               LET v == operand(e.values[k], k, f.computed)
                               IN Folded(f.values \o v.values, Absent, f.failed \/ v.failed,
                                         v.computed, f.skipped \union v.skipped),
                           Folded(<<>>, Absent, FALSE, c, {}),
                           [i \in DOMAIN e.values |-> i])
    IN IF folded.failed \/ Len(folded.values) # 1 THEN folded
       ELSE LET v == folded.values[1]
            IN [folded EXCEPT !.computed =
                    Computed(@, p, IF IsNumber(v) THEN v.value ELSE Many)]

\* A branch that is not executed has a value on record from an earlier pass.
Outdated(f) == \E q \in DOMAIN f.computed, p \in f.skipped :
                   IsPrefix(p, q) /\ HasValue(f.computed, q)
Recorded(f) == /\ computed' = f.computed /\ stale' = (stale \/ Outdated(f))
               /\ UNCHANGED strayed

---------------------------------------------------------------------------
(* execute_statement.  Item is the first statement, Rest what follows it.  *)

Item == Head(todo)
Rest == Tail(todo)
At(p) == Child(Item.path, p)
Is(kind) ==
    /\ status = "executing" /\ todo # <<>> /\ Item.do = "Execute" /\ Item.stmt.stmt = kind
    /\ reached' = reached \union {Item.path}
Value(e, k) == Execute(e, At(k), computed)

Refuse == status' = "refused" /\ UNCHANGED <<program, todo, flow, memory, constraints, code>>

Here == Under(conditions)

\* Wrong: the block is not asked.
keptVariable(v) == [value |-> v.values[1], tag |-> v.tag]

\* In an unknown block a variable becomes unknown and loses its tag.
AssignedVariable(v) ==
    IF block = "Unknown" THEN [value |-> NonQuadratic, tag |-> Absent]
    ELSE [value |-> v.values[1], tag |-> v.tag]

AssignVariable ==
    /\ Is("Substitution") /\ Item.stmt.var \in VariableNames
    /\ LET v == Value(Item.stmt.rhe, 0)
       IN /\ Recorded(v)
          /\ \/ v.failed /\ Refuse
             \/ /\ ~v.failed
                /\ variables' = [variables EXCEPT ![Item.stmt.var] = AssignedVariable(v)]
                /\ todo' = Rest
                /\ UNCHANGED <<program, flow, signals, tag, comp, given, result>>

\* Only "<==" takes the tag along, adds a constraint, and wants a known block
\* and a quadratic value.
NewTag(v) == IF Item.stmt.op = "<==" THEN v.tag ELSE Absent
Constrains(v) ==
    Item.stmt.op = "<==" =>
        block = "Known" /\ \A i \in DOMAIN v.values : v.values[i].kind # "NonQuadratic"
AddConstraints(cells, v) ==
    constraints' = IF Item.stmt.op # "<==" THEN constraints
                   ELSE constraints \o [i \in DOMAIN cells |->
                            ToConstraint(Sub(Signal(cells[i]), v.values[i]))]
Give(cells, t, whole) ==
    given' = [c \in DOMAIN given \union {cells[i] : i \in DOMAIN cells} |->
                 IF \E i \in DOMAIN cells : cells[i] = c
                 THEN [tag |-> t, block |-> block, part |-> Len(cells) < Cardinality(whole)]
                 ELSE given[c]]

AssignSignal ==
    /\ Is("Substitution") /\ Item.stmt.var \in SignalNames
    /\ LET v == Value(Item.stmt.rhe, 0)
           cells == CellsOf[Item.stmt.var]
           after == [c \in {cells[i] : i \in DOMAIN cells} |-> AfterAssignment(signals[c], Here)]
           accepted == /\ ~v.failed /\ Constrains(v)
                       /\ \A c \in DOMAIN after : after[c] # MultipleAssignments
       IN /\ Recorded(v)
          /\ \/ ~accepted /\ Refuse
             \/ /\ accepted
                /\ signals' = [c \in DOMAIN signals |->
                                  IF c \in DOMAIN after THEN after[c] ELSE signals[c]]
                /\ tag' = AfterTag(tag, NewTag(v), Len(cells))
                /\ Give(cells, NewTag(v), {3, 4})
                /\ AddConstraints(cells, v)
                /\ todo' = Rest
                /\ UNCHANGED <<program, flow, variables, comp, code, status>>

AssignComponentInput ==
    /\ Is("Substitution") /\ Item.stmt.var \in DOMAIN InputOf
    /\ LET v == Value(Item.stmt.rhe, 0)
           cells == CellsOf[Item.stmt.var]
           input == InputOf[Item.stmt.var]
           after == AssignInput(comp, Assignment(input, {cells[i] : i \in DOMAIN cells}, Here),
                                NewTag(v), InputCells)
           accepted == /\ ~v.failed /\ Constrains(v)
                       /\ comp.preinitialized /\ AcceptsTag(comp, input, NewTag(v))
                       /\ ~after.failed
       IN /\ Recorded(v)
          /\ \/ ~accepted /\ Refuse
             \/ /\ accepted
                /\ comp' = after
                /\ Give(cells, NewTag(v), InputCells[input])
                /\ AddConstraints(cells, v)
                /\ todo' = Rest
                /\ UNCHANGED <<program, flow, variables, signals, tag, code, status>>

\* A tag is given its value once, before the signal is assigned.
AssignTag ==
    /\ Is("TagSubstitution")
    /\ LET v == Value(Item.stmt.rhe, 0)
           accepted == /\ ~v.failed /\ block = "Known" /\ ~tag.isInit
                       /\ IsNumber(v.values[1]) /\ tag.value = Null
       IN /\ Recorded(v)
          /\ \/ ~accepted /\ Refuse
             \/ /\ accepted
                /\ tag' = [tag EXCEPT !.value = v.values[1].value, !.valueDefined = TRUE]
                /\ todo' = Rest
                /\ UNCHANGED <<program, flow, variables, signals, comp, given, result>>

CreateComponent ==
    /\ Is("ComponentSubstitution")
    /\ UNCHANGED <<computed, stale, strayed>>
    /\ \/ comp.preinitialized /\ Refuse
       \/ LET new == Preinitialize({"in", "k"}, program.needs)
          IN /\ ~comp.preinitialized
             /\ comp' = IF IsReady(new) THEN InitializeComponent(new, InputCells) ELSE new
             /\ todo' = Rest
             /\ UNCHANGED <<program, flow, variables, signals, tag, given, result>>

AddConstraintEquality ==
    /\ Is("ConstraintEquality")
    /\ LET l == Value(Item.stmt.lhe, 0)
           r == Execute(Item.stmt.rhe, At(1), l.computed)
           difference == Sub(l.values[1], r.values[1])
           accepted == /\ block = "Known" /\ ~l.failed /\ ~r.failed
                       /\ difference.kind # "NonQuadratic"
       IN /\ Recorded(r)
          /\ \/ ~accepted /\ Refuse
             \/ /\ accepted
                /\ constraints' = Append(constraints, ToConstraint(difference))
                /\ todo' = Rest
                /\ UNCHANGED <<program, flow, memory, code, status>>

---------------------------------------------------------------------------
(* execute_conditional_statement.  The work left says what follows an arm. *)

KnownVariables == {v \in VariableNames : IsNumber(variables[v].value)}

\* The else arm of an unknown condition, or nothing.
ElseArm == IF Item.stmt.stmt = "IfThenElse" /\ Item.stmt.else_case # <<>>
           THEN <<[Item EXCEPT !.do = "Else"]>> ELSE <<>>
\* The block is restored and the condition popped.  known: what was known
\* before the last pass over a loop.
Restore(known) == [do |-> "Restore", block |-> block, depth |-> Len(conditions), known |-> known]

TrueArm == IF Item.stmt.stmt = "While" THEN Work(Item.stmt.body, At(1))
                                       ELSE Work(Item.stmt.if_case, At(1))
FalseArm == IF Item.stmt.stmt = "While" THEN <<>> ELSE Work(Item.stmt.else_case, At(2))

\* The arms of a condition that was evaluated to v, then the work that
\* afterTrue, afterFalse and afterUnknown name.
Choose(v, afterTrue, afterFalse, afterUnknown, known) ==
    IF IsNumber(v.values[1])
    THEN /\ todo' = IF Truth(v.values[1]) THEN TrueArm \o afterTrue \o Rest
                                          ELSE FalseArm \o afterFalse \o Rest
         /\ UNCHANGED flow
    ELSE /\ todo' = TrueArm \o ElseArm \o <<Restore(known)>> \o afterUnknown \o Rest
         /\ block' = "Unknown"
         /\ conditions' = Append(conditions, <<unknownCounter, TRUE>>)
         /\ unknownCounter' = unknownCounter + 1

ExecuteConditional(afterTrue, afterFalse, afterUnknown, known) ==
    LET v == Value(Item.stmt.cond, 0)
    IN /\ Recorded(v)
       /\ \/ v.failed /\ Refuse
          \/ /\ ~v.failed
             /\ Choose(v, afterTrue, afterFalse, afterUnknown, known)
             /\ UNCHANGED <<program, memory, result>>

If == Is("IfThenElse") /\ ExecuteConditional(<<>>, <<>>, <<>>, {})

Doing(what) == status = "executing" /\ todo # <<>> /\ Item.do = what

Else ==
    /\ Doing("Else")
    /\ conditions' = [conditions EXCEPT ![Len(conditions)][2] = FALSE]
    /\ todo' = Work(Item.stmt.else_case, At(2)) \o Rest
    /\ UNCHANGED <<program, block, unknownCounter, memory, analysis, result>>

Popped == IF conditions = <<>> THEN <<>> ELSE Front(conditions)

EndUnknown ==
    /\ Doing("Restore")
    /\ block' = Item.block
    /\ conditions' = Popped
    /\ stale' = (stale \/ ~(Item.known \subseteq KnownVariables))
    /\ strayed' = (strayed \/ Len(conditions) # Item.depth + 1)
    /\ todo' = Rest
    /\ UNCHANGED <<program, unknownCounter, memory, reached, computed, result>>

\* A loop pushes one condition, pops one after every pass over its body with
\* a known condition, and none when it leaves.
While_ ==
    /\ Is("While")
    /\ conditions' = Append(conditions, <<unknownCounter, TRUE>>)
    /\ unknownCounter' = unknownCounter + 1
    /\ todo' = <<[Item EXCEPT !.do = "Test"]>> \o Rest
    /\ UNCHANGED <<program, block, memory, computed, stale, strayed, result>>

Test ==
    /\ Doing("Test")
    /\ UNCHANGED reached
    /\ ExecuteConditional(<<[Item EXCEPT !.do = "Pop"]>>, <<>>, <<[Item EXCEPT !.do = "Again"]>>, {})

Pop ==
    /\ Doing("Pop")
    /\ conditions' = Popped
    /\ todo' = <<[Item EXCEPT !.do = "Test"]>> \o Rest
    /\ UNCHANGED <<program, block, unknownCounter, memory, analysis, result>>

\* The second pass of a loop with an unknown condition, and the last.
Again ==
    /\ Doing("Again")
    /\ UNCHANGED reached
    /\ ExecuteConditional(<<>>, <<>>, <<>>, KnownVariables)

---------------------------------------------------------------------------
(* The end: every component must have its inputs; the body is simplified.  *)

Finish ==
    /\ status = "executing" /\ todo = <<>>
    /\ IF Unfinished(comp) THEN status' = "refused" /\ UNCHANGED code
       ELSE status' = "executed" /\ code' = Simplified(program.code, reached, computed)
    /\ UNCHANGED <<program, todo, flow, memory, analysis, constraints>>

Terminated == status # "executing" /\ UNCHANGED vars

Next == \/ AssignVariable \/ AssignSignal \/ AssignComponentInput \/ AssignTag
        \/ CreateComponent \/ AddConstraintEquality
        \/ If \/ Else \/ EndUnknown \/ While_ \/ Test \/ Pop \/ Again
        \/ Finish \/ Terminated

Spec == Init /\ [][Next]_vars

---------------------------------------------------------------------------
(* What the body means when it runs on given inputs: the reference for the *)
(* constraints and for the simplified body.  A cell that was not assigned, *)
(* and what is computed from it, has no value; c computes its output when  *)
(* all its inputs were assigned.                                           *)

NoValue == -1
Start(input) == [vars |-> [v \in VariableNames |-> 0], cells |-> input,
                 times |-> [c \in 1..8 |-> 0], failed |-> FALSE, unready |-> FALSE,
                 diverged |-> FALSE]

Cell(st, c) ==
    IF c # 8 THEN IF c \in DOMAIN st.cells THEN st.cells[c] ELSE NoValue
    ELSE IF {5, 6, 7} \subseteq DOMAIN st.cells
         THEN (st.cells[5] + st.cells[6] + st.cells[7]) % Field ELSE NoValue

Meaning(op, v, w) ==
    LET signed(u) == IF u > Field \div 2 THEN u - Field ELSE u
        truth(b) == IF b THEN 1 ELSE 0
    IN CASE v = NoValue \/ w = NoValue -> NoValue
         [] op = "Add" -> (v + w) % Field
         [] op = "Mul" -> (v * w) % Field
         [] op = "Lesser" -> truth(signed(v) < signed(w))
         [] op = "Eq" -> truth(v = w)
         [] op = "NotEq" -> truth(v # w)

RECURSIVE Means(_, _)
Means(e, st) ==
    CASE e.expr = "Number" -> <<e.value>>
      [] e.expr = "Variable" ->
            IF e.name \in VariableNames THEN <<st.vars[e.name]>>
            ELSE IF e.name = "s.t" THEN <<tag.value>>
            ELSE [i \in DOMAIN CellsOf[e.name] |-> Cell(st, CellsOf[e.name][i])]
      [] e.expr = "InfixOp" -> <<Meaning(e.op, Means(e.lhe, st)[1], Means(e.rhe, st)[1])>>
      [] e.expr = "InlineSwitchOp" ->
            LET c == Means(e.cond, st)[1]
            IN IF c = NoValue THEN <<NoValue>>
               ELSE IF c # 0 THEN Means(e.if_true, st) ELSE Means(e.if_false, st)
      [] e.expr = "ArrayInLine" -> [i \in DOMAIN e.values |-> Means(e.values[i], st)[1]]

Used(st, values) == [st EXCEPT !.unready = @ \/ \E i \in DOMAIN values : values[i] = NoValue]

\* A loop that passes more often than its counter has values does not end.
RECURSIVE Does(_, _), DoesAll(_, _), Loops(_, _, _)
Does(s, st) ==
    CASE s.stmt = "Substitution" /\ s.var \in VariableNames ->
            LET v == Means(s.rhe, st) IN [Used(st, v) EXCEPT !.vars[s.var] = v[1]]
      [] s.stmt = "Substitution" /\ s.var \notin VariableNames ->
            LET v == Means(s.rhe, st)
                cells == CellsOf[s.var]
                assigned == {cells[i] : i \in DOMAIN cells}
            IN [Used(st, v) EXCEPT
                   !.cells = [c \in DOMAIN @ \union assigned |->
                                 IF c \in assigned THEN v[CHOOSE i \in DOMAIN cells : cells[i] = c]
                                                   ELSE @[c]],
                   !.times = [c \in DOMAIN @ |-> IF c \in assigned THEN @[c] + 1 ELSE @[c]]]
      [] s.stmt = "ConstraintEquality" ->
            LET l == Means(s.lhe, st)
                r == Means(s.rhe, st)
            IN [Used(st, l \o r) EXCEPT !.failed = @ \/ l # r]
      [] s.stmt = "IfThenElse" ->
            LET c == Means(s.cond, st)
            IN DoesAll(IF c[1] \in {0, NoValue} THEN s.else_case ELSE s.if_case, Used(st, c))
      [] s.stmt = "While" -> Loops(s, Field + 1, st)
      [] OTHER -> st

DoesAll(c, st) == FoldLeft(LAMBDA acc, s : Does(s, acc), st, c)

Loops(s, passes, st) ==
    LET c == Means(s.cond, st)
    IN IF c[1] \in {0, NoValue} THEN Used(st, c)
       ELSE IF passes = 0 THEN [st EXCEPT !.diverged = TRUE]
       ELSE Loops(s, passes - 1, DoesAll(s.body, st))

Inputs == [{1, 2} -> Elements]
Run(c, input) == DoesAll(c, Start(input))
Witness(st) == [c \in 1..8 |-> Cell(st, c)]

---------------------------------------------------------------------------
(* Properties *)

Executed == status = "executed"

\* The simplified body, from which the witness code is generated, computes
\* the signals of the template and fails when it fails, on every input: what
\* was taken for constant or for dead code is so on every path, with loops of
\* any number of passes though the compiler made two (filters.rs,
\* analysis.rs, execute.rs:656-691).  It is not claimed where a
\* value went stale: one that first changes in the third pass of a loop.
CodeAgrees ==
    Executed /\ ~stale =>
        \A input \in Inputs :
            LET source == Run(program.code, input)
                target == Run(code, input)
            IN ~source.unready =>
                   /\ target.failed = source.failed /\ target.diverged = source.diverged
                   /\ Witness(target) = Witness(source)

\* The constraints are what the run checks: the signals it computes satisfy
\* all of them exactly when no "===" failed, so the symbolic values the
\* constraints were built from are those of the run, whatever blocks, loops
\* and components they went through.
WitnessSatisfies ==
    Executed /\ ~stale =>
        \A input \in Inputs :
            LET run == Run(program.code, input)
            IN ~run.unready =>
                   (run.failed <=> \E i \in DOMAIN constraints :
                                       ~Holds(constraints[i], Witness(run)))

\* No path through an accepted template assigns a cell twice, and none creates
\* constraints for it twice: the stacks of conditions tell the arms of one
\* condition from two conditions, across loops and queued component inputs
\* (assignment_utils.rs, perform_signal_assignment).
AssignedOnce ==
    Executed /\ ~strayed =>
        \A input \in Inputs : \A c \in 1..8 : Run(program.code, input).times[c] <= 1

\* No part of an input of c is assigned in an arm of an unknown condition, and
\* no input in one arm alone.  There the code, which counts the assignments in
\* whichever arm they are, goes wrong.
InputsWhole ==
    \A c \in DOMAIN given \ {3, 4} :
        given[c].block = "Unknown" => ~given[c].part /\ comp.inputs[c] = Assigned

\* A component that an accepted template creates is given every cell of its
\* inputs on every path, also through the queue in which assignments wait for
\* the tags of others and through the arms of conditions: a component that
\* lacks an input is refused (update_unassigned_inputs and
\* environment_check_all_components_assigned).
InputsGiven ==
    Executed /\ comp.preinitialized /\ InputsWhole =>
        \A input \in Inputs : {5, 6, 7} \subseteq DOMAIN Run(program.code, input).cells

\* A tag that is read, or that came with the inputs of a component that was
\* executed for it, is the tag every cell was assigned with, in whatever order
\* and however piecewise, unless the template defined its value itself.
TagsTrue ==
    LET told == PropagatedTag(tag)
    IN /\ ~tag.valueDefined /\ told # Absent /\ (told = Null => ~tag.defined) =>
              \A c \in {3, 4} \intersect DOMAIN given : given[c].tag = told
       /\ comp.initialized =>
              \A i \in program.needs : \A c \in InputCells[i] \intersect DOMAIN given :
                  given[c].tag = comp.tags[i]
=============================================================================
