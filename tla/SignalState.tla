---------------------------- MODULE SignalState ----------------------------
(***************************************************************************)
(* What the execution of a template remembers of signals and of the inputs *)
(* of a component: whether they were assigned, under which conditions, and *)
(* with which tag (constraint_generation/src/assignment_utils.rs and       *)
(* environment_utils/component_representation.rs).  One tag stands for the *)
(* set of tags of a signal.                                                *)
(***************************************************************************)
EXTENDS ModularArithmetic     \* for Usize, in which a component counts its inputs
LOCAL INSTANCE SequencesExt
LOCAL INSTANCE FiniteSets
LOCAL INSTANCE FiniteSetsExt

---------------------------------------------------------------------------
(* AssignmentState.  A condition is <<n, arm>>: the n-th condition that    *)
(* was met and its arm.                                                    *)

NoAssigned       == [state |-> "NoAssigned"]
Assigned         == [state |-> "Assigned"]
MightAssigned(c) == [state |-> "MightAssigned", conditions |-> c]
MultipleAssignments == [state |-> "MultipleAssignments"]

Under(conditions) == IF conditions = <<>> THEN Assigned ELSE MightAssigned(conditions)

\* The first level at which two stacks of conditions part, or 0.
PartAt(c, d) ==
    LET levels == {i \in 1..(IF Len(c) < Len(d) THEN Len(c) ELSE Len(d)) : c[i] # d[i]}
    IN IF levels = {} THEN 0 ELSE Min(levels)

\* Wrong: conditions that part anywhere are taken for the arms of one.
anyPart(old, new) ==
    IF old = NoAssigned THEN new
    ELSE IF old = Assigned \/ new = Assigned THEN MultipleAssignments
    ELSE IF PartAt(old.conditions, new.conditions) = 0 THEN MultipleAssignments ELSE new

\* perform_signal_assignment on one cell: a second assignment is accepted in
\* the other arm of a condition of the first; when the two are all the arms
\* of their last condition, that condition is forgotten.
AfterAssignment(old, new) ==
    IF old = NoAssigned THEN new
    ELSE IF old = Assigned \/ new = Assigned THEN MultipleAssignments
    ELSE LET c == old.conditions
             d == new.conditions
             i == PartAt(c, d)
         IN CASE i = 0 \/ (i > 0 /\ c[i][1] # d[i][1]) -> MultipleAssignments
              [] i = Len(c) /\ i = Len(d) -> Under(Front(d))
              [] OTHER -> new

---------------------------------------------------------------------------
(* Tags *)

Absent == -2                \* no tag
Null   == -1                \* the tag, with no value

\* A declared signal of n cells, with the tag in its declaration or without.
DeclaredTag(declared, n) ==
    [value |-> IF declared THEN Null ELSE Absent, defined |-> declared,
     valueDefined |-> FALSE, isInit |-> FALSE, remaining |-> n]

\* An input comes with its tag and all its cells.
InputTag(v) == [value |-> v, defined |-> v # Absent, valueDefined |-> v >= 0,
                isInit |-> TRUE, remaining |-> 0]

\* The tag an expression that reads the signal takes along.
PropagatedTag(t) ==
    CASE t.value = Absent -> Absent
      [] t.value # Absent /\ (t.valueDefined \/ t.remaining = 0) -> t.value
      [] OTHER -> IF t.defined THEN Null ELSE Absent

\* Wrong: the tag of the first assignment stays.
firstTagStays(t, new, n) ==
    [t EXCEPT !.value = IF t.isInit THEN @ ELSE new, !.isInit = TRUE,
              !.remaining = IF @ >= n THEN @ - n ELSE 0]

\* The tag after n cells are assigned from an expression with tag new.
AfterTag(t, new, n) ==
    [t EXCEPT
        !.value = CASE t.valueDefined -> t.value
                    [] ~t.valueDefined /\ t.isInit /\ t.value # Absent ->
                         IF new = t.value THEN t.value
                         ELSE IF t.defined THEN Null ELSE Absent
                    [] ~t.valueDefined /\ ~t.isInit ->
                         IF new = Absent /\ t.defined THEN Null ELSE new
                    [] OTHER -> Absent,
        !.isInit = TRUE,
        !.remaining = IF @ >= n THEN @ - n ELSE 0]

---------------------------------------------------------------------------
(* ComponentRepresentation.  inputs is the state of each input cell, left  *)
(* counts the unassigned cells of each input that has some, tags holds the *)
(* tag of each input, pending are the tagged inputs without a value yet,   *)
(* and queue the assignments made before the component could be executed.  *)

NoComponent ==
    [preinitialized |-> FALSE, initialized |-> FALSE, pending |-> {}, tags |-> <<>>,
     queue |-> <<>>, inputs |-> <<>>, left |-> <<>>, failed |-> FALSE]

Preinitialize(inputNames, tagged) ==
    [NoComponent EXCEPT !.preinitialized = TRUE, !.pending = tagged,
                        !.tags = [i \in inputNames |-> IF i \in tagged THEN Null ELSE Absent]]

IsReady(comp) == comp.preinitialized /\ comp.pending = {}

\* An assignment of the cells of an input, a record of the input's name, the
\* cells and the AssignmentState.
Assignment(name, cells, state) == [name |-> name, cells |-> cells, state |-> state]

\* Wrong: an input is complete with its first assignment.
countedWhole(left, name, n) == [i \in DOMAIN left \ {name} |-> left[i]]

CountDown(left, name, n) ==
    IF name \notin DOMAIN left THEN left
    ELSE IF left[name] = n THEN [i \in DOMAIN left \ {name} |-> left[i]]
    ELSE [left EXCEPT ![name] = (@ - n) % Usize]

AssignInit(comp, a) ==
    LET states == [c \in DOMAIN comp.inputs |->
                      IF c \in a.cells THEN AfterAssignment(comp.inputs[c], a.state)
                                       ELSE comp.inputs[c]]
    IN [comp EXCEPT !.inputs = states,
                    !.left = CountDown(@, a.name, Cardinality(a.cells)),
                    !.failed = @ \/ \E c \in a.cells : states[c] = MultipleAssignments]

\* initialize_component, once the template was executed with the tags of the
\* inputs: the waiting assignments are made, in their order.
InitializeComponent(comp, cellsOf) ==
    FoldLeft(AssignInit,
             [comp EXCEPT !.initialized = TRUE, !.queue = <<>>,
                          !.inputs = [c \in UNION {cellsOf[i] : i \in DOMAIN cellsOf} |-> NoAssigned],
                          !.left = [i \in DOMAIN cellsOf |-> Cardinality(cellsOf[i])]],
             comp.queue)

\* Whether an input accepts an expression's tag: an input that asks for the
\* tag takes the value of its first assignment and refuses any other.
AcceptsTag(comp, name, tag) ==
    \/ comp.tags[name] = Absent
    \/ tag # Absent /\ (name \in comp.pending \/ tag = comp.tags[name])

TakeTag(comp, name, tag) ==
    [comp EXCEPT !.pending = @ \ {name},
                 !.tags[name] = IF name \in comp.pending THEN tag ELSE @]

\* assign_value_to_signal: made at once, or kept until every tag is known.
AssignInput(comp, a, tag, cellsOf) ==
    IF comp.initialized THEN AssignInit(comp, a)
    ELSE LET queued == [TakeTag(comp, a.name, tag) EXCEPT !.queue = Append(@, a)]
         IN IF IsReady(queued) THEN InitializeComponent(queued, cellsOf) ELSE queued

\* check_initialized_inputs, for an output.
OutputReadable(comp) == comp.initialized /\ DOMAIN comp.left = {}

\* environment_check_all_components_assigned.
Unfinished(comp) == comp.preinitialized /\ (comp.pending # {} \/ DOMAIN comp.left # {})
=============================================================================
