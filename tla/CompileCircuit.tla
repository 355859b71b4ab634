--------------------------- MODULE CompileCircuit ---------------------------
(***************************************************************************)
(* From executed templates to the .r1cs and .sym files: the compiler       *)
(* inserts the templates into the DAG, cleans them, splits the constraints *)
(* into kinds and simplifies them pass by pass (export of                  *)
(* executed_program.rs, map_to_constraint_list.rs, simplification of       *)
(* constraint_simplification.rs, the r1cs and sym porting).  The clusters  *)
(* of a pass run on a thread pool, and their results are taken from a      *)
(* channel in whatever order the workers sent them.                        *)
(***************************************************************************)
EXTENDS CircuitDag, Simplifier
LOCAL INSTANCE Integers
LOCAL INSTANCE Sequences
LOCAL INSTANCE FiniteSets
LOCAL INSTANCE SequencesExt
LOCAL INSTANCE TLC

CONSTANTS
    Programs,       \* sequences of templates, main last
    Options,        \* [level, rounds, oldHeuristics, up]: flags and iteration order
    MostRounds      \* stands for usize::MAX

VARIABLES
    program, option,    \* what is compiled, and how
    phase,              \* the next pass
    dag,
    lists,              \* constraints by kind: equalities, constants, linear, fixed
    frames,             \* the encoded substitutions of the passes, in order
    deleted,            \* eliminated signals
    pool,               \* clusters at work: id -> cluster
    received,           \* [subs, cons]: taken from the channel so far
    rounds,             \* how many more
    store,              \* [storage, index]
    output              \* the files

vars == <<program, option, phase, dag, lists, frames, deleted, pool, received, rounds, store, output>>

NoLists == [equalities |-> <<>>, constants |-> <<>>, linear |-> <<>>, fixed |-> <<>>]
NothingReceived == [subs |-> <<>>, cons |-> NoKeys]
NoOutput == [outcome |-> "none"]

Init ==
    /\ program \in Programs /\ option \in Options
    /\ phase = "insert" /\ dag = EmptyDag
    /\ lists = NoLists /\ frames = <<>> /\ deleted = {}
    /\ pool = NoKeys /\ received = NothingReceived
    /\ rounds = option.rounds
    /\ store = [storage |-> <<>>, index |-> NoKeys]
    /\ output = NoOutput

forbidden == Forbidden(dag)
maxSignal == Len(ProduceWitness(dag))
applyLinear == option.level = "O2"
up == option.up
customGates == \E i \in DOMAIN program : program[i].custom    \* its pragma is then required

---------------------------------------------------------------------------
(* The DAG *)

InsertInDag(d, t) ==
    LET node == AddNode(d, t.name, t.parameters, t.custom)
        wires == AddSignals(AddSignals(AddSignals(AddSignals(node,
                   t.outputs, "output"), t.publics, "public"), t.privates, "private"),
                   t.intermediates, "intermediate")
        edges == FoldLeft(LAMBDA g, e : AddEdge(g, e.goesTo, e.label),
                          AddOrderedSignals(wires, t.ordered), t.connexions)
    IN FoldLeft(LAMBDA g, con : AddConstraint(g, con), edges, t.constraints)

InsertTemplate ==
    /\ phase = "insert" /\ MainId(dag) < Len(program)
    /\ dag' = InsertInDag(dag, program[MainId(dag) + 1])
    /\ UNCHANGED <<program, option, phase, lists, frames, deleted, pool, received, rounds, store, output>>

Export ==
    /\ phase = "insert" /\ MainId(dag) = Len(program)
    /\ dag' = CleanConstraints(dag)
    /\ phase' = IF option.level = "O0" THEN "port" ELSE "map"
    /\ UNCHANGED <<program, option, lists, frames, deleted, pool, received, rounds, store, output>>

MapToList ==
    LET all == AllConstraints(dag)
        plain(con) == IsLinear(con) /\ ~ IsConstantEquality(con)
    IN /\ phase = "map" /\ phase' = "equalities"
       /\ lists' = [NoLists EXCEPT
             !.constants  = SelectSeq(all, IsConstantEquality),
             !.equalities = SelectSeq(all, LAMBDA con : plain(con) /\ IsEquality(con)),
             !.linear     = SelectSeq(all, LAMBDA con : plain(con) /\ ~ IsEquality(con))]
       /\ UNCHANGED <<program, option, dag, frames, deleted, pool, received, rounds, store, output>>

NonLinear == SelectSeq(AllConstraints(dag), LAMBDA con : ~ IsLinear(con))

---------------------------------------------------------------------------
(* The thread pool *)

Simplified(cluster) ==
    IF phase = "joinEqualities" THEN EqCluster(cluster, forbidden, up)
    ELSE FullSimplification(cluster, forbidden, option.oldHeuristics, up)

\* Clusters of one equality need no worker: theirs is the first result.
StartEqualities ==
    LET clusters == BuildClusters(lists.equalities, up)
        single == {i \in DOMAIN clusters : Len(clusters[i].constraints) = 1}
        result == [i \in single |-> EqCluster(clusters[i], forbidden, up)]
        order == SetToSortSeq(single, <)
    IN /\ phase = "equalities" /\ phase' = "joinEqualities"
       /\ pool' = [i \in DOMAIN clusters \ single |-> clusters[i]]
       /\ received' = [subs |-> FlattenSeq([j \in DOMAIN order |-> result[order[j]].subs]),
                       cons |-> [i \in single |-> result[i].cons]]
       /\ UNCHANGED <<program, option, dag, lists, frames, deleted, rounds, store, output>>

StartPass(now, next) ==
    LET clusters == BuildClusters(lists.linear, up)
    IN /\ phase = now /\ phase' = next
       /\ pool' = [i \in DOMAIN clusters |-> clusters[i]]
       /\ received' = NothingReceived

StartLinear ==
    /\ applyLinear /\ StartPass("linear", "joinLinear")
    /\ UNCHANGED <<program, option, dag, lists, frames, deleted, rounds, store, output>>

StartRound ==
    /\ StartPass("round", "joinRound")
    /\ UNCHANGED <<program, option, dag, lists, frames, deleted, rounds, store, output>>

\* Equalities file the constraints of a result under its cluster, the linear
\* passes in the order they come; the substitutions always come in order.
Receive(id) ==
    LET result == Simplified(pool[id])
        slot == IF phase = "joinEqualities" THEN id ELSE Cardinality(DOMAIN received.cons) + 1
    IN /\ pool' = [i \in DOMAIN pool \ {id} |-> pool[i]]
       /\ received' = [subs |-> received.subs \o result.subs,
                       cons |-> (slot :> result.cons) @@ received.cons]
       /\ UNCHANGED <<program, option, phase, dag, lists, frames, deleted, rounds, store, output>>

ReceivedCons ==
    LET order == SetToSortSeq(DOMAIN received.cons, <)
    IN FlattenSeq([j \in DOMAIN order |-> received.cons[order[j]]])

---------------------------------------------------------------------------
(* The passes *)

FinishEqualities ==
    LET encoded == Encode(received.subs)
        relevant == Relevant(NonLinear, NoKeys, NoKeys)
    IN /\ phase = "joinEqualities" /\ DOMAIN pool = {} /\ phase' = "constants"
       /\ lists' = [lists EXCEPT !.equalities = <<>>,
                                 !.fixed = @ \o ReceivedCons,
                                 !.linear = ApplyToAll(@, encoded, up),
                                 !.constants = ApplyToAll(@, encoded, up)]
       /\ deleted' = deleted \union DOMAIN encoded
       /\ frames' = <<OnlyRelevant(encoded, relevant)>>
       /\ UNCHANGED <<program, option, dag, pool, received, rounds, store, output>>

SimplifyConstants ==
    LET result == ConstantEq(lists.constants, forbidden)
        encoded == Encode(result.subs)
    IN /\ phase = "constants" /\ phase' = "linear"
       /\ lists' = [lists EXCEPT !.fixed = @ \o result.cons,
                                 !.linear = ApplyToAll(@, encoded, up)]
       /\ deleted' = deleted \union DOMAIN encoded
       /\ frames' = Append(frames, encoded)
       /\ UNCHANGED <<program, option, dag, pool, received, rounds, store, output>>

FinishLinear ==
    LET relevant == Relevant(NonLinear, frames[1], frames[2])
        encoded == OnlyRelevant(Encode(received.subs), relevant)
    IN /\ phase = "joinLinear" /\ DOMAIN pool = {} /\ phase' = "store"
       /\ lists' = [lists EXCEPT !.linear = <<>>,
                                 !.fixed = ApplyToAll(@ \o ReceivedCons, encoded, up)]
       /\ deleted' = deleted \union Froms(received.subs)
       /\ frames' = Append(frames, encoded)
       /\ UNCHANGED <<program, option, dag, pool, received, rounds, store, output>>

KeepLinear ==
    /\ phase = "linear" /\ ~ applyLinear /\ phase' = "store"
    /\ lists' = [lists EXCEPT !.linear = <<>>, !.fixed = @ \o lists.linear]
    /\ frames' = Append(frames, NoKeys)
    /\ UNCHANGED <<program, option, dag, deleted, pool, received, rounds, store, output>>

\* usize: zero rounds wrap around.
OneLess(n) == IF n = 0 THEN MostRounds ELSE n - 1

Again(left, linear) == applyLinear /\ left > 0 /\ linear # <<>>

BuildStore ==
    LET applied == [i \in DOMAIN NonLinear |-> ApplyFrames(NonLinear[i], frames, up)]
        storage == SelectSeq(applied, LAMBDA con : ~ IsLinear(con))
        linear == SelectSeq(applied, IsLinear)
    IN /\ phase = "store"
       /\ store' = [storage |-> storage, index |-> SignalIndex(storage)]
       /\ lists' = [lists EXCEPT !.linear = linear]
       /\ rounds' = OneLess(rounds)
       /\ phase' = IF Again(rounds', linear) THEN "round" ELSE "collect"
       /\ UNCHANGED <<program, option, dag, frames, deleted, pool, received, output>>

FinishRound ==
    LET subs == received.subs
        applied == ApplyToStorage(store.storage, store.index, subs)
        fix(con) == FixConstraint(FoldLeft(Substitute, con, subs))
        fixed == lists.fixed \o ReceivedCons
    IN /\ phase = "joinRound" /\ DOMAIN pool = {}
       /\ deleted' = deleted \union Froms(subs)
       /\ lists' = [lists EXCEPT !.fixed = [i \in DOMAIN fixed |-> fix(fixed[i])],
                                 !.linear = applied.linear]
       /\ store' = [storage |-> applied.storage, index |-> applied.index]
       /\ rounds' = rounds - 1
       /\ phase' = IF Again(rounds', applied.linear) THEN "round" ELSE "collect"
       /\ UNCHANGED <<program, option, dag, frames, pool, received, output>>

\* What linear constraints remain join the storage and are indexed; empty
\* constraints go.
Collect ==
    LET fixed == [i \in DOMAIN lists.fixed |-> FixConstraint(lists.fixed[i])]
        all == store.storage \o lists.linear \o fixed
    IN /\ phase = "collect" /\ phase' = "port"
       /\ store' = [storage |-> SelectSeq(all, LAMBDA con : ~ IsEmpty(con)),
                    index |-> store.index @@ SignalIndex(lists.linear \o fixed)]
       /\ UNCHANGED <<program, option, dag, lists, frames, deleted, pool, received, rounds, output>>

---------------------------------------------------------------------------
(* The files *)

AsVector(map) ==
    [i \in 1..Cardinality(DOMAIN map) |->
        IF \E s \in DOMAIN map : map[s] = i - 1 THEN CHOOSE s \in DOMAIN map : map[s] = i - 1 ELSE 0]

Format == INSTANCE R1CSFile

\* A signal without a place in the witness ends the compiler: its unwrap.
Files(constraints, map, privatesInWitness) ==
    LET gates == GatesApplied(dag)
        named == UNION {SignalsOf(constraints[i]) : i \in DOMAIN constraints}
                   \union UNION {Range(gates[i].signals) : i \in DOMAIN gates}
        place == [s \in 0..(maxSignal - 1) |-> IF s \in DOMAIN map THEN map[s] ELSE -1]
        main == Main(dag)
        data == [field |-> Field, wires |-> Cardinality(DOMAIN map), labels |-> maxSignal,
                 outputs |-> main.outputs, publics |-> main.publicInputs,
                 privates |-> main.inputs - main.publicInputs, count |-> Len(constraints),
                 constraints |-> [i \in DOMAIN constraints |-> Rename(constraints[i], map)],
                 signals |-> AsVector(map), customGates |-> customGates, used |-> GatesUsed(dag),
                 applied |-> [i \in DOMAIN gates |->
                     [gates[i] EXCEPT !.signals = [j \in DOMAIN @ |-> map[@[j]]]]]]
    IN IF ~ named \subseteq DOMAIN map THEN [outcome |-> "panic"]
       ELSE [outcome |-> "written", map |-> map, privatesInWitness |-> privatesInWitness,
             data |-> data, r1cs |-> Format!FileOf(data), sym |-> SymLines(dag, place)]

\* Without simplification every signal keeps its number.
PortDag ==
    LET map == [s \in 0..(maxSignal - 1) |-> s]
    IN /\ phase = "port" /\ option.level = "O0" /\ phase' = "done"
       /\ output' = Files(AllConstraints(dag), map, Main(dag).inputs - Main(dag).publicInputs)
       /\ UNCHANGED <<program, option, dag, lists, frames, deleted, pool, received, rounds, store>>

PortList ==
    LET map == RebuildWitness(maxSignal, deleted, forbidden, DOMAIN store.index).map
        inputs == (Main(dag).outputs + 1)..(Main(dag).outputs + Main(dag).inputs)
        gone == (0..(maxSignal - 1)) \ DOMAIN map
    IN /\ phase = "port" /\ option.level # "O0" /\ phase' = "done"
       /\ deleted' = deleted \union gone
       /\ output' = Files(store.storage, map,
                          Main(dag).inputs - Main(dag).publicInputs - Cardinality(gone \intersect inputs))
       /\ UNCHANGED <<program, option, dag, lists, frames, pool, received, rounds, store>>

Done == phase = "done" /\ UNCHANGED vars

Next ==
    \/ InsertTemplate \/ Export \/ MapToList
    \/ StartEqualities \/ StartLinear \/ StartRound
    \/ \E id \in DOMAIN pool : Receive(id)
    \/ FinishEqualities \/ SimplifyConstants \/ FinishLinear \/ KeepLinear
    \/ BuildStore \/ FinishRound \/ Collect \/ PortDag \/ PortList \/ Done

Spec == Init /\ [][Next]_vars

---------------------------------------------------------------------------
(* What the files must keep of the program *)

Written == phase = "done" /\ output.outcome = "written"

Assignments(S) == [S -> Elements]
AllHold(constraints, w) == \A i \in DOMAIN constraints : Holds(constraints[i], w)
OnTo(w, S) == [s \in S |-> w[s]]

Solutions == {w \in Assignments(1..(maxSignal - 1)) : AllHold(AllConstraints(dag), w)}

\* The simplified system over the original numbers.
Remaining(S) == {w \in Assignments(S) : AllHold(store.storage, w)}

Kept == DOMAIN output.map \ {One}

\* Two constants for one private signal: only the last one is applied.
ConstantsAgree ==
    LET free == {i \in DOMAIN lists.constants : SignalsOf(lists.constants[i]) \intersect forbidden = {}}
        solved(i) == ClearSignal(lists.constants[i], Max(SignalsOf(lists.constants[i])))
    IN \A i, j \in free : solved(i).from = solved(j).from => solved(i).to = solved(j).to

(* Properties *)

\* Simplification may drop signals but not solutions: the assignments of the
\* signals that stay are those of the source constraints, whatever the order
\* the workers answer in, the order a HashMap is read in, the heuristic and
\* the number of rounds (simplification, full_simplification).
SolutionsPreserved ==
    Written /\ option.level # "O0" /\ ConstantsAgree =>
        {OnTo(w, Kept) : w \in Solutions} = Remaining(Kept)

\* Outputs, then public inputs, keep the first places of the witness, and the
\* rest closes up behind them in the order it had: rebuild_witness moves
\* signals into freed places without crossing two of them, and the place map
\* and the witness vector are each other's inverse.
LayoutStable ==
    Written =>
        LET fixed == 0..(output.data.outputs + output.data.publics)
        IN /\ fixed \subseteq DOMAIN output.map /\ \A s \in fixed : output.map[s] = s
           /\ \A s, t \in DOMAIN output.map : s < t => output.map[s] < output.map[t]
           /\ \A i \in DOMAIN output.data.signals : output.map[output.data.signals[i]] = i - 1

\* The compiler never dies porting: each signal of a remaining constraint or
\* of a custom gate has a place (the unwraps of port_r1cs and
\* apply_correspondence), and the count of private inputs in the header's log
\* is the number of private inputs that do.
EverySignalPlaced ==
    /\ output.outcome # "panic"
    /\ Written =>
        output.privatesInWitness =
            Cardinality(DOMAIN output.map \intersect
                (output.data.outputs + output.data.publics + 1)..(output.data.outputs + output.data.publics + output.data.privates))

\* Two walks of the DAG agree: the witness producer visits the numbers in
\* order without a gap, and the .sym file lists each once, under one name, at
\* the place the witness has it (produce_witness, port_sym). And a reader that
\* finds its way through the .r1cs by the sizes of its sections gets the
\* constraints, the wires and the gates that were meant (read_r1cs).
NumberingAgrees ==
    Written =>
        LET data == output.data
            sym == output.sym
        IN /\ ProduceWitness(dag) = [i \in 1..data.labels |-> i - 1]
           /\ [i \in DOMAIN sym |-> sym[i].original] = [i \in 1..(data.labels - 1) |-> i]
           /\ \A i, j \in DOMAIN sym : i # j => sym[i].symbol # sym[j].symbol
           /\ \A i \in DOMAIN sym :
                 sym[i].witness # -1 => data.signals[sym[i].witness + 1] = sym[i].original
           /\ Format!ReadsBack(data, output.r1cs)
=============================================================================
