----------------------------- MODULE Simplifier -----------------------------
(***************************************************************************)
(* The algorithms of constraint simplification: clusters of constraints    *)
(* that share signals, the elimination of signals inside one cluster, and  *)
(* the renumbering of what is left (constraint_list/src and                *)
(* circom_algebra/src/simplification_utils.rs).  A list is a sequence; a   *)
(* map of substitutions is a function on the eliminated signals.           *)
(* Where the code iterates over a HashMap or a HashSet, up says which of   *)
(* two orders the iteration takes.                                         *)
(***************************************************************************)
EXTENDS Algebra
LOCAL INSTANCE Integers
LOCAL INSTANCE Sequences
LOCAL INSTANCE FiniteSets
LOCAL INSTANCE FiniteSetsExt
LOCAL INSTANCE SequencesExt
LOCAL INSTANCE TLC

CONSTANT FewConstraints      \* clusters this large use the second heuristic (350)

InOrder(S, up) == IF up THEN SetToSortSeq(S, <) ELSE SetToSortSeq(S, >)

---------------------------------------------------------------------------
(* Clusters *)

Touches(cluster, s) == \E i \in DOMAIN cluster.constraints : s \in SignalsOf(cluster.constraints[i])

\* One signal of a new constraint seen before: its cluster is appended to the
\* new one, unless an earlier signal brought it in already.
MergeAt(state, s) ==
    IF \E c \in state.others : Touches(c, s)
    THEN LET found == CHOOSE c \in state.others : Touches(c, s)
         IN [others |-> state.others \ {found},
             new |-> [at |-> state.new.at,
                      constraints |-> state.new.constraints \o found.constraints,
                      signals |-> state.new.signals + found.signals - 1]]
    ELSE [state EXCEPT !.new.signals = @ - 1]

AddToClusters(clusters, con, at, up) ==
    LET seen == {s \in SignalsOf(con) : \E c \in clusters : Touches(c, s)}
        alone == [at |-> at, constraints |-> <<con>>, signals |-> Cardinality(SignalsOf(con))]
        merged == FoldLeft(MergeAt, [others |-> clusters, new |-> alone], InOrder(seen, up))
    IN merged.others \union {merged.new}

\* Empty constraints belong nowhere; a cluster stands where its last
\* constraint came.
BuildClusters(constraints, up) ==
    LET built[i \in 0..Len(constraints)] ==
            IF i = 0 THEN {}
            ELSE IF IsEmpty(constraints[i]) THEN built[i - 1]
            ELSE AddToClusters(built[i - 1], constraints[i], i, up)
    IN SetToSortSeq(built[Len(constraints)], LAMBDA c, d : c.at < d.at)

---------------------------------------------------------------------------
(* Equalities and constants *)

SubstituteSignal(from, by) == NewSubstitution(from, Signal(by))

\* A cluster of equalities keeps one signal: the least forbidden one, or the
\* least of all.  Other forbidden signals stay equal to it by a constraint.
EqCluster(cluster, forbidden, up) ==
    LET all == UNION {SignalsOf(cluster.constraints[i]) : i \in DOMAIN cluster.constraints}
        stay == all \intersect forbidden
        kept == IF stay # {} THEN Min(stay) ELSE Min(all)
        ties == SetToSortSeq(stay \ {kept}, <)
        goes == InOrder((all \ stay) \ {kept}, up)
    IN [subs |-> [i \in DOMAIN goes |-> SubstituteSignal(goes[i], kept)],
        cons |-> IF Len(cluster.constraints) = 1 /\ all \subseteq forbidden
                 THEN cluster.constraints
                 ELSE [i \in DOMAIN ties |-> ToConstraint(Sub(Signal(ties[i]), Signal(kept)))]]

ConstantEq(constraints, forbidden) ==
    LET signal(con) == Max(SignalsOf(con))
        free == SelectSeq(constraints, LAMBDA con : signal(con) \notin forbidden)
    IN [subs |-> [i \in DOMAIN free |-> ClearSignal(free[i], signal(free[i]))],
        cons |-> SelectSeq(constraints, LAMBDA con : signal(con) \in forbidden)]

---------------------------------------------------------------------------
(* Linear clusters: lazy Gaussian elimination *)

Free(con, forbidden) == DOMAIN con.c \ forbidden

NoSubstitutions == [subs |-> NoKeys, order |-> <<>>, cons |-> <<>>, count |-> NoKeys]

Uncount(count, con, forbidden) ==
    [k \in DOMAIN count |-> count[k] - (IF k \in Free(con, forbidden) THEN 1 ELSE 0)]

\* The signal a constraint is solved for: the greatest one; or, with the
\* counts of the second heuristic, one eliminated before, else the greatest
\* of the least frequent.
TakeSignal(st, con, forbidden, counting, up) ==
    LET free == Free(con, forbidden)
        gone == free \intersect DOMAIN st.subs
        rare == {k \in free : \A j \in free : st.count[k] <= st.count[j]}
    IN CASE ~ counting -> Max(free)
         [] gone # {}  -> InOrder(gone, up)[1]
         [] OTHER      -> Max(rare)

RECURSIVE Treat(_, _, _, _, _)
Treat(st, work, forbidden, counting, up) ==
    IF IsEmpty(work) THEN st
    ELSE IF Free(work, forbidden) = {} THEN [st EXCEPT !.cons = Append(@, work)]
    ELSE LET out == TakeSignal(st, work, forbidden, counting, up)
             new == ClearSignalNotNormalized(work, out)
         IN IF out \in DOMAIN st.subs
            THEN Treat(st, MergeConflict(st.subs[out], new), forbidden, counting, up)
            ELSE [st EXCEPT !.subs = (out :> new) @@ @, !.order = <<out>> \o @]

\* The second heuristic first solves the constraints with a signal found
\* nowhere else.
Uniques(constraints, forbidden) ==
    {k \in UNION {Free(constraints[i], forbidden) : i \in DOMAIN constraints} :
        Cardinality({i \in DOMAIN constraints : k \in Free(constraints[i], forbidden)}) = 1}

TreatUnique(st, constraints, forbidden, signal) ==
    LET at == CHOOSE i \in DOMAIN constraints : signal \in Free(constraints[i], forbidden)
    IN IF at \in st.used THEN st
       ELSE [st EXCEPT !.used = @ \union {at},
                       !.elim.count = Uncount(@, constraints[at], forbidden),
                       !.elim.subs = (signal :> ClearSignalNotNormalized(constraints[at], signal)) @@ @,
                       !.elim.order = <<signal>> \o @]

EliminateRare(constraints, forbidden, up) ==
    LET free == UNION {Free(constraints[i], forbidden) : i \in DOMAIN constraints}
        occurs(k) == Cardinality({i \in DOMAIN constraints : k \in Free(constraints[i], forbidden)})
        start == [NoSubstitutions EXCEPT !.count = [k \in free |-> occurs(k)]]
        alone == FoldLeft(LAMBDA st, k : TreatUnique(st, constraints, forbidden, k),
                          [elim |-> start, used |-> {}],
                          SetToSortSeq(Uniques(constraints, forbidden), <))
        left == SetToSortSeq(DOMAIN constraints \ alone.used, >)
        treat(st, i) == Treat([st EXCEPT !.count = Uncount(@, constraints[i], forbidden)],
                              constraints[i], forbidden, TRUE, up)
    IN FoldLeft(treat, alone.elim, left)

EliminateGreatest(constraints, forbidden) ==
    FoldLeft(LAMBDA st, con : Treat(st, con, forbidden, FALSE, TRUE),
             NoSubstitutions, Reverse(constraints))

\* Wrong: the coefficients are not divided out.
uninverted(subs) ==
    [s \in DOMAIN subs |-> NewSubstitution(s, IntoArith(subs[s].sub.to))]

\* All coefficients are inverted together, in the order of the signals.
NormalizeSubstitutions(subs) ==
    LET order == SetToSortSeq(DOMAIN subs, <)
        inverses == MultiInv([i \in DOMAIN order |-> subs[order[i]].coefficient])
        at(s) == CHOOSE i \in DOMAIN order : order[i] = s
    IN [s \in DOMAIN subs |->
           NewSubstitution(s, Mul(IntoArith(subs[s].sub.to), Number(inverses[at(s)])))]

\* Each substitution takes the ones before it, so that no eliminated signal
\* is left on a right side.
NonOverlapping(subs, order, up) ==
    LET close(done, s) ==
            LET first == InOrder(DOMAIN subs[s].to \intersect DOMAIN done, up)
            IN (s :> FoldLeft(LAMBDA sub, k : SubstituteInSub(sub, done[k]), subs[s], first)) @@ done
    IN FoldLeft(close, NoKeys, order)

FullSimplification(cluster, forbidden, oldHeuristics, up) ==
    LET counting == Len(cluster.constraints) >= FewConstraints /\ ~ oldHeuristics
        elim == IF counting THEN EliminateRare(cluster.constraints, forbidden, up)
                            ELSE EliminateGreatest(cluster.constraints, forbidden)
        order == IF counting THEN elim.order ELSE SetToSortSeq(DOMAIN elim.subs, <)
        closed == NonOverlapping(NormalizeSubstitutions(elim.subs), order, up)
        listed == InOrder(DOMAIN closed, up)
    IN [subs |-> [i \in DOMAIN listed |-> closed[listed[i]]], cons |-> elim.cons]

---------------------------------------------------------------------------
(* Applying substitutions *)

\* The encoding of a list of substitutions: the last one of a signal counts.
Encode(subs) ==
    [s \in {subs[i].from : i \in DOMAIN subs} |->
        IntoArith(subs[Max({i \in DOMAIN subs : subs[i].from = s})].to)]

ApplyEncoded(con, encoded, up) ==
    FoldLeft(LAMBDA c, s : Substitute(c, NewSubstitution(s, encoded[s])), con,
             InOrder(SignalsOf(con) \intersect DOMAIN encoded, up))

\* Only a constraint some substitution changed is put in order again.
ApplyAndFix(con, encoded, up) ==
    IF SignalsOf(con) \intersect DOMAIN encoded = {} THEN con
    ELSE FixConstraint(ApplyEncoded(con, encoded, up))

ApplyToAll(constraints, encoded, up) ==
    [i \in DOMAIN constraints |-> ApplyAndFix(constraints[i], encoded, up)]

Froms(subs) == {subs[i].from : i \in DOMAIN subs}

\* The signals the non-linear constraints reach through the renames.
Relevant(constraints, renames, constants) ==
    LET renamed(s) == IF s \in DOMAIN renames /\ renames[s].kind = "Signal"
                      THEN renames[s].symbol ELSE s
    IN UNION {{renamed(s) : s \in SignalsOf(constraints[i])} : i \in DOMAIN constraints}
         \ DOMAIN constants

OnlyRelevant(encoded, relevant) == [s \in DOMAIN encoded \intersect relevant |-> encoded[s]]

ApplyFrames(con, frames, up) ==
    FixConstraint(FoldLeft(LAMBDA c, encoded : ApplyEncoded(c, encoded, up), con, frames))

---------------------------------------------------------------------------
(* The storage of a round, and the index from signals to constraints *)

SignalIndex(storage) ==
    [s \in UNION {SignalsOf(storage[i]) : i \in DOMAIN storage} |->
        {i \in DOMAIN storage : s \in SignalsOf(storage[i])}]

\* One substitution goes through the constraints the index lists for its
\* signal; those that became linear are remembered, its signals are indexed.
SubstituteStored(st, sub) ==
    IF sub.from \notin DOMAIN st.index THEN st
    ELSE LET ids == st.index[sub.from]
             new == [i \in ids |-> FixConstraint(Substitute(st.storage[i], sub))]
             touched == DOMAIN sub.to
         IN [storage |-> [i \in DOMAIN st.storage |-> IF i \in ids THEN new[i] ELSE st.storage[i]],
             index |-> [s \in DOMAIN st.index \union touched |->
                           (IF s \in DOMAIN st.index THEN st.index[s] ELSE {})
                             \union (IF s \in touched THEN ids ELSE {})],
             linear |-> st.linear \o SelectSeq(SetToSortSeq(ids, <), LAMBDA i : IsLinear(new[i]))]

\* The linear ones leave the storage, each once: what is read again is empty.
ApplyToStorage(storage, index, subs) ==
    LET st == FoldLeft(SubstituteStored, [storage |-> storage, index |-> index, linear |-> <<>>], subs)
        first(i) == \A j \in 1..(i - 1) : st.linear[j] # st.linear[i]
    IN [linear |-> [i \in DOMAIN st.linear |->
                       IF first(i) THEN st.storage[st.linear[i]] ELSE EmptyConstraint],
        storage |-> [i \in DOMAIN st.storage |->
                       IF i \in Range(st.linear) THEN EmptyConstraint ELSE st.storage[i]],
        index |-> st.index]

\* Wrong: the place left is not freed.
lostPlace(st, s) == [map |-> (s :> Head(st.free)) @@ st.map, free |-> Tail(st.free)]

\* The next free place goes to the signal, and the signal's own is freed.
TakePlace(st, s) ==
    [map |-> (s :> Head(st.free)) @@ st.map, free |-> Append(Tail(st.free), s)]

\* Signals move down into the freed places, in order.
RebuildWitness(maxSignal, deleted, forbidden, used) ==
    LET stays == {s \in 0..(maxSignal - 1) : s \notin deleted /\ (s \in forbidden \/ s \in used)}
        step(st, s) ==
            CASE s \notin stays -> [st EXCEPT !.free = Append(@, s)]
              [] st.free # <<>> -> TakePlace(st, s)
              [] OTHER          -> [st EXCEPT !.map = (s :> s) @@ @]
    IN FoldLeft(step, [map |-> NoKeys, free |-> <<>>], [i \in 1..maxSignal |-> i - 1])
=============================================================================
