----------------------------- MODULE WitnessCode -----------------------------
(***************************************************************************)
(* The C++ code that the compiler writes for the body of one component     *)
(* instance: build_inputs_info.rs marks each store to an input of a        *)
(* subcomponent as the last one, not the last one, or unknown; the store,  *)
(* load and template writers turn the body into operations on the shared   *)
(* state of the witness calculator.                                        *)
(*                                                                         *)
(* A body is a sequence of statements:                                     *)
(*   [kind |-> "output", signal]            store to an output of its own  *)
(*   [kind |-> "input", to, array, status]  store to an input of a sub-    *)
(*        component, one entry of `to` per iteration of the loop around    *)
(*   [kind |-> "read", sub, signals]        use outputs of a subcomponent  *)
(*   [kind |-> "branch", holds, then, else] holds: value per iteration     *)
(*   [kind |-> "loop", body]                runs twice                     *)
(* C++ operations are records whose field op names what is done.           *)
(***************************************************************************)
EXTENDS WitnessThreads
LOCAL INSTANCE SequencesExt

\* The entry of iteration k (a plain statement has one entry for all).
At(seq, k) == seq[IF k <= Len(seq) THEN k ELSE Len(seq)]

(***************************************************************************)
(* Inputs information.  A scan goes through the instructions from the last *)
(* to the first with the components whose last store is known, and those   *)
(* for which it is not.  (The flag found_unknown_address is false at every *)
(* call: nothing ever sets it.)                                            *)
(***************************************************************************)
Scan(code, known, unknown) == [code |-> code, known |-> known, unknown |-> unknown]

\* Wrong: a store in a loop is taken for the last one.
lastInLoop(stmt, scan, insideLoop) ==
    LET c == stmt.to[1]
        mark(status) == <<[stmt EXCEPT !.status = status]>> \o scan.code
    IN IF c \in scan.known THEN Scan(mark("NoLast"), scan.known, scan.unknown)
       ELSE IF c \in scan.unknown \/ stmt.array THEN Scan(mark("Unknown"), scan.known, scan.unknown)
       ELSE Scan(mark("Last"), scan.known \union {c}, scan.unknown \ {c})

\* One step of the scan at a store to an input: the address of a component
\* that is not in an array is a Value, that of an element a Compute.
VisitInput(stmt, scan, insideLoop) ==
    LET c == stmt.to[1]
        mark(status) == <<[stmt EXCEPT !.status = status]>> \o scan.code
    IN IF c \in scan.known THEN Scan(mark("NoLast"), scan.known, scan.unknown)
       ELSE IF c \in scan.unknown \/ stmt.array THEN Scan(mark("Unknown"), scan.known, scan.unknown)
       ELSE Scan(mark(IF insideLoop THEN "Unknown" ELSE "Last"),
                 scan.known \union {c}, scan.unknown \ {c})

SymmetricDifference(S, T) == (S \ T) \union (T \ S)

RECURSIVE VisitList(_, _, _, _)

\* The second visit is of the if branch again; the else branch keeps the
\* statuses it was translated with.
VisitBranch(stmt, scan, insideLoop) ==
    LET first  == VisitList(stmt.then, scan.known, scan.unknown, insideLoop)
        second == VisitList(first.code, scan.known, scan.unknown, insideLoop)
        both   == first.known \intersect second.known
        one    == SymmetricDifference(first.known, second.known)
    IN Scan(<<[stmt EXCEPT !.then = second.code]>> \o scan.code,
            scan.known \union both,
            (scan.unknown \union first.unknown \union second.unknown \union one) \ both)

VisitLoop(stmt, scan) ==
    LET inside == VisitList(stmt.body, scan.known, scan.unknown, TRUE)
        new    == inside.known \union inside.unknown
    IN Scan(<<[stmt EXCEPT !.body = inside.code]>> \o scan.code,
            scan.known \ new, scan.unknown \union new)

VisitList(stmts, known, unknown, insideLoop) ==
    LET visit(stmt, scan) ==
            CASE stmt.kind = "input"  -> VisitInput(stmt, scan, insideLoop)
              [] stmt.kind = "branch" -> VisitBranch(stmt, scan, insideLoop)
              [] stmt.kind = "loop"   -> VisitLoop(stmt, scan)
              [] OTHER -> Scan(<<stmt>> \o scan.code, scan.known, scan.unknown)
    IN FoldRight(visit, stmts, Scan(<<>>, known, unknown))

BuildInputsInfo(stmts) == VisitList(stmts, {}, {}, FALSE).code

(***************************************************************************)
(* The writers of C++                                                      *)
(***************************************************************************)

\* A parallel component announces each output once its value is stored.
StoreOutput(i, parallel) ==
    <<[op |-> "write", signal |-> i]>>
        \o IF parallel THEN <<[op |-> "set", signal |-> i], [op |-> "notify", signal |-> i]>>
           ELSE <<>>

\* Starting a subcomponent: a thread that is counted after it was started, or
\* a call.
StartSub(s, parallel) ==
    IF parallel THEN <<[op |-> "spawn", sub |-> s], [op |-> "enter"]>>
    ELSE <<[op |-> "call", sub |-> s], [op |-> "return", sub |-> s]>>

\* Counting down the missing inputs: with status Unknown the start is skipped
\* while some are missing, else the count is asserted.
StoreInput(s, status, parallel) ==
    <<[op |-> "count", sub |-> s, status |-> status]>>
        \o IF status = "NoLast" THEN <<>> ELSE StartSub(s, parallel)

\* The slot of the reader is given up while it waits for each output.
LoadOutputs(s, signals, parallel) ==
    (IF parallel
     THEN FlattenSeq([k \in DOMAIN signals |->
              <<[op |-> "leave"], [op |-> "notifyOne"],
                [op |-> "await", sub |-> s, signal |-> signals[k]], [op |-> "enter"]>>])
     ELSE <<>>)
        \o [k \in DOMAIN signals |-> [op |-> "read", sub |-> s, signal |-> signals[k]]]

RECURSIVE ProduceList(_, _, _, _)

\* `isParallel` of the subcomponents, `me` whether this is the parallel variant.
ProduceInstruction(stmt, k, isParallel, me) ==
    CASE stmt.kind = "output" -> StoreOutput(stmt.signal, me)
      [] stmt.kind = "input"  -> StoreInput(At(stmt.to, k), stmt.status, isParallel[At(stmt.to, k)])
      [] stmt.kind = "read"   -> LoadOutputs(stmt.sub, stmt.signals, isParallel[stmt.sub])
      [] stmt.kind = "branch" -> ProduceList(IF At(stmt.holds, k) THEN stmt.then ELSE stmt.else,
                                             k, isParallel, me)
      [] stmt.kind = "loop"   -> ProduceList(stmt.body, 1, isParallel, me)
                                     \o ProduceList(stmt.body, 2, isParallel, me)

ProduceList(stmts, k, isParallel, me) ==
    FlattenSeq([n \in DOMAIN stmts |-> ProduceInstruction(stmts[n], k, isParallel, me)])

\* A component without inputs is run, in its sequential variant, as soon as
\* it is created.
CreateSub(c) ==
    <<[op |-> "create", sub |-> c.id]>>
        \o IF c.inputs = 0 THEN StartSub(c.id, FALSE) ELSE <<>>

\* Wait for the threads, announce every output, give up the slot, and release
\* the memory of the subcomponents.
JoinThreads(subs, isParallel) ==
    IF \E n \in DOMAIN subs : isParallel[subs[n].id]
    THEN [n \in DOMAIN subs |-> [op |-> "join", sub |-> subs[n].id]] ELSE <<>>

\* Wrong: nobody hears that the slot is free.
silentEnd(outputs, me) ==
    IF me THEN FlattenSeq([i \in 1..outputs |->
                   <<[op |-> "set", signal |-> i], [op |-> "notify", signal |-> i]>>])
               \o <<[op |-> "leave"]>>
    ELSE <<>>

EndOfRun(outputs, me) ==
    IF me THEN FlattenSeq([i \in 1..outputs |->
                   <<[op |-> "set", signal |-> i], [op |-> "notify", signal |-> i]>>])
               \o <<[op |-> "leave"], [op |-> "notifyOne"]>>
    ELSE <<>>

ReleaseMemory(subs) == [n \in DOMAIN subs |-> [op |-> "free", sub |-> subs[n].id]]

\* The run function of component c with the subcomponents subs.
ProduceC(c, subs, isParallel) ==
    LET me == c.parallel /\ c.inputs > 0
    IN FlattenSeq([n \in DOMAIN subs |-> CreateSub(subs[n])])
           \o ProduceList(BuildInputsInfo(c.body), 1, isParallel, me)
           \o JoinThreads(subs, isParallel)
           \o EndOfRun(c.outputs, me)
           \o ReleaseMemory(subs)

SubList(components, c) == SelectSeq(components, LAMBDA i : i.father = c /\ i.id # c)

\* The run functions of all components.
Compiled(components) ==
    LET isParallel == [c \in DOMAIN components |-> components[c].parallel]
    IN [c \in DOMAIN components |-> ProduceC(components[c], SubList(components, c), isParallel)]
---------------------------------------------------------------------------
(* Properties *)

\* The single components (not in arrays) that a list gives an input to.
RECURSIVE Assigned(_)
Assigned(stmts) ==
    UNION {CASE stmts[n].kind = "input" /\ ~stmts[n].array -> {stmts[n].to[1]}
             [] stmts[n].kind = "loop"   -> Assigned(stmts[n].body)
             [] stmts[n].kind = "branch" -> Assigned(stmts[n].then) \union Assigned(stmts[n].else)
             [] OTHER -> {} : n \in DOMAIN stmts}

\* Both arms of every branch give inputs to the same components.
RECURSIVE BranchesAgree(_)
BranchesAgree(stmts) ==
    \A n \in DOMAIN stmts :
        /\ stmts[n].kind = "branch" =>
              /\ Assigned(stmts[n].then) = Assigned(stmts[n].else)
              /\ BranchesAgree(stmts[n].then) /\ BranchesAgree(stmts[n].else)
        /\ stmts[n].kind = "loop" => BranchesAgree(stmts[n].body)

AllBranchesAgree == \A c \in Components : BranchesAgree(Info(c).body)

\* The assertions on inputCounter in the generated code (store_bucket.rs:676
\* and 721) hold when both arms of every branch give inputs to the same
\* components: then build_inputs_info, which visits the if branch twice and
\* the else branch never, is right about the last store.
StatusesRight == AllBranchesAgree => ~aborted

\* What the generated code asserts of its counters, whatever the branches: an
\* input that is not the last one leaves others missing (store_bucket.rs:676),
\* and the last one leaves none (store_bucket.rs:721).
AssertionsHold == ~aborted

\* Threads start threads: then the readers may use up the slots that those
\* they wait for still hold.
Nested == \E c \in Components : Info(c).parallel /\ \E s \in Components \ {c} :
              Info(s).father = c /\ Info(s).parallel
Parallel == {c \in Components : Info(c).parallel}
Computable ==
    /\ AllBranchesAgree
    /\ \A c \in Parallel : Info(c).inputs > 0
    /\ Nested => Cardinality(Parallel) <= program.maxThread

\* The witness gets computed, however few threads may run at once, unless
\* threads are nested deeper than the slots reach, or a parallel component
\* without inputs was run by its creation, which announces no output.
Completes == Computable => <>Finished(Main)
=============================================================================
