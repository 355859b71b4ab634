--------------------------- MODULE WitnessThreads ---------------------------
(***************************************************************************)
(* The generated C++ witness calculator at work: the main component runs   *)
(* on the thread of the program, every parallel component on a thread of   *)
(* its own, over the shared outputIsSet flags with their mutexes and       *)
(* condition variables, the count of running threads and the memory of the *)
(* components (store_bucket.rs, load_bucket.rs and template.rs write the   *)
(* code, calcwit.cpp holds the counter).                                   *)
(*                                                                         *)
(* One step is one operation of the generated code.  The mutex             *)
(* numThreadMutex is never held over a wait on anything else, so a step    *)
(* takes and leaves it; the mutex of an output is kept by its reader until *)
(* it has a slot again, and that is the variable held.                     *)
(*                                                                         *)
(* The code of the threads is given; WitnessCode is what the compiler      *)
(* writes, and CodeAssumption what the threads need of it.                 *)
(***************************************************************************)
EXTENDS Integers, Sequences, FiniteSets

CONSTANTS
    Programs,   \* [maxThread, components, code: the operations of each component]
    Main        \* the main component

(***************************************************************************)
(* The code                                                                *)
(***************************************************************************)
Operations ==
    [op : {"create", "call", "return", "spawn", "join", "free"}, sub : Nat]
        \union [op : {"count"}, sub : Nat, status : {"Last", "NoLast", "Unknown"}]
        \union [op : {"await", "read"}, sub : Nat, signal : Nat]
        \union [op : {"write", "set", "notify"}, signal : Nat]
        \union [op : {"enter", "leave", "notifyOne"}]

\* Operations on a subcomponent, by the part of the run function they stand
\* in: creation, body, joins, release.
Part(op) ==
    CASE op = "create" -> 1
      [] op \in {"count", "call", "return", "spawn", "await", "read"} -> 2
      [] op = "join" -> 3
      [] op = "free" -> 4
      [] OTHER -> 0

Subs(p, c) == {s \in DOMAIN p.components \ {Main} : p.components[s].father = c}

\* Component s runs on a thread of its own.
Threaded(p, s) == p.components[s].parallel /\ p.components[s].inputs > 0

\* Line k of the run function of c does op to s.
Does(p, c, k, op, s) ==
    k \in 1 .. Len(p.code[c]) /\ p.code[c][k].op = op /\ p.code[c][k].sub = s

\* Line k does op, whatever to.
Says(p, c, k, op) == k \in 1 .. Len(p.code[c]) /\ p.code[c][k].op = op

\* The first n lines that count an input of s.
Counted(p, c, s, n) == {k \in 1 .. n : Does(p, c, k, "count", s)}

\* A tree of components.
WellTyped(p) ==
    /\ p.maxThread \in Nat
    /\ Len(p.components) \in Nat /\ DOMAIN p.components = 1 .. Len(p.components)
    /\ \A c \in DOMAIN p.components :
          p.components[c].parallel \in BOOLEAN /\ p.components[c].inputs \in Nat
    /\ p.code \in [DOMAIN p.components -> Seq(Operations)]
    /\ Main \in DOMAIN p.components /\ ~p.components[Main].parallel
    /\ \A s \in DOMAIN p.components \ {Main} :
          p.components[s].father \in DOMAIN p.components /\ p.components[s].father < s

\* A component is created once, before all else that is done to it, and
\* released at the end; a parallel one is joined first.
PartsInOrder(p, c) ==
    /\ \A k \in DOMAIN p.code[c] :
          Part(p.code[c][k].op) > 0 => p.code[c][k].sub \in Subs(p, c)
    /\ \A j, k \in DOMAIN p.code[c] :
          /\ Part(p.code[c][j].op) > 0 /\ Part(p.code[c][k].op) > 0
          /\ p.code[c][j].sub = p.code[c][k].sub
          => /\ Part(p.code[c][j].op) < Part(p.code[c][k].op) => j < k
             /\ p.code[c][j].op = "create" /\ p.code[c][k].op = "create" => j = k
    /\ \A s \in Subs(p, c) :
          /\ \E k \in DOMAIN p.code[c] : Does(p, c, k, "create", s)
          /\ p.components[s].parallel => \E k \in DOMAIN p.code[c] : Does(p, c, k, "join", s)

\* A store to an input that may be the last one is followed by the start of
\* the component, and so is the creation of one without inputs.
MayStart(p, c, k, s) ==
    \/ Does(p, c, k, "count", s) /\ p.code[c][k].status # "NoLast"
    \/ Does(p, c, k, "create", s) /\ p.components[s].inputs = 0

Starts(p, c, k, s) ==
    \/ Threaded(p, s) /\ Does(p, c, k, "spawn", s) /\ Says(p, c, k + 1, "enter")
    \/ ~Threaded(p, s) /\ Does(p, c, k, "call", s) /\ Does(p, c, k + 1, "return", s)

StartsInPlace(p, c) ==
    \A k \in DOMAIN p.code[c], s \in Subs(p, c) :
        /\ MayStart(p, c, k, s) => Starts(p, c, k + 1, s)
        /\ Does(p, c, k, "call", s) \/ Does(p, c, k, "spawn", s) => MayStart(p, c, k - 1, s) /\ Starts(p, c, k, s)
        /\ Does(p, c, k, "return", s) => Does(p, c, k - 1, "call", s)

\* A component is given each input once, and all of them before its outputs
\* are used, or awaited; an output is stored before it is announced.
InputsFirst(p, c) ==
    /\ \A s \in Subs(p, c) :
          Cardinality(Counted(p, c, s, Len(p.code[c]))) <= p.components[s].inputs
    /\ \A k \in DOMAIN p.code[c] : p.code[c][k].op = "read" =>
          LET s == p.code[c][k].sub IN
          IF p.components[s].parallel
          THEN \E j \in 1 .. k - 1 : Does(p, c, j, "await", s) /\ p.code[c][j].signal = p.code[c][k].signal
          ELSE Cardinality(Counted(p, c, s, k)) = p.components[s].inputs
    /\ \A j, k \in DOMAIN p.code[c] :
          /\ p.code[c][j].op = "write" /\ p.code[c][k].op = "set"
          /\ p.code[c][j].signal = p.code[c][k].signal
          => j < k

\* A slot is taken for a new thread and after a wait; it is given up before a
\* wait, and once more, for good, by a component that is a thread.
Waits(p, c, k) ==
    /\ Says(p, c, k, "leave") /\ Says(p, c, k + 1, "notifyOne")
    /\ Says(p, c, k + 2, "await") /\ Says(p, c, k + 3, "enter")

LeavesForGood(p, c, k) == Says(p, c, k, "leave") /\ ~Waits(p, c, k)

SlotsPaired(p, c) ==
    /\ \A k \in DOMAIN p.code[c] :
          /\ p.code[c][k].op = "await" => Waits(p, c, k - 2)
          /\ p.code[c][k].op = "enter" => Says(p, c, k - 1, "spawn") \/ Says(p, c, k - 1, "await")
    /\ \A j, k \in DOMAIN p.code[c] : LeavesForGood(p, c, j) /\ LeavesForGood(p, c, k) => j = k
    /\ Threaded(p, c) <=> \E k \in DOMAIN p.code[c] : LeavesForGood(p, c, k)

Orderly(p) ==
    /\ WellTyped(p)
    /\ \A c \in DOMAIN p.components :
          PartsInOrder(p, c) /\ StartsInPlace(p, c) /\ InputsFirst(p, c) /\ SlotsPaired(p, c)

ASSUME CodeAssumption == \A p \in Programs : Orderly(p)

VARIABLES
    program,
    at,             \* component -> next operation of its run function; 0: not started
    starts,         \* component -> how often its run function was entered
    inputCounter,   \* component -> inputs still missing
    outputIsSet,    \* the announced outputs, <<component, output>>
    written,        \* the stored outputs
    held,           \* component -> the output mutexes its thread keeps
    asleep,         \* components asleep on a condition variable
    numThread,
    memory,         \* components that were created and not released
    aborted         \* an assertion failed

vars == <<program, at, starts, inputCounter, outputIsSet, written, held, asleep, numThread, memory, aborted>>

Components == DOMAIN program.components
Info(c) == program.components[c]

Init ==
    /\ program \in Programs
    /\ at = [c \in Components |-> IF c = Main THEN 1 ELSE 0]
    /\ starts = [c \in Components |-> IF c = Main THEN 1 ELSE 0]
    /\ inputCounter = [c \in Components |-> 0]
    /\ outputIsSet = {} /\ written = {}
    /\ held = [c \in Components |-> {}]
    /\ asleep = {}
    /\ numThread = 0
    /\ memory = {Main}
    /\ aborted = FALSE

---------------------------------------------------------------------------
Finished(c) == at[c] > Len(program.code[c])
Running(c) == ~aborted /\ at[c] > 0 /\ ~Finished(c)
Op(c) == program.code[c][at[c]]

Step(c, op) == Running(c) /\ c \notin asleep /\ Op(c).op = op
\* The thread that c runs on waits for a call to return: such a c is at "return".
Advance(c) == at' = [at EXCEPT ![c] = @ + 1]
Begin(c, s) == at' = [at EXCEPT ![c] = @ + 1, ![s] = 1]
Entered(s) == starts' = [starts EXCEPT ![s] = @ + 1]

\* Somebody keeps the mutex of output m.
Locked(m) == \E c \in Components : m \in held[c]

\* _create: the counter, and fresh flags for the outputs.
Create(c) ==
    /\ Step(c, "create")
    /\ LET s == Op(c).sub IN
        /\ memory' = memory \union {s}
        /\ inputCounter' = [inputCounter EXCEPT ![s] = Info(s).inputs]
        /\ outputIsSet' = {m \in outputIsSet : m[1] # s}
    /\ Advance(c)
    /\ UNCHANGED <<program, starts, written, held, asleep, numThread, aborted>>

\* Wrong: with unknown status one missing input is overlooked.
overlookedInput(c) ==
    /\ Step(c, "count")
    /\ LET s      == Op(c).sub
           missing == inputCounter[s] - 1
           skip   == Op(c).status = "Unknown" /\ missing > 1
       IN /\ inputCounter' = [inputCounter EXCEPT ![s] = missing]
          /\ aborted' = \/ Op(c).status = "NoLast" /\ missing <= 0
                        \/ Op(c).status = "Last" /\ missing # 0
          /\ at' = [at EXCEPT ![c] = @ + IF skip THEN 3 ELSE 1]
    /\ UNCHANGED <<program, starts, outputIsSet, written, held, asleep, numThread, memory>>

\* inputCounter -= 1 and what is asserted of it.
Count(c) ==
    /\ Step(c, "count")
    /\ LET s      == Op(c).sub
           missing == inputCounter[s] - 1
           skip   == Op(c).status = "Unknown" /\ missing # 0
       IN /\ inputCounter' = [inputCounter EXCEPT ![s] = missing]
          /\ aborted' = \/ Op(c).status = "NoLast" /\ missing <= 0
                        \/ Op(c).status = "Last" /\ missing # 0
          /\ at' = [at EXCEPT ![c] = @ + IF skip THEN 3 ELSE 1]
    /\ UNCHANGED <<program, starts, outputIsSet, written, held, asleep, numThread, memory>>

\* A call of the run function on the same thread, and its return.
Call(c) ==
    /\ Step(c, "call")
    /\ Begin(c, Op(c).sub) /\ Entered(Op(c).sub)
    /\ UNCHANGED <<program, inputCounter, outputIsSet, written, held, asleep, numThread, memory, aborted>>

Return(c) ==
    /\ Step(c, "return") /\ Finished(Op(c).sub)
    /\ Advance(c)
    /\ UNCHANGED <<program, starts, inputCounter, outputIsSet, written, held, asleep, numThread, memory, aborted>>

\* sbct[i] = std::thread(...): the thread runs before it is counted.
Spawn(c) ==
    /\ Step(c, "spawn")
    /\ Begin(c, Op(c).sub) /\ Entered(Op(c).sub)
    /\ UNCHANGED <<program, inputCounter, outputIsSet, written, held, asleep, numThread, memory, aborted>>

\* Wrong: a slot is counted before the wait for it.
countedFirst(c) ==
    /\ Step(c, "enter")
    /\ numThread' = numThread + 1
    /\ IF numThread < program.maxThread
       THEN held' = [held EXCEPT ![c] = {}] /\ Advance(c) /\ UNCHANGED asleep
       ELSE asleep' = asleep \union {c} /\ UNCHANGED <<held, at>>
    /\ UNCHANGED <<program, starts, inputCounter, outputIsSet, written, memory, aborted>>

\* Wait on ntcvs for a slot, and take it; the locks end with the block.
Enter(c) ==
    /\ Step(c, "enter")
    /\ IF numThread < program.maxThread
       THEN /\ numThread' = numThread + 1
            /\ held' = [held EXCEPT ![c] = {}]
            /\ Advance(c) /\ UNCHANGED asleep
       ELSE /\ asleep' = asleep \union {c}
            /\ UNCHANGED <<numThread, held, at>>
    /\ UNCHANGED <<program, starts, inputCounter, outputIsSet, written, memory, aborted>>

\* Give the slot up.
Leave(c) ==
    /\ Step(c, "leave")
    /\ numThread' = numThread - 1
    /\ Advance(c)
    /\ UNCHANGED <<program, starts, inputCounter, outputIsSet, written, held, asleep, memory, aborted>>

\* ntcvs.notify_one(): any one of those asleep there.
NotifyOne(c) ==
    /\ Step(c, "notifyOne")
    /\ LET waiting == {w \in asleep : Op(w).op = "enter"} IN
        IF waiting = {} THEN UNCHANGED asleep
        ELSE \E w \in waiting : asleep' = asleep \ {w}
    /\ Advance(c)
    /\ UNCHANGED <<program, starts, inputCounter, outputIsSet, written, held, numThread, memory, aborted>>

\* Lock the mutex of an output of s, wait for the output, keep the mutex.
Await(c) ==
    /\ Step(c, "await")
    /\ LET m == <<Op(c).sub, Op(c).signal>> IN
        /\ ~Locked(m)
        /\ IF m \in outputIsSet
           THEN /\ held' = [held EXCEPT ![c] = @ \union {m}]
                /\ Advance(c) /\ UNCHANGED asleep
           ELSE /\ asleep' = asleep \union {c}
                /\ UNCHANGED <<held, at>>
    /\ UNCHANGED <<program, starts, inputCounter, outputIsSet, written, numThread, memory, aborted>>

\* The value of an output; then, under its mutex, the flag; then the readers.
Write(c) ==
    /\ Step(c, "write")
    /\ written' = written \union {<<c, Op(c).signal>>}
    /\ Advance(c)
    /\ UNCHANGED <<program, starts, inputCounter, outputIsSet, held, asleep, numThread, memory, aborted>>

\* Wrong: one flag for all outputs of a component.
sharedFlag(c) ==
    /\ Step(c, "set")
    /\ ~Locked(<<c, Op(c).signal>>)
    /\ outputIsSet' = outputIsSet \union ({c} \X (1 .. Info(c).outputs))
    /\ Advance(c)
    /\ UNCHANGED <<program, starts, inputCounter, written, held, asleep, numThread, memory, aborted>>

Set(c) ==
    /\ Step(c, "set")
    /\ LET m == <<c, Op(c).signal>> IN ~Locked(m) /\ outputIsSet' = outputIsSet \union {m}
    /\ Advance(c)
    /\ UNCHANGED <<program, starts, inputCounter, written, held, asleep, numThread, memory, aborted>>

Notify(c) ==
    /\ Step(c, "notify")
    /\ asleep' = {w \in asleep : ~(Op(w).op = "await" /\ Op(w).sub = c /\ Op(w).signal = Op(c).signal)}
    /\ Advance(c)
    /\ UNCHANGED <<program, starts, inputCounter, outputIsSet, written, held, numThread, memory, aborted>>

\* Use an output of a subcomponent.
Read(c) ==
    /\ Step(c, "read")
    /\ Advance(c)
    /\ UNCHANGED <<program, starts, inputCounter, outputIsSet, written, held, asleep, numThread, memory, aborted>>

\* Wrong: nobody waits for the thread.
detach(c) ==
    /\ Step(c, "join")
    /\ Advance(c)
    /\ UNCHANGED <<program, starts, inputCounter, outputIsSet, written, held, asleep, numThread, memory, aborted>>

\* join() if the thread is joinable: it was started.
Join(c) ==
    /\ Step(c, "join")
    /\ starts[Op(c).sub] > 0 /\ Info(Op(c).sub).parallel => Finished(Op(c).sub)
    /\ Advance(c)
    /\ UNCHANGED <<program, starts, inputCounter, outputIsSet, written, held, asleep, numThread, memory, aborted>>

Free(c) ==
    /\ Step(c, "free")
    /\ memory' = memory \ {Op(c).sub}
    /\ Advance(c)
    /\ UNCHANGED <<program, starts, inputCounter, outputIsSet, written, held, asleep, numThread, aborted>>

\* main.cpp writes the witness and returns.
Done == Finished(Main) /\ UNCHANGED vars

Operation(c) ==
    \/ Create(c) \/ Count(c) \/ Call(c) \/ Return(c) \/ Spawn(c) \/ Enter(c) \/ Leave(c)
    \/ NotifyOne(c) \/ Await(c) \/ Write(c) \/ Set(c) \/ Notify(c) \/ Read(c) \/ Join(c) \/ Free(c)

Next == Done \/ \E c \in Components : Operation(c)

Spec == Init /\ [][Next]_vars

\* The operating system runs every thread that can run.
Ids == UNION {DOMAIN p.components : p \in Programs}
FairSpec == Spec /\ \A c \in Ids : WF_vars(c \in Components /\ Operation(c))
---------------------------------------------------------------------------
(* Properties *)

\* A component is run once, and with all its inputs, whatever mix of known
\* and unknown stores counts them down.
StartedComplete ==
    \A c \in Components \ {Main} : starts[c] > 0 => starts[c] = 1 /\ inputCounter[c] = 0

\* When a component uses an output of another, on whatever thread that runs,
\* the output will not be stored to any more.
ReadsFinal ==
    \A c \in Components : Running(c) /\ Op(c).op = "read" =>
        LET s == Op(c).sub IN
        /\ starts[s] > 0
        /\ \A k \in DOMAIN program.code[s] :
              Says(program, s, k, "write") /\ program.code[s][k].signal = Op(c).signal => k < at[s]

\* The flags, mutexes and threads of a component are released only when no
\* thread uses them: neither its own nor its father's.
MemoryHeld ==
    /\ \A c \in Components : Running(c) => c \in memory
    /\ \A c \in Components : Running(c) /\ Op(c).op \in {"count", "spawn", "call", "await", "read"}
                              => Op(c).sub \in memory

\* Every slot that was taken, for a thread or after a wait, was given back
\* when the main component ends.
SlotsRepaid == Finished(Main) => numThread = 0
---------------------------------------------------------------------------
(* The inductive invariant *)

Father(s) == Info(s).father
Children  == Components \ {Main}

\* The father of s has done op to s, or does it next.
Past(op, s) == \E k \in 1 .. at[Father(s)] - 1 : Does(program, Father(s), k, op, s)
Now(op, s)  == Does(program, Father(s), at[Father(s)], op, s)

StartNow(s)  == Now("call", s) \/ Now("spawn", s)
StartPast(s) == Past("call", s) \/ Past("spawn", s)

TypeOK ==
    /\ program \in Programs
    /\ at \in [Components -> Nat] /\ at[Main] > 0
    /\ \A c \in Components : at[c] <= Len(program.code[c]) + 1
    /\ starts = [c \in Components |-> IF at[c] > 0 THEN 1 ELSE 0]
    /\ inputCounter \in [Components -> Int]
    /\ numThread \in Int /\ aborted \in BOOLEAN

\* The counter of a component is what the code has left to give it.
CountsDown ==
    \A s \in Children : Past("create", s) =>
        inputCounter[s] = Info(s).inputs
            - Cardinality(Counted(program, Father(s), s, at[Father(s)] - 1))

\* A component runs because its father started it when nothing was missing,
\* and then it starts it at once.
StartedByFather ==
    \A s \in Children : at[s] > 0 => inputCounter[s] = 0 /\ StartPast(s)

StartedInTime ==
    ~aborted => \A s \in Children :
        /\ StartNow(s) => Past("create", s) /\ inputCounter[s] = 0 /\ at[s] = 0
        /\ Past("create", s) /\ inputCounter[s] = 0 => at[s] > 0 \/ StartNow(s)

\* The caller of a component stays at the call.
FatherWaits ==
    \A s \in Children : at[s] > 0 /\ ~Threaded(program, s) => Finished(s) \/ Now("return", s)

\* An output that is set, or that was waited for, was announced by its code.
Announced(c, i) ==
    /\ c \in Components
    /\ \E k \in 1 .. at[c] - 1 : Says(program, c, k, "set") /\ program.code[c][k].signal = i

FlagsAnnounced == \A m \in outputIsSet : Announced(m[1], m[2])

AwaitedAnnounced ==
    \A c \in Components : \A k \in 1 .. at[c] - 1 :
        Says(program, c, k, "await") => Announced(program.code[c][k].sub, program.code[c][k].signal)

\* What was joined or released has finished.
JoinedFinished ==
    \A s \in Children :
        /\ Past("join", s) /\ Info(s).parallel /\ at[s] > 0 => Finished(s)
        /\ Past("free", s) /\ at[s] > 0 => Finished(s)

MemoryOwned ==
    /\ Main \in memory
    /\ \A s \in Children : s \in memory <=> Past("create", s) /\ ~Past("free", s)

\* A slot was taken for every thread, but not yet for one just spawned; those
\* that left for good gave it back, and those that wait have given it up.
Entering(s) == Does(program, Father(s), at[Father(s)] - 1, "spawn", s)

Taken    == {s \in Children : Threaded(program, s) /\ at[s] > 0 /\ ~Entering(s)}
GaveBack == {s \in Components : \E k \in 1 .. at[s] - 1 : LeavesForGood(program, s, k)}
Away     == {c \in Components : \E k \in 1 .. at[c] - 1 : Waits(program, c, k) /\ at[c] <= k + 3}

SlotsCounted ==
    /\ numThread = Cardinality(Taken) - Cardinality(GaveBack) - Cardinality(Away)
    /\ \A s \in Children : Entering(s) => at[s] > 0

ThreadsInv ==
    /\ TypeOK /\ CountsDown /\ StartedByFather /\ StartedInTime /\ FatherWaits
    /\ FlagsAnnounced /\ AwaitedAnnounced /\ JoinedFinished /\ MemoryOwned /\ SlotsCounted
=============================================================================
