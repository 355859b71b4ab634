------------------------ MODULE WitnessThreadsProofs ------------------------
(***************************************************************************)
(* For every program whose code is orderly, with any number of components, *)
(* threads and slots: components start once and complete, outputs are read *)
(* when they are final, memory in use is not released, and slots are       *)
(* repaid.                                                                 *)
(***************************************************************************)
EXTENDS WitnessThreads, FiniteSetTheorems, TLAPS

LOCAL start(p)      == 0
LOCAL step(p, n, v) == v
LOCAL Numbers == INSTANCE Recursion WITH Start <- start, Step <- step

-----------------------------------------------------------------------------
(* The operations, by what the invariant sees of them. *)

QuietOps ==
    {"return", "enter", "leave", "notifyOne", "await", "write", "set", "notify", "read", "join", "free"}

Still ==
    UNCHANGED <<program, at, starts, inputCounter, outputIsSet, numThread, memory, aborted>>

Begins(c) ==
    /\ Running(c) /\ Op(c).op \in {"call", "spawn"}
    /\ Begin(c, Op(c).sub) /\ Entered(Op(c).sub)
    /\ UNCHANGED <<program, inputCounter, outputIsSet, numThread, memory, aborted>>

Quiet(c) ==
    /\ Running(c) /\ Op(c).op \in QuietOps
    /\ Advance(c)
    /\ UNCHANGED <<program, starts, inputCounter, aborted>>
    /\ Op(c).op = "return" => Finished(Op(c).sub)
    /\ Op(c).op = "join" =>
          (starts[Op(c).sub] > 0 /\ Info(Op(c).sub).parallel => Finished(Op(c).sub))
    /\ Op(c).op = "await" => <<Op(c).sub, Op(c).signal>> \in outputIsSet
    /\ memory' = IF Op(c).op = "free" THEN memory \ {Op(c).sub} ELSE memory
    /\ outputIsSet' = IF Op(c).op = "set" THEN outputIsSet \union {<<c, Op(c).signal>>}
                      ELSE outputIsSet
    /\ Op(c).op \notin {"enter", "leave"} => numThread' = numThread
    /\ Op(c).op = "enter" => numThread' = numThread + 1
    /\ Op(c).op = "leave" => numThread' = numThread - 1

LEMMA StepKinds ==
    ASSUME NEW c, Operation(c)
    PROVE  Still \/ Create(c) \/ Count(c) \/ Begins(c) \/ Quiet(c)
<1>1. CASE Create(c) \/ Count(c)
  BY <1>1
<1>2. CASE Call(c) \/ Spawn(c)
  BY <1>2 DEF Call, Spawn, Begins, Step
<1> USE DEF Quiet, QuietOps, Step
<1>3. CASE Return(c)
  BY <1>3 DEF Return
<1>4. CASE Enter(c)
  <2>1. CASE numThread < program.maxThread
    BY <1>4, <2>1 DEF Enter
  <2>2. CASE ~(numThread < program.maxThread)
    BY <1>4, <2>2 DEF Enter, Still
  <2> QED BY <2>1, <2>2
<1>5. CASE Leave(c)
  BY <1>5 DEF Leave
<1>6. CASE NotifyOne(c)
  BY <1>6 DEF NotifyOne
<1>7. CASE Await(c)
  <2>1. CASE <<Op(c).sub, Op(c).signal>> \in outputIsSet
    BY <1>7, <2>1 DEF Await
  <2>2. CASE <<Op(c).sub, Op(c).signal>> \notin outputIsSet
    BY <1>7, <2>2 DEF Await, Still
  <2> QED BY <2>1, <2>2
<1>8. CASE Write(c)
  BY <1>8 DEF Write
<1>9. CASE Set(c)
  BY <1>9 DEF Set
<1>10. CASE Notify(c)
  BY <1>10 DEF Notify
<1>11. CASE Read(c)
  BY <1>11 DEF Read
<1>12. CASE Join(c)
  BY <1>12 DEF Join
<1>13. CASE Free(c)
  BY <1>13 DEF Free
<1> QED
  BY <1>1, <1>2, <1>3, <1>4, <1>5, <1>6, <1>7, <1>8, <1>9, <1>10, <1>11, <1>12, <1>13 DEF Operation

-----------------------------------------------------------------------------
(* What orderly code says of the components. *)

LEMMA Tree ==
    ASSUME TypeOK
    PROVE  /\ Len(program.components) \in Nat
           /\ Components = 1 .. Len(program.components)
           /\ IsFiniteSet(Components)
           /\ Main \in Components /\ ~Threaded(program, Main)
           /\ \A c \in Components :
                 /\ program.code[c] \in Seq(Operations)
                 /\ Len(program.code[c]) \in Nat
                 /\ DOMAIN program.code[c] = 1 .. Len(program.code[c])
                 /\ Info(c).inputs \in Nat
                 /\ PartsInOrder(program, c) /\ StartsInPlace(program, c)
                 /\ InputsFirst(program, c) /\ SlotsPaired(program, c)
           /\ \A s \in Children :
                 Father(s) \in Components /\ Father(s) < s /\ s \in Subs(program, Father(s))
<1>1. Orderly(program)
  BY CodeAssumption DEF TypeOK
<1>2. WellTyped(program)
  BY <1>1 DEF Orderly
<1>3. /\ Len(program.components) \in Nat
      /\ Components = 1 .. Len(program.components)
  BY <1>2 DEF WellTyped, Components
<1>4. IsFiniteSet(Components)
  <2>1. IsFiniteSet(1 .. Len(program.components))
    BY <1>3, FS_Interval
  <2> QED BY <1>3, <2>1
<1>5. Main \in Components /\ ~Threaded(program, Main)
  BY <1>2 DEF WellTyped, Components, Threaded
<1>6. ASSUME NEW c \in Components
      PROVE  /\ program.code[c] \in Seq(Operations)
             /\ Len(program.code[c]) \in Nat
             /\ DOMAIN program.code[c] = 1 .. Len(program.code[c])
             /\ Info(c).inputs \in Nat
  <2>1. program.code[c] \in Seq(Operations)
    BY <1>2 DEF WellTyped, Components
  <2>2. Info(c).inputs \in Nat
    BY <1>2 DEF WellTyped, Components, Info
  <2> QED BY <2>1, <2>2
<1>7. ASSUME NEW c \in Components
      PROVE  /\ PartsInOrder(program, c) /\ StartsInPlace(program, c)
             /\ InputsFirst(program, c) /\ SlotsPaired(program, c)
  BY <1>1 DEF Orderly, Components
<1>8. ASSUME NEW s \in Children
      PROVE  Father(s) \in Components /\ Father(s) < s /\ s \in Subs(program, Father(s))
  BY <1>2 DEF WellTyped, Components, Children, Father, Info, Subs
<1> QED BY <1>3, <1>4, <1>5, <1>6, <1>7, <1>8

LEMMA Parts ==
    /\ Part("create") = 1 /\ Part("count") = 2 /\ Part("call") = 2 /\ Part("return") = 2
    /\ Part("spawn") = 2 /\ Part("await") = 2 /\ Part("read") = 2 /\ Part("join") = 3
    /\ Part("free") = 4
BY DEF Part

(* Operations are done to children, and in the order of the parts. *)
LEMMA Owned ==
    ASSUME TypeOK, NEW c \in Components, NEW k, NEW op, NEW s,
           Does(program, c, k, op, s), Part(op) > 0
    PROVE  s \in Children /\ Father(s) = c /\ s \in Subs(program, c)
<1>1. PartsInOrder(program, c) /\ DOMAIN program.code[c] = 1 .. Len(program.code[c])
  BY Tree
<1>2. s \in Subs(program, c)
  BY <1>1 DEF PartsInOrder, Does
<1> QED BY <1>2 DEF Subs, Children, Components, Father, Info

LEMMA Ordered ==
    ASSUME TypeOK, NEW c \in Components, NEW j, NEW k, NEW before, NEW after, NEW s,
           Does(program, c, j, before, s), Does(program, c, k, after, s),
           Part(before) > 0, Part(before) < Part(after)
    PROVE  j < k
<1>1. PartsInOrder(program, c) /\ DOMAIN program.code[c] = 1 .. Len(program.code[c])
  BY Tree
<1>2. Part(after) > 0
  BY DEF Part
<1> QED BY <1>1, <1>2 DEF PartsInOrder, Does

LEMMA CreatedOnce ==
    ASSUME TypeOK, NEW c \in Components, NEW j, NEW k, NEW s,
           Does(program, c, j, "create", s), Does(program, c, k, "create", s)
    PROVE  j = k
<1>1. PartsInOrder(program, c) /\ DOMAIN program.code[c] = 1 .. Len(program.code[c])
  BY Tree
<1>2. /\ j \in DOMAIN program.code[c] /\ program.code[c][j].op = "create" /\ program.code[c][j].sub = s
      /\ k \in DOMAIN program.code[c] /\ program.code[c][k].op = "create" /\ program.code[c][k].sub = s
  BY <1>1 DEF Does
<1> QED BY <1>1, <1>2, Parts DEF PartsInOrder

LEMMA PastBeforeNow ==
    ASSUME TypeOK, NEW s \in Children, NEW before, NEW after, Part(before) > 0,
           Past(after, s), Now(before, s)
    PROVE  ~(Part(before) < Part(after))
<1>1. Father(s) \in Components
  BY Tree
<1>2. PICK k \in 1 .. at[Father(s)] - 1 : Does(program, Father(s), k, after, s)
  BY DEF Past
<1>3. Does(program, Father(s), at[Father(s)], before, s)
  BY DEF Now
<1>4. at[Father(s)] \in Nat
  BY <1>1 DEF TypeOK
<1>5. SUFFICES ASSUME Part(before) < Part(after) PROVE FALSE
  OBVIOUS
<1>6. at[Father(s)] < k
  BY <1>1, <1>2, <1>3, <1>5, Ordered
<1> QED BY <1>2, <1>4, <1>6

(* Creation comes before everything else that is done to a component. *)
LEMMA CreatedBefore ==
    ASSUME TypeOK, NEW s \in Children, NEW op, NEW k \in 1 .. at[Father(s)],
           Does(program, Father(s), k, op, s), Part(op) > 1
    PROVE  Past("create", s)
<1>1. Father(s) \in Components /\ s \in Subs(program, Father(s))
      /\ PartsInOrder(program, Father(s)) /\ at[Father(s)] \in Nat
  BY Tree DEF TypeOK
<1>2. PICK j \in DOMAIN program.code[Father(s)] : Does(program, Father(s), j, "create", s)
  BY <1>1 DEF PartsInOrder
<1>3. j < k
  BY <1>1, <1>2, Ordered, Parts
<1>4. j \in 1 .. at[Father(s)] - 1
  BY <1>1, <1>2, <1>3 DEF Does
<1> QED BY <1>2, <1>4 DEF Past

LEMMA NowCreated ==
    ASSUME TypeOK, NEW s \in Children, NEW op, Part(op) > 1, Now(op, s)
    PROVE  Past("create", s)
<1>1. Father(s) \in Components /\ at[Father(s)] \in Nat
  BY Tree DEF TypeOK
<1>2. at[Father(s)] \in 1 .. at[Father(s)]
  BY <1>1 DEF Now, Does
<1> QED BY <1>2, CreatedBefore DEF Now

LEMMA PastCreated ==
    ASSUME TypeOK, NEW s \in Children, NEW op, Part(op) > 1, Past(op, s)
    PROVE  Past("create", s)
<1>1. Father(s) \in Components /\ at[Father(s)] \in Nat
  BY Tree DEF TypeOK
<1>2. PICK k \in 1 .. at[Father(s)] - 1 : Does(program, Father(s), k, op, s)
  BY DEF Past
<1>3. k \in 1 .. at[Father(s)]
  BY <1>1, <1>2
<1> QED BY <1>2, <1>3, CreatedBefore

(* Nothing was done to a component that is to be created. *)
LEMMA NothingBefore ==
    ASSUME TypeOK, NEW s \in Children, NEW op, Part(op) > 0, Now("create", s)
    PROVE  ~Past(op, s)
<1>1. Father(s) \in Components /\ at[Father(s)] \in Nat
  BY Tree DEF TypeOK
<1>2. SUFFICES ASSUME Past(op, s) PROVE FALSE
  OBVIOUS
<1>3. PICK k \in 1 .. at[Father(s)] - 1 : Does(program, Father(s), k, op, s)
  BY <1>2 DEF Past
<1>4. PICK j \in 1 .. at[Father(s)] - 1 : Does(program, Father(s), j, "create", s)
  <2>1. CASE op = "create"
    BY <1>3, <2>1
  <2>2. CASE op # "create"
    <3>1. Part(op) > 1
      BY <1>3, <2>2 DEF Part
    <3>2. Past("create", s)
      BY <1>2, <3>1, PastCreated
    <3> QED BY <3>2 DEF Past
  <2> QED BY <2>1, <2>2
<1>5. j = at[Father(s)]
  BY <1>1, <1>4, CreatedOnce DEF Now
<1> QED BY <1>1, <1>4, <1>5

-----------------------------------------------------------------------------
(* How the threads move. *)

Moves(c, d) ==
    /\ program' = program
    /\ at' \in [Components -> Nat]
    /\ at'[c] = at[c] + d
    /\ \A x \in Components \ {c} : at'[x] = at[x] \/ (at[x] = 0 /\ at'[x] = 1)

LEMMA Here ==
    ASSUME TypeOK, NEW c \in Components, Running(c)
    PROVE  /\ at[c] \in 1 .. Len(program.code[c])
           /\ Says(program, c, at[c], Op(c).op)
           /\ Does(program, c, at[c], Op(c).op, Op(c).sub)
<1>1. at[c] \in Nat /\ Len(program.code[c]) \in Nat
  BY Tree DEF TypeOK
<1>2. at[c] > 0 /\ ~(at[c] > Len(program.code[c]))
  BY DEF Running, Finished
<1>3. at[c] \in 1 .. Len(program.code[c])
  BY <1>1, <1>2
<1> QED BY <1>3 DEF Says, Does, Op

LEMMA HereSub ==
    ASSUME TypeOK, NEW c \in Components, Running(c), Part(Op(c).op) > 0
    PROVE  /\ Op(c).sub \in Children /\ Father(Op(c).sub) = c
           /\ Op(c).sub \in Components \ {c}
           /\ Now(Op(c).op, Op(c).sub)
<1>1. Does(program, c, at[c], Op(c).op, Op(c).sub)
  BY Here
<1>2. Op(c).sub \in Children /\ Father(Op(c).sub) = c
  BY <1>1, Owned
<1>3. c < Op(c).sub /\ c \in Nat
  BY <1>2, Tree
<1> QED BY <1>1, <1>2, <1>3 DEF Now, Children

(* What c does next to one of its subcomponents. *)
LEMMA NowHere ==
    ASSUME TypeOK, NEW s \in Children, NEW op, Now(op, s)
    PROVE  /\ Op(Father(s)).op = op /\ Op(Father(s)).sub = s
           /\ at[Father(s)] \in 1 .. Len(program.code[Father(s)])
BY DEF Now, Does, Op

LEMMA TypeMoved ==
    ASSUME TypeOK, NEW c \in Components, NEW d \in Nat, Moves(c, d),
           at[c] > 0, at[c] + d <= Len(program.code[c]) + 1,
           starts' = [x \in Components |-> IF at'[x] > 0 THEN 1 ELSE 0],
           inputCounter' \in [Components -> Int], numThread' \in Int, aborted' \in BOOLEAN
    PROVE  TypeOK'
<1>1. Components' = Components /\ program' \in Programs
  BY DEF Moves, Components, TypeOK
<1>2. \A x \in Components : Len(program.code[x]) \in Nat
  BY Tree
<1>3. at'[Main] > 0
  <2>1. CASE Main = c
    <3>1. at'[c] = at[c] + d /\ at[c] \in Nat
      BY DEF Moves, TypeOK
    <3> QED BY <2>1, <3>1
  <2>2. CASE Main # c
    <3>1. Main \in Components /\ at[Main] > 0 /\ at[Main] \in Nat
      BY Tree DEF TypeOK
    <3>2. at'[Main] = at[Main] \/ at'[Main] = 1
      BY <2>2, <3>1 DEF Moves
    <3> QED BY <3>1, <3>2
  <2> QED BY <2>1, <2>2
<1>4. \A x \in Components : at'[x] <= Len(program.code[x]) + 1
  <2> SUFFICES ASSUME NEW x \in Components PROVE at'[x] <= Len(program.code[x]) + 1
    OBVIOUS
  <2>1. CASE x = c
    BY <2>1 DEF Moves
  <2>2. CASE x # c
    <3>1. at'[x] = at[x] \/ at'[x] = 1
      BY <2>2 DEF Moves
    <3>2. at[x] <= Len(program.code[x]) + 1
      BY DEF TypeOK
    <3>3. 1 <= Len(program.code[x]) + 1
      BY <1>2
    <3> QED BY <3>1, <3>2, <3>3
  <2> QED BY <2>1, <2>2
<1>5. at' \in [Components' -> Nat] /\ inputCounter' \in [Components' -> Int]
  BY <1>1 DEF Moves
<1>6. \A x \in Components' : at'[x] <= Len(program'.code[x]) + 1
  BY <1>1, <1>4 DEF Moves
<1> QED BY <1>1, <1>3, <1>5, <1>6 DEF TypeOK

LEMMA AdvanceMoves ==
    ASSUME TypeOK, NEW c \in Components, Running(c), Advance(c), program' = program
    PROVE  Moves(c, 1)
BY DEF Advance, Moves, TypeOK

LEMMA StartsSame ==
    ASSUME TypeOK, NEW c \in Components, at[c] > 0, NEW d \in Nat, Moves(c, d),
           \A x \in Components \ {c} : at'[x] = at[x], starts' = starts
    PROVE  starts' = [x \in Components |-> IF at'[x] > 0 THEN 1 ELSE 0]
<1>1. at'[c] > 0 /\ \A x \in Components \ {c} : at'[x] > 0 <=> at[x] > 0
  <2>1. at'[c] = at[c] + d /\ at[c] \in Nat
    BY DEF Moves, TypeOK
  <2> QED BY <2>1
<1> QED BY <1>1 DEF TypeOK

LEMMA CreateMoves ==
    ASSUME TypeOK, NEW c \in Components, Create(c)
    PROVE  /\ Running(c) /\ Op(c).op = "create"
           /\ Moves(c, 1) /\ TypeOK'
           /\ \A x \in Components \ {c} : at'[x] = at[x]
<1>1. /\ Running(c) /\ Op(c).op = "create" /\ Advance(c)
      /\ UNCHANGED <<program, starts, numThread, aborted>>
  BY DEF Create, Step
<1>2. Moves(c, 1)
  BY <1>1, AdvanceMoves
<1>3. \A x \in Components \ {c} : at'[x] = at[x]
  BY <1>1 DEF Advance, TypeOK
<1>4. at[c] \in 1 .. Len(program.code[c]) /\ Len(program.code[c]) \in Nat
  BY <1>1, Here, Tree
<1>5. starts' = [x \in Components |-> IF at'[x] > 0 THEN 1 ELSE 0]
  BY <1>1, <1>2, <1>3, <1>4, StartsSame
<1>6. inputCounter' \in [Components -> Int]
  <2>1. Op(c).sub \in Components
    BY <1>1, HereSub, Parts
  <2>2. Info(Op(c).sub).inputs \in Int
    BY <2>1, Tree
  <2> QED BY <2>2 DEF Create, TypeOK
<1>7. numThread' \in Int /\ aborted' \in BOOLEAN
  BY <1>1 DEF TypeOK
<1>8. TypeOK'
  BY <1>2, <1>4, <1>5, <1>6, <1>7, TypeMoved
<1> QED BY <1>1, <1>2, <1>3, <1>8

(* Counting an input: the start of the component may be skipped. *)
Skips(c) == Op(c).status = "Unknown" /\ inputCounter[Op(c).sub] - 1 # 0

LEMMA StartFollows ==
    ASSUME TypeOK, NEW c \in Components, NEW k, NEW s \in Children, Father(s) = c,
           MayStart(program, c, k, s)
    PROVE  Starts(program, c, k + 1, s)
<1>1. StartsInPlace(program, c) /\ s \in Subs(program, c)
      /\ DOMAIN program.code[c] = 1 .. Len(program.code[c])
  BY Tree
<1>2. k \in DOMAIN program.code[c]
  BY <1>1 DEF MayStart, Does
<1> QED BY <1>1, <1>2 DEF StartsInPlace

LEMMA CountMoves ==
    ASSUME TypeOK, NEW c \in Components, Count(c)
    PROVE  /\ Running(c) /\ Op(c).op = "count"
           /\ Skips(c) => Moves(c, 3) /\ Starts(program, c, at[c] + 1, Op(c).sub)
           /\ ~Skips(c) => Moves(c, 1)
           /\ TypeOK'
           /\ \A x \in Components \ {c} : at'[x] = at[x]
<1>1. /\ Running(c) /\ Op(c).op = "count"
      /\ UNCHANGED <<program, starts, numThread>>
      /\ at' = [at EXCEPT ![c] = @ + IF Skips(c) THEN 3 ELSE 1]
  BY DEF Count, Step, Skips
<1>2. /\ Skips(c) => Moves(c, 3)
      /\ ~Skips(c) => Moves(c, 1)
  BY <1>1 DEF Moves, TypeOK
<1>3. \A x \in Components \ {c} : at'[x] = at[x]
  BY <1>1 DEF TypeOK
<1>4. at[c] \in 1 .. Len(program.code[c]) /\ Len(program.code[c]) \in Nat
  BY <1>1, Here, Tree
<1>5. starts' = [x \in Components |-> IF at'[x] > 0 THEN 1 ELSE 0]
  BY <1>1, <1>2, <1>3, <1>4, StartsSame
<1>6. inputCounter' \in [Components -> Int] /\ aborted' \in BOOLEAN
  <2>1. Op(c).sub \in Components
    BY <1>1, HereSub, Parts
  <2>2. inputCounter[Op(c).sub] - 1 \in Int
    BY <2>1 DEF TypeOK
  <2>3. inputCounter' \in [Components -> Int]
    BY <2>2 DEF Count, TypeOK
  <2>4. aborted' \in BOOLEAN
    BY DEF Count
  <2> QED BY <2>3, <2>4
<1>7. Skips(c) => Starts(program, c, at[c] + 1, Op(c).sub)
  <2> SUFFICES ASSUME Skips(c) PROVE Starts(program, c, at[c] + 1, Op(c).sub)
    OBVIOUS
  <2>1. Does(program, c, at[c], "count", Op(c).sub)
    BY <1>1, Here
  <2>2. program.code[c][at[c]].status # "NoLast"
    BY DEF Skips, Op
  <2>3. MayStart(program, c, at[c], Op(c).sub)
    BY <2>1, <2>2 DEF MayStart
  <2>4. Op(c).sub \in Children /\ Father(Op(c).sub) = c
    BY <1>1, HereSub, Parts
  <2> QED BY <2>3, <2>4, StartFollows
<1>8. Skips(c) => at[c] + 3 <= Len(program.code[c]) + 1
  <2> SUFFICES ASSUME Skips(c) PROVE at[c] + 3 <= Len(program.code[c]) + 1
    OBVIOUS
  <2>1. at[c] + 1 + 1 \in 1 .. Len(program.code[c])
    BY <1>7 DEF Starts, Does, Says
  <2> QED BY <1>4, <2>1
<1>9. TypeOK'
  <2>1. numThread' \in Int
    BY <1>1 DEF TypeOK
  <2>2. CASE Skips(c)
    BY <1>2, <1>4, <1>5, <1>6, <1>8, <2>1, <2>2, TypeMoved
  <2>3. CASE ~Skips(c)
    BY <1>2, <1>4, <1>5, <1>6, <2>1, <2>3, TypeMoved
  <2> QED BY <2>2, <2>3
<1> QED BY <1>1, <1>2, <1>3, <1>7, <1>9

LEMMA BeginsMoves ==
    ASSUME TypeOK, StartedInTime, NEW c \in Components, Begins(c)
    PROVE  /\ Op(c).sub \in Children /\ Father(Op(c).sub) = c /\ StartNow(Op(c).sub)
           /\ Op(c).sub # c
           /\ at[Op(c).sub] = 0 /\ at'[Op(c).sub] = 1
           /\ Moves(c, 1) /\ TypeOK'
           /\ \A x \in Components \ {c, Op(c).sub} : at'[x] = at[x]
<1> DEFINE s == Op(c).sub
<1>1. /\ Running(c) /\ Op(c).op \in {"call", "spawn"}
      /\ at' = [at EXCEPT ![c] = @ + 1, ![s] = 1]
      /\ starts' = [starts EXCEPT ![s] = @ + 1]
      /\ UNCHANGED <<program, inputCounter, numThread, aborted>>
  BY DEF Begins, Begin, Entered
<1>2. s \in Children /\ Father(s) = c /\ s \in Components \ {c} /\ StartNow(s)
  BY <1>1, HereSub, Parts DEF StartNow
<1>3. at[s] = 0
  BY <1>1, <1>2 DEF StartedInTime, Running
<1> HIDE DEF s
<1>4. at'[s] = 1 /\ at'[c] = at[c] + 1 /\ \A x \in Components \ {c, s} : at'[x] = at[x]
  BY <1>1, <1>2 DEF TypeOK
<1>5. Moves(c, 1)
  <2>1. at' \in [Components -> Nat]
    <3>1. at[c] + 1 \in Nat
      BY DEF TypeOK
    <3>2. [at EXCEPT ![c] = at[c] + 1] \in [Components -> Nat]
      BY <3>1 DEF TypeOK
    <3>3. at' = [[at EXCEPT ![c] = at[c] + 1] EXCEPT ![s] = 1]
      BY <1>1, <1>2 DEF TypeOK
    <3> QED BY <3>2, <3>3
  <2> QED BY <1>1, <1>3, <1>4, <2>1 DEF Moves
<1>6. at[c] \in 1 .. Len(program.code[c]) /\ Len(program.code[c]) \in Nat
  BY <1>1, Here, Tree
<1>7. starts' = [x \in Components |-> IF at'[x] > 0 THEN 1 ELSE 0]
  <2>1. \A x \in Components \ {s} : at'[x] > 0 <=> at[x] > 0
    BY <1>4, <1>6
  <2>2. starts[s] = 0
    BY <1>2, <1>3 DEF TypeOK
  <2>3. \A x \in Components : starts'[x] = IF x = s THEN 1 ELSE starts[x]
    BY <1>1, <1>2, <2>2 DEF TypeOK
  <2>4. \A x \in Components : starts'[x] = IF at'[x] > 0 THEN 1 ELSE 0
    BY <1>4, <2>1, <2>3 DEF TypeOK
  <2>5. starts' = [x \in Components |-> starts'[x]]
    BY <1>1 DEF TypeOK
  <2> QED BY <2>4, <2>5
<1>8. inputCounter' \in [Components -> Int] /\ numThread' \in Int /\ aborted' \in BOOLEAN
  BY <1>1 DEF TypeOK
<1>9. TypeOK'
  BY <1>5, <1>6, <1>7, <1>8, TypeMoved
<1> QED BY <1>2, <1>3, <1>4, <1>5, <1>9 DEF s

LEMMA QuietMoves ==
    ASSUME TypeOK, NEW c \in Components, Quiet(c)
    PROVE  /\ Moves(c, 1) /\ TypeOK'
           /\ \A x \in Components \ {c} : at'[x] = at[x]
<1>1. Running(c) /\ Advance(c) /\ UNCHANGED <<program, starts, inputCounter, aborted>>
  BY DEF Quiet
<1>2. Moves(c, 1)
  BY <1>1, AdvanceMoves
<1>3. \A x \in Components \ {c} : at'[x] = at[x]
  BY <1>1 DEF Advance, TypeOK
<1>4. at[c] \in 1 .. Len(program.code[c]) /\ Len(program.code[c]) \in Nat
  BY <1>1, Here, Tree
<1>5. starts' = [x \in Components |-> IF at'[x] > 0 THEN 1 ELSE 0]
  BY <1>1, <1>2, <1>3, <1>4, StartsSame
<1>6. numThread' \in Int
  <2>1. numThread \in Int
    BY DEF TypeOK
  <2> QED BY <2>1 DEF Quiet
<1>7. inputCounter' \in [Components -> Int] /\ aborted' \in BOOLEAN
  BY <1>1 DEF TypeOK
<1>8. TypeOK'
  BY <1>2, <1>4, <1>5, <1>6, <1>7, TypeMoved
<1> QED BY <1>2, <1>3, <1>8

-----------------------------------------------------------------------------
(* What is past after a move. *)

LEMMA FatherSame ==
    ASSUME NEW c, NEW d, Moves(c, d)
    PROVE  /\ Components' = Components /\ Children' = Children
           /\ \A s : Father(s)' = Father(s) /\ Info(s)' = Info(s)
BY DEF Moves, Components, Children, Father, Info

LEMMA PastMeans ==
    ASSUME NEW c, NEW d, Moves(c, d), NEW s, NEW op
    PROVE  /\ Past(op, s)' <=> \E k \in 1 .. at'[Father(s)] - 1 : Does(program, Father(s), k, op, s)
           /\ Now(op, s)' <=> Does(program, Father(s), at'[Father(s)], op, s)
<1>1. Father(s)' = Father(s) /\ program' = program
  BY FatherSame DEF Moves
<1> QED BY <1>1 DEF Past, Now

LEMMA PastMoved ==
    ASSUME TypeOK, NEW c \in Components, at[c] > 0, Moves(c, 1), NEW s \in Children, NEW op
    PROVE  Past(op, s)' <=> Past(op, s) \/ (Father(s) = c /\ Now(op, s))
<1>1. Father(s) \in Components /\ at[Father(s)] \in Nat /\ at[c] \in Nat
  BY Tree DEF TypeOK
<1>2. CASE Father(s) = c
  <2>1. at'[c] = at[c] + 1
    BY DEF Moves
  <2>2. 1 .. at'[c] - 1 = (1 .. at[c] - 1) \union {at[c]}
    BY <1>1, <2>1
  <2> QED BY <1>2, <2>2, PastMeans DEF Past, Now
<1>3. CASE Father(s) # c
  <2>1. at'[Father(s)] = at[Father(s)] \/ (at[Father(s)] = 0 /\ at'[Father(s)] = 1)
    BY <1>1, <1>3 DEF Moves
  <2>2. 1 .. at'[Father(s)] - 1 = 1 .. at[Father(s)] - 1
    BY <2>1
  <2> QED BY <1>3, <2>2, PastMeans DEF Past
<1> QED BY <1>2, <1>3

LEMMA PastSkipped ==
    ASSUME TypeOK, NEW c \in Components, at[c] > 0, Moves(c, 3), NEW s \in Children, NEW op
    PROVE  Past(op, s)' <=>
              \/ Past(op, s)
              \/ Father(s) = c /\ \E k \in {at[c], at[c] + 1, at[c] + 2} : Does(program, c, k, op, s)
<1>1. Father(s) \in Components /\ at[Father(s)] \in Nat /\ at[c] \in Nat
  BY Tree DEF TypeOK
<1>2. CASE Father(s) = c
  <2>1. at'[c] = at[c] + 3
    BY DEF Moves
  <2>2. 1 .. at'[c] - 1 = (1 .. at[c] - 1) \union {at[c], at[c] + 1, at[c] + 2}
    BY <1>1, <2>1
  <2> QED BY <1>2, <2>2, PastMeans DEF Past
<1>3. CASE Father(s) # c
  <2>1. at'[Father(s)] = at[Father(s)] \/ (at[Father(s)] = 0 /\ at'[Father(s)] = 1)
    BY <1>1, <1>3 DEF Moves
  <2>2. 1 .. at'[Father(s)] - 1 = 1 .. at[Father(s)] - 1
    BY <2>1
  <2> QED BY <1>3, <2>2, PastMeans DEF Past
<1> QED BY <1>2, <1>3

(* A count that skips the start of its component passes nothing else. *)
LEMMA PastCounted ==
    ASSUME TypeOK, NEW c \in Components, Count(c), NEW s \in Children, NEW op
    PROVE  /\ Past(op, s) => Past(op, s)'
           /\ op \in {"create", "join", "free"} => (Past(op, s)' <=> Past(op, s))
<1>1. Running(c) /\ Op(c).op = "count" /\ at[c] > 0
  BY CountMoves DEF Running
<1>2. CASE ~Skips(c)
  <2>1. Moves(c, 1)
    BY <1>2, CountMoves
  <2>2. Past(op, s)' <=> Past(op, s) \/ (Father(s) = c /\ Now(op, s))
    BY <1>1, <2>1, PastMoved
  <2>3. Father(s) = c /\ Now(op, s) => op = "count"
    BY <1>1, NowHere
  <2> QED BY <2>2, <2>3
<1>3. CASE Skips(c)
  <2>1. Moves(c, 3) /\ Starts(program, c, at[c] + 1, Op(c).sub)
    BY <1>3, CountMoves
  <2>2. Past(op, s)' <=>
              \/ Past(op, s)
              \/ Father(s) = c /\ \E k \in {at[c], at[c] + 1, at[c] + 2} : Does(program, c, k, op, s)
    BY <1>1, <2>1, PastSkipped
  <2>3. /\ program.code[c][at[c]].op = "count"
        /\ program.code[c][at[c] + 1].op \in {"spawn", "call"}
        /\ program.code[c][at[c] + 1 + 1].op \in {"enter", "return"}
    BY <1>1, <2>1 DEF Op, Starts, Does, Says
  <2>4. at[c] + 1 + 1 = at[c] + 2
    BY DEF TypeOK
  <2>5. (\E k \in {at[c], at[c] + 1, at[c] + 2} : Does(program, c, k, op, s))
           => op \notin {"create", "join", "free"}
    BY <2>3, <2>4 DEF Does
  <2> QED BY <2>2, <2>5
<1> QED BY <1>2, <1>3

LEMMA FinishedMoved ==
    ASSUME TypeOK, NEW c \in Components, NEW d \in Nat, Moves(c, d), NEW x \in Components, Finished(x)
    PROVE  Finished(x)'
<1>1. at[x] \in Nat /\ Len(program.code[x]) \in Nat /\ at[x] > Len(program.code[x])
  BY Tree DEF TypeOK, Finished
<1>2. at'[x] = at[x] \/ at'[x] = at[x] + d
  BY <1>1 DEF Moves
<1>3. at'[x] > Len(program.code[x])
  BY <1>1, <1>2
<1> QED BY <1>3 DEF Finished, Moves

(* What is next for a component whose father does not move. *)
LEMMA NowKept ==
    ASSUME TypeOK, NEW c \in Components, NEW d, Moves(c, d), NEW s \in Children, Father(s) # c,
           NEW op, Now(op, s)
    PROVE  Now(op, s)'
<1>1. Father(s) \in Components \ {c} /\ at[Father(s)] # 0
  BY Tree, NowHere
<1>2. at'[Father(s)] = at[Father(s)]
  BY <1>1 DEF Moves
<1> QED BY <1>2, PastMeans DEF Now

LEMMA NowWas ==
    ASSUME TypeOK, NEW c \in Components, NEW d, Moves(c, d), NEW s \in Children, Father(s) # c,
           NEW op, Now(op, s)'
    PROVE  Now(op, s) \/ at'[Father(s)] = 1
<1>1. Father(s) \in Components \ {c}
  BY Tree
<1>2. at'[Father(s)] = at[Father(s)] \/ at'[Father(s)] = 1
  BY <1>1 DEF Moves
<1> QED BY <1>2, PastMeans DEF Now

-----------------------------------------------------------------------------
(* Counting down. *)

LEMMA CountedFinite ==
    ASSUME NEW p, NEW c, NEW s, NEW n \in Int
    PROVE  IsFiniteSet(Counted(p, c, s, n))
<1>1. IsFiniteSet(1 .. n) /\ Counted(p, c, s, n) \subseteq 1 .. n
  BY FS_Interval DEF Counted
<1> QED BY <1>1, FS_Subset

LEMMA CountedBound ==
    ASSUME TypeOK, NEW s \in Children, NEW n \in Int
    PROVE  /\ Cardinality(Counted(program, Father(s), s, n)) \in Nat
           /\ Cardinality(Counted(program, Father(s), s, n)) <= Info(s).inputs
<1> DEFINE c == Father(s)
           all == Counted(program, c, s, Len(program.code[c]))
<1>1. /\ c \in Components /\ s \in Subs(program, c) /\ InputsFirst(program, c)
      /\ Len(program.code[c]) \in Nat /\ Info(s).inputs \in Nat
  BY Tree DEF Children
<1>2. Cardinality(all) <= Info(s).inputs
  BY <1>1 DEF InputsFirst, Info
<1>3. IsFiniteSet(all)
  BY <1>1, CountedFinite
<1>4. Counted(program, c, s, n) \subseteq all
  BY <1>1 DEF Counted, Does
<1> HIDE DEF all, c
<1>5. Cardinality(Counted(program, c, s, n)) <= Cardinality(all)
  BY <1>3, <1>4, FS_Subset
<1>6. Cardinality(Counted(program, c, s, n)) \in Nat /\ Cardinality(all) \in Nat
  BY <1>3, CountedFinite, FS_CardinalityType
<1> QED BY <1>1, <1>2, <1>5, <1>6 DEF c

LEMMA CountedSame ==
    ASSUME TypeOK, NEW c \in Components, at[c] > 0, Moves(c, 1), NEW s \in Children,
           ~(Father(s) = c /\ Now("count", s))
    PROVE  Counted(program, Father(s), s, at'[Father(s)] - 1)
               = Counted(program, Father(s), s, at[Father(s)] - 1)
<1>1. Father(s) \in Components /\ at[Father(s)] \in Nat /\ at[c] \in Nat
  BY Tree DEF TypeOK
<1>2. CASE Father(s) = c
  <2>1. 1 .. at'[c] - 1 = (1 .. at[c] - 1) \union {at[c]}
    BY <1>1 DEF Moves
  <2>2. ~Does(program, c, at[c], "count", s)
    BY <1>2 DEF Now
  <2> QED BY <1>2, <2>1, <2>2 DEF Counted
<1>3. CASE Father(s) # c
  <2>1. at'[Father(s)] = at[Father(s)] \/ (at[Father(s)] = 0 /\ at'[Father(s)] = 1)
    BY <1>1, <1>3 DEF Moves
  <2>2. 1 .. at'[Father(s)] - 1 = 1 .. at[Father(s)] - 1
    BY <2>1
  <2> QED BY <2>2 DEF Counted
<1> QED BY <1>2, <1>3

LEMMA CountedNext ==
    ASSUME TypeOK, NEW c \in Components, Count(c)
    PROVE  LET s == Op(c).sub IN
           Cardinality(Counted(program, c, s, at'[c] - 1))
               = Cardinality(Counted(program, c, s, at[c] - 1)) + 1
<1> DEFINE s == Op(c).sub
           before == Counted(program, c, s, at[c] - 1)
<1>1. Running(c) /\ Op(c).op = "count" /\ at[c] \in Nat /\ at[c] > 0
  BY CountMoves DEF Running, TypeOK
<1>2. Does(program, c, at[c], "count", s)
  BY <1>1, Here
<1>3. Counted(program, c, s, at'[c] - 1) = before \union {at[c]}
  <2>1. CASE ~Skips(c)
    <3>1. 1 .. at'[c] - 1 = (1 .. at[c] - 1) \union {at[c]}
      BY <1>1, <2>1, CountMoves DEF Moves
    <3> QED BY <1>2, <3>1 DEF Counted
  <2>2. CASE Skips(c)
    <3>1. Moves(c, 3) /\ Starts(program, c, at[c] + 1, Op(c).sub)
      BY <2>2, CountMoves
    <3>2. 1 .. at'[c] - 1 = (1 .. at[c] - 1) \union {at[c], at[c] + 1, at[c] + 1 + 1}
      BY <1>1, <3>1 DEF Moves
    <3>3. ~Does(program, c, at[c] + 1, "count", s) /\ ~Does(program, c, at[c] + 1 + 1, "count", s)
      BY <3>1 DEF Starts, Does, Says
    <3> QED BY <1>2, <3>2, <3>3 DEF Counted
  <2> QED BY <2>1, <2>2
<1>4. IsFiniteSet(before)
  BY <1>1, CountedFinite
<1>5. at[c] \notin before
  BY <1>1 DEF Counted
<1> HIDE DEF before
<1>6. Cardinality(before \union {at[c]}) = Cardinality(before) + 1
  BY <1>4, <1>5, FS_AddElement
<1> QED BY <1>3, <1>6 DEF before

-----------------------------------------------------------------------------
LEMMA CountedOther ==
    ASSUME TypeOK, NEW c \in Components, Count(c), NEW s \in Children, s # Op(c).sub
    PROVE  Counted(program, Father(s), s, at'[Father(s)] - 1)
               = Counted(program, Father(s), s, at[Father(s)] - 1)
<1>1. Running(c) /\ Op(c).op = "count" /\ at[c] > 0 /\ at[c] \in Nat
  BY CountMoves DEF Running, TypeOK
<1>2. CASE Father(s) # c
  <2>1. at'[Father(s)] = at[Father(s)]
    BY <1>2, Tree, CountMoves
  <2> QED BY <2>1
<1>3. CASE Father(s) = c /\ ~Skips(c)
  <2>1. Moves(c, 1) /\ ~Now("count", s)
    BY <1>3, CountMoves, NowHere
  <2> QED BY <1>1, <2>1, CountedSame
<1>4. CASE Father(s) = c /\ Skips(c)
  <2>1. Moves(c, 3) /\ Starts(program, c, at[c] + 1, Op(c).sub)
    BY <1>4, CountMoves
  <2>2. 1 .. at'[c] - 1 = (1 .. at[c] - 1) \union {at[c], at[c] + 1, at[c] + 1 + 1}
    BY <1>1, <2>1 DEF Moves
  <2>3. ~Does(program, c, at[c] + 1, "count", s) /\ ~Does(program, c, at[c] + 1 + 1, "count", s)
    BY <2>1 DEF Starts, Does, Says
  <2>4. ~Does(program, c, at[c], "count", s)
    BY DEF Does, Op
  <2> QED BY <1>4, <2>2, <2>3, <2>4 DEF Counted
<1> QED BY <1>2, <1>3, <1>4

LEMMA PlainMoves ==
    ASSUME TypeOK, StartedInTime, NEW c \in Components, Create(c) \/ Begins(c) \/ Quiet(c)
    PROVE  /\ Running(c) /\ at[c] > 0 /\ Moves(c, 1) /\ TypeOK' /\ Op(c).op # "count"
           /\ Create(c) \/ inputCounter' = inputCounter
           /\ aborted' = aborted
<1>1. CASE Create(c)
  BY <1>1, CreateMoves DEF Create, Running
<1>2. CASE Begins(c)
  BY <1>2, BeginsMoves DEF Begins, Running
<1>3. CASE Quiet(c)
  BY <1>3, QuietMoves DEF Quiet, QuietOps, Running
<1> QED BY <1>1, <1>2, <1>3

LEMMA CountsDownKept ==
    ASSUME ThreadsInv, NEW c \in Components, Create(c) \/ Count(c) \/ Begins(c) \/ Quiet(c)
    PROVE  CountsDown'
<1> USE DEF ThreadsInv
<1>1. PICK d : Moves(c, d)
  BY PlainMoves, CountMoves
<1> SUFFICES ASSUME NEW s \in Children, Past("create", s)'
             PROVE  inputCounter'[s] = Info(s).inputs
                        - Cardinality(Counted(program, Father(s), s, at'[Father(s)] - 1))
  BY <1>1, FatherSame DEF CountsDown, Moves
<1> DEFINE N(n) == Cardinality(Counted(program, Father(s), s, n))
<1>2. at[Father(s)] \in Nat /\ s \in Components
  BY Tree DEF TypeOK, Children
<1>3. CASE Create(c)
  <2>1. Running(c) /\ Op(c).op = "create" /\ at[c] > 0 /\ Moves(c, 1)
    BY <1>3, CreateMoves DEF Running
  <2>2. N(at'[Father(s)] - 1) = N(at[Father(s)] - 1)
    <3>1. ~(Father(s) = c /\ Now("count", s))
      BY <2>1, NowHere
    <3> QED BY <2>1, <3>1, CountedSame
  <2>3. inputCounter' = [inputCounter EXCEPT ![Op(c).sub] = Info(Op(c).sub).inputs]
    BY <1>3 DEF Create
  <2>4. CASE s = Op(c).sub
    <3>1. Father(s) = c /\ Now("create", s)
      BY <2>1, <2>4, HereSub, Parts
    <3>2. ~Past("count", s)
      BY <3>1, NothingBefore, Parts
    <3>3. Counted(program, Father(s), s, at[Father(s)] - 1) = {}
      BY <3>2 DEF Past, Counted
    <3>4. N(at'[Father(s)] - 1) = 0
      BY <2>2, <3>3, FS_EmptySet
    <3>5. inputCounter'[s] = Info(s).inputs /\ Info(s).inputs \in Nat
      BY <1>2, <2>3, <2>4, Tree DEF TypeOK
    <3> HIDE DEF N
    <3> QED BY <3>4, <3>5 DEF N
  <2>5. CASE s # Op(c).sub
    <3>1. Past("create", s)
      BY <2>1, <2>5, PastMoved, NowHere
    <3>2. inputCounter'[s] = inputCounter[s]
      BY <1>2, <2>3, <2>5 DEF TypeOK
    <3> QED BY <2>2, <3>1, <3>2 DEF CountsDown
  <2> QED BY <2>4, <2>5
<1>4. CASE Count(c)
  <2>1. Past("create", s)
    BY <1>4, PastCounted
  <2>2. inputCounter[s] = Info(s).inputs - N(at[Father(s)] - 1)
    BY <2>1 DEF CountsDown
  <2>3. inputCounter' = [inputCounter EXCEPT ![Op(c).sub] = inputCounter[Op(c).sub] - 1]
    BY <1>4 DEF Count
  <2>4. CASE s = Op(c).sub
    <3>1. Father(s) = c
      BY <1>4, <2>4, CountMoves, HereSub, Parts
    <3>2. N(at'[Father(s)] - 1) = N(at[Father(s)] - 1) + 1
      BY <1>4, <2>4, <3>1, CountedNext
    <3>3. inputCounter'[s] = inputCounter[s] - 1
      BY <1>2, <2>3, <2>4 DEF TypeOK
    <3>4. Info(s).inputs \in Nat /\ N(at[Father(s)] - 1) \in Nat
      <4>1. at[Father(s)] - 1 \in Int
        BY <1>2
      <4> QED BY <1>2, <4>1, Tree, CountedBound
    <3> HIDE DEF N
    <3> QED BY <2>2, <3>2, <3>3, <3>4 DEF N
  <2>5. CASE s # Op(c).sub
    <3>1. N(at'[Father(s)] - 1) = N(at[Father(s)] - 1)
      BY <1>4, <2>5, CountedOther
    <3>2. inputCounter'[s] = inputCounter[s]
      BY <1>2, <2>3, <2>5 DEF TypeOK
    <3> QED BY <2>2, <3>1, <3>2
  <2> QED BY <2>4, <2>5
<1>5. CASE Begins(c) \/ Quiet(c)
  <2>1. Running(c) /\ at[c] > 0 /\ Moves(c, 1) /\ Op(c).op \notin {"count", "create"}
    BY <1>5, PlainMoves DEF Begins, Quiet, QuietOps
  <2>2. inputCounter' = inputCounter
    BY <1>5 DEF Begins, Quiet
  <2>3. N(at'[Father(s)] - 1) = N(at[Father(s)] - 1)
    <3>1. ~(Father(s) = c /\ Now("count", s))
      BY <2>1, NowHere
    <3> QED BY <2>1, <3>1, CountedSame
  <2>4. Past("create", s)
    BY <2>1, PastMoved, NowHere
  <2> QED BY <2>2, <2>3, <2>4 DEF CountsDown
<1> QED BY <1>3, <1>4, <1>5

(* Nothing is counted for a component that was started. *)
LEMMA NotStarted ==
    ASSUME ThreadsInv, NEW c \in Components, Count(c)
    PROVE  at[Op(c).sub] = 0
<1> USE DEF ThreadsInv
<1>1. Running(c) /\ Op(c).op = "count"
  BY CountMoves
<1>2. PICK s \in Children : s = Op(c).sub /\ Father(s) = c /\ Now("count", s) /\ at[s] \in Nat
  BY <1>1, HereSub, Parts DEF TypeOK, Children
<1>3. SUFFICES ASSUME at[s] > 0 PROVE FALSE
  BY <1>2
<1>4. inputCounter[s] = 0 /\ Past("create", s)
  <2>1. inputCounter[s] = 0
    BY <1>2, <1>3 DEF StartedByFather
  <2> QED BY <1>2, <2>1, NowCreated, Parts
<1>5. inputCounter'[s] = 0 - 1
  BY <1>2, <1>4 DEF Count, TypeOK, Children
<1>6. Past("create", s)'
  BY <1>4, PastCounted
<1>7. inputCounter'[s] = Info(s).inputs - Cardinality(Counted(program, Father(s), s, at'[Father(s)] - 1))
  <2>1. PICK d : Moves(c, d)
    BY CountMoves
  <2>2. CountsDown'
    BY CountsDownKept
  <2> QED BY <1>6, <2>1, <2>2, FatherSame DEF CountsDown, Moves
<1>8. at'[c] - 1 \in Int
  <2>1. PICK d : Moves(c, d)
    BY CountMoves
  <2>2. at'[c] \in Nat
    BY <2>1 DEF Moves
  <2> QED BY <2>2
<1>9. Cardinality(Counted(program, Father(s), s, at'[Father(s)] - 1)) <= Info(s).inputs
      /\ Cardinality(Counted(program, Father(s), s, at'[Father(s)] - 1)) \in Nat
  BY <1>2, <1>8, CountedBound
<1>10. Info(s).inputs \in Nat
  BY Tree DEF Children
<1> QED BY <1>5, <1>7, <1>9, <1>10

-----------------------------------------------------------------------------
(* Starting in time. *)

LEMMA SomeMove ==
    ASSUME ThreadsInv, NEW c \in Components, Create(c) \/ Count(c) \/ Begins(c) \/ Quiet(c)
    PROVE  /\ Running(c) /\ at[c] > 0 /\ at[c] \in Nat /\ ~aborted /\ TypeOK'
           /\ Moves(c, 1) \/ (Count(c) /\ Moves(c, 3))
           /\ \E d \in Nat : Moves(c, d)
           /\ \A op : \A s \in Children :
                 Part(op) > 0 /\ Op(c).op = op /\ Op(c).sub = s => Father(s) = c /\ s # c
<1> USE DEF ThreadsInv
<1>1. Running(c) /\ TypeOK' /\ (Moves(c, 1) \/ (Count(c) /\ Moves(c, 3)))
  <2>1. CASE Count(c)
    BY <2>1, CountMoves
  <2>2. CASE ~Count(c)
    BY <2>2, PlainMoves
  <2> QED BY <2>1, <2>2
<1>2. \A op : \A s \in Children :
         Part(op) > 0 /\ Op(c).op = op /\ Op(c).sub = s => Father(s) = c /\ s # c
  BY <1>1, HereSub
<1>3. at[c] > 0 /\ at[c] \in Nat /\ ~aborted
  BY <1>1 DEF Running, TypeOK
<1>4. \E d \in Nat : Moves(c, d)
  BY <1>1
<1> QED BY <1>1, <1>2, <1>3, <1>4

(* A component that runs after a step ran before, or the step started it. *)
LEMMA RanBefore ==
    ASSUME ThreadsInv, NEW c \in Components, Create(c) \/ Count(c) \/ Begins(c) \/ Quiet(c),
           NEW s \in Children
    PROVE  /\ at[s] > 0 => at'[s] > 0
           /\ at'[s] > 0 => at[s] > 0 \/ (Begins(c) /\ s = Op(c).sub)
<1> USE DEF ThreadsInv
<1>1. at[s] \in Nat /\ s \in Components
  BY DEF TypeOK, Children
<1>2. PICK d \in Nat : Moves(c, d)
  BY SomeMove
<1>3. at[s] > 0 => at'[s] > 0
  BY <1>1, <1>2, SomeMove DEF Moves
<1>4. at'[s] > 0 => at[s] > 0 \/ (Begins(c) /\ s = Op(c).sub)
  <2>1. CASE s = c
    BY <2>1, SomeMove
  <2>2. CASE s # c /\ Begins(c)
    BY <1>1, <2>2, BeginsMoves
  <2>3. CASE s # c /\ ~Begins(c)
    BY <1>1, <2>3, CreateMoves, CountMoves, QuietMoves
  <2> QED BY <2>1, <2>2, <2>3
<1> QED BY <1>3, <1>4

LEMMA StartPastKept ==
    ASSUME ThreadsInv, NEW c \in Components, Create(c) \/ Count(c) \/ Begins(c) \/ Quiet(c),
           NEW s \in Children, NEW op, Past(op, s)
    PROVE  Past(op, s)'
<1> USE DEF ThreadsInv
<1>1. CASE Count(c)
  BY <1>1, PastCounted
<1>2. CASE ~Count(c)
  BY <1>2, SomeMove, PastMoved
<1> QED BY <1>1, <1>2

LEMMA StartedByFatherKept ==
    ASSUME ThreadsInv, NEW c \in Components, Create(c) \/ Count(c) \/ Begins(c) \/ Quiet(c)
    PROVE  StartedByFather'
<1> USE DEF ThreadsInv
<1>1. PICK d \in Nat : Moves(c, d)
  BY SomeMove
<1> SUFFICES ASSUME NEW s \in Children, at'[s] > 0
             PROVE  inputCounter'[s] = 0 /\ (Past("call", s)' \/ Past("spawn", s)')
  BY <1>1, FatherSame DEF StartedByFather, StartPast
<1>2. CASE Begins(c) /\ s = Op(c).sub
  <2>1. StartNow(s) /\ Father(s) = c /\ Moves(c, 1) /\ at[c] > 0 /\ ~aborted
    BY <1>2, BeginsMoves, SomeMove
  <2>2. Past("call", s)' \/ Past("spawn", s)'
    BY <2>1, PastMoved DEF StartNow
  <2>3. inputCounter'[s] = 0
    BY <1>2, <2>1 DEF StartedInTime, Begins
  <2> QED BY <2>2, <2>3
<1>3. CASE ~(Begins(c) /\ s = Op(c).sub)
  <2>1. at[s] > 0
    BY <1>3, RanBefore
  <2>2. inputCounter[s] = 0 /\ (Past("call", s) \/ Past("spawn", s))
    BY <2>1 DEF StartedByFather, StartPast
  <2>3. Past("call", s)' \/ Past("spawn", s)'
    BY <2>2, StartPastKept
  <2>4. inputCounter'[s] = inputCounter[s]
    <3>1. CASE Create(c)
      <4>1. s # Op(c).sub
        BY <2>2, <3>1, CreateMoves, HereSub, NothingBefore, Parts
      <4> QED BY <3>1, <4>1 DEF Create, TypeOK, Children
    <3>2. CASE Count(c)
      <4>1. s # Op(c).sub
        BY <2>1, <3>2, NotStarted
      <4> QED BY <3>2, <4>1 DEF Count, TypeOK, Children
    <3>3. CASE Begins(c) \/ Quiet(c)
      BY <3>3 DEF Begins, Quiet
    <3> QED BY <3>1, <3>2, <3>3
  <2> QED BY <2>2, <2>3, <2>4
<1> QED BY <1>2, <1>3

(* The start of a component is next only behind what may start it. *)
LEMMA StartNowMeans ==
    ASSUME ThreadsInv, NEW c \in Components, NEW d, Moves(c, d), NEW s \in Children,
           Now("call", s)' \/ Now("spawn", s)'
    PROVE  MayStart(program, Father(s), at'[Father(s)] - 1, s)
<1> USE DEF ThreadsInv
<1>1. \/ Does(program, Father(s), at'[Father(s)], "call", s)
      \/ Does(program, Father(s), at'[Father(s)], "spawn", s)
  BY PastMeans
<1>2. /\ StartsInPlace(program, Father(s)) /\ s \in Subs(program, Father(s))
      /\ DOMAIN program.code[Father(s)] = 1 .. Len(program.code[Father(s)])
  BY Tree
<1>3. at'[Father(s)] \in DOMAIN program.code[Father(s)]
  BY <1>1, <1>2 DEF Does
<1> QED BY <1>1, <1>2, <1>3 DEF StartsInPlace

LEMMA CounterElsewhere ==
    ASSUME ThreadsInv, NEW c \in Components, Create(c) \/ Count(c) \/ Begins(c) \/ Quiet(c),
           NEW s \in Children, s # Op(c).sub
    PROVE  inputCounter'[s] = inputCounter[s]
<1> USE DEF ThreadsInv
<1>1. CASE Create(c)
  BY <1>1 DEF Create, TypeOK, Children
<1>2. CASE Count(c)
  BY <1>2 DEF Count, TypeOK, Children
<1>3. CASE Begins(c) \/ Quiet(c)
  BY <1>3 DEF Begins, Quiet
<1> QED BY <1>1, <1>2, <1>3

InTime(s) ==
    /\ StartNow(s) => Past("create", s) /\ inputCounter[s] = 0 /\ at[s] = 0
    /\ Past("create", s) /\ inputCounter[s] = 0 => at[s] > 0 \/ StartNow(s)

LEMMA InTimeElsewhere ==
    ASSUME ThreadsInv, NEW c \in Components, Create(c) \/ Count(c) \/ Begins(c) \/ Quiet(c),
           NEW s \in Children, Father(s) # c
    PROVE  InTime(s)'
<1> USE DEF ThreadsInv
<1>1. PICK d \in Nat : Moves(c, d)
  BY SomeMove
<1>2. ~aborted /\ at[s] \in Nat /\ at[Father(s)] \in Nat /\ Father(s) \in Components
  BY SomeMove, Tree DEF TypeOK, Children
<1>3. InTime(s)
  BY <1>2 DEF StartedInTime, InTime
<1>4. inputCounter'[s] = inputCounter[s]
  <2>1. CASE s = Op(c).sub
    <3>1. Op(c).op \notin {"create", "count"}
      BY <2>1, SomeMove, Parts
    <3>2. Begins(c) \/ Quiet(c)
      BY <3>1, CreateMoves, CountMoves
    <3> QED BY <3>2 DEF Begins, Quiet
  <2> QED BY <2>1, CounterElsewhere
<1>5. Past("create", s)' <=> Past("create", s)
  <2>1. CASE Count(c)
    BY <2>1, PastCounted
  <2>2. CASE ~Count(c)
    BY <2>2, SomeMove, PastMoved
  <2> QED BY <2>1, <2>2
<1>6. at'[s] > 0 <=> at[s] > 0
  <2>1. ~(Begins(c) /\ s = Op(c).sub)
    BY BeginsMoves
  <2> QED BY <2>1, RanBefore
<1>7. StartNow(s) => Now("call", s)' \/ Now("spawn", s)'
  BY <1>1, NowKept DEF StartNow
<1>8. Now("call", s)' \/ Now("spawn", s)' => StartNow(s)
  <2> SUFFICES ASSUME Now("call", s)' \/ Now("spawn", s)', ~StartNow(s) PROVE FALSE
    OBVIOUS
  <2>1. at'[Father(s)] = 1
    BY <1>1, NowWas DEF StartNow
  <2>2. MayStart(program, Father(s), at'[Father(s)] - 1, s)
    BY <1>1, StartNowMeans
  <2> QED BY <2>1, <2>2 DEF MayStart, Does
<1>9. at'[s] \in Nat /\ at'[s] \in Int
  <2>1. at'[s] \in Nat
    BY <1>1 DEF Moves, Children
  <2> QED BY <2>1
<1>10. /\ Now("call", s)' \/ Now("spawn", s)' => Past("create", s)' /\ inputCounter'[s] = 0 /\ at'[s] = 0
       /\ Past("create", s)' /\ inputCounter'[s] = 0 => at'[s] > 0 \/ (Now("call", s)' \/ Now("spawn", s)')
  <2>1. at[s] = 0 => at'[s] = 0
    BY <1>2, <1>6, <1>9
  <2> QED BY <1>3, <1>4, <1>5, <1>6, <1>7, <1>8, <2>1 DEF InTime
<1> QED BY <1>10 DEF InTime, StartNow

LEMMA InTimePrimed ==
    ASSUME ThreadsInv, NEW c \in Components, NEW d, Moves(c, d), NEW s \in Children,
           Now("call", s)' \/ Now("spawn", s)' => Past("create", s)' /\ inputCounter'[s] = 0 /\ at'[s] = 0,
           Past("create", s)' /\ inputCounter'[s] = 0 => at'[s] > 0 \/ Now("call", s)' \/ Now("spawn", s)'
    PROVE  InTime(s)'
BY DEF InTime, StartNow

LEMMA StartNext ==
    ASSUME ThreadsInv, NEW c \in Components, Moves(c, 1), NEW s \in Children, Father(s) = c,
           MayStart(program, c, at[c], s)
    PROVE  Now("call", s)' \/ Now("spawn", s)'
<1> USE DEF ThreadsInv
<1>1. Starts(program, c, at[c] + 1, s)
  BY StartFollows
<1>2. at'[c] = at[c] + 1
  BY DEF Moves
<1>3. Does(program, Father(s), at'[Father(s)], "call", s)
      \/ Does(program, Father(s), at'[Father(s)], "spawn", s)
  BY <1>1, <1>2 DEF Starts
<1> QED BY <1>3, PastMeans

LEMMA InTimeCreate ==
    ASSUME ThreadsInv, NEW c \in Components, Create(c), NEW s \in Children, Father(s) = c
    PROVE  InTime(s)'
<1> USE DEF ThreadsInv
<1>1. /\ Running(c) /\ Op(c).op = "create" /\ Moves(c, 1) /\ at[c] \in Nat /\ at[c] > 0 /\ ~aborted
      /\ at[s] \in Nat /\ at'[s] \in Nat /\ Info(s).inputs \in Nat
  BY CreateMoves, SomeMove, Tree DEF TypeOK, Children, Moves
<1>2. at'[s] > 0 <=> at[s] > 0
  <2>1. ~Begins(c)
    BY <1>1 DEF Begins
  <2> QED BY <2>1, RanBefore
<1>3. Now("call", s)' \/ Now("spawn", s)' => MayStart(program, c, at[c], s)
  <2>1. at'[c] - 1 = at[c]
    BY <1>1 DEF Moves
  <2> QED BY <1>1, <2>1, StartNowMeans
<1>4. CASE s = Op(c).sub
  <2>1. Now("create", s)
    BY <1>1, <1>4, HereSub, Parts
  <2>2. at[s] = 0 /\ at'[s] = 0
    <3>1. ~StartPast(s)
      BY <2>1, NothingBefore, Parts DEF StartPast
    <3>2. ~(at[s] > 0)
      BY <3>1 DEF StartedByFather
    <3> QED BY <1>1, <1>2, <3>2
  <2>3. Past("create", s)'
    BY <1>1, <2>1, PastMoved
  <2>4. inputCounter'[s] = Info(s).inputs
    BY <1>4 DEF Create, TypeOK, Children
  <2>5. MayStart(program, c, at[c], s) <=> Info(s).inputs = 0
    <3>1. Does(program, c, at[c], "create", s)
      BY <1>1, <1>4, Here
    <3>2. ~Does(program, c, at[c], "count", s)
      BY <1>1 DEF Does, Op
    <3> QED BY <3>1, <3>2 DEF MayStart, Info
  <2>6. Info(s).inputs = 0 => Now("call", s)' \/ Now("spawn", s)'
    BY <1>1, <2>5, StartNext
  <2> QED BY <1>1, <1>3, <2>2, <2>3, <2>4, <2>5, <2>6, InTimePrimed
<1>5. CASE s # Op(c).sub
  <2>1. ~(Now("call", s)' \/ Now("spawn", s)')
    BY <1>3, <1>5 DEF MayStart, Does, Op
  <2>2. Past("create", s)' <=> Past("create", s)
    BY <1>1, <1>5, PastMoved, NowHere
  <2>3. inputCounter'[s] = inputCounter[s]
    BY <1>5, CounterElsewhere
  <2>4. ~StartNow(s)
    BY <1>1, NowHere DEF StartNow
  <2>5. Past("create", s) /\ inputCounter[s] = 0 => at[s] > 0
    BY <1>1, <2>4 DEF StartedInTime
  <2> QED BY <1>1, <1>2, <2>1, <2>2, <2>3, <2>5, InTimePrimed
<1> QED BY <1>4, <1>5

LEMMA InTimeCount ==
    ASSUME ThreadsInv, NEW c \in Components, Count(c), ~aborted', NEW s \in Children, Father(s) = c
    PROVE  InTime(s)'
<1> USE DEF ThreadsInv
<1>1. /\ Running(c) /\ Op(c).op = "count" /\ at[c] \in Nat /\ ~aborted /\ Part("count") > 0
      /\ (Skips(c) /\ Moves(c, 3) /\ Starts(program, c, at[c] + 1, Op(c).sub))
         \/ (~Skips(c) /\ Moves(c, 1))
  BY CountMoves, SomeMove, Parts
<1>2. PICK d \in Nat : Moves(c, d)
  BY <1>1
<1>3. at[s] \in Nat /\ at'[s] \in Nat /\ inputCounter[s] \in Int
  BY <1>2 DEF TypeOK, Children, Moves
<1>4. at'[s] > 0 <=> at[s] > 0
  <2>1. ~Begins(c)
    BY <1>1 DEF Begins
  <2> QED BY <2>1, RanBefore
<1>5. Past("create", s)' <=> Past("create", s)
  BY PastCounted
<1>6. Now("call", s)' \/ Now("spawn", s)' => ~Skips(c) /\ MayStart(program, c, at[c], s)
  <2> SUFFICES ASSUME Now("call", s)' \/ Now("spawn", s)'
               PROVE  ~Skips(c) /\ MayStart(program, c, at[c], s)
    OBVIOUS
  <2>1. MayStart(program, c, at'[c] - 1, s)
    BY <1>2, StartNowMeans
  <2>2. CASE Skips(c)
    <3>1. at'[c] - 1 = at[c] + 1 + 1
      BY <1>1, <2>2 DEF Moves
    <3>2. program.code[c][at[c] + 1 + 1].op \in {"enter", "return"}
      BY <1>1, <2>2 DEF Starts, Does, Says
    <3> QED BY <2>1, <3>1, <3>2 DEF MayStart, Does
  <2>3. CASE ~Skips(c)
    <3>1. at'[c] - 1 = at[c]
      BY <1>1, <2>3 DEF Moves
    <3> QED BY <2>1, <2>3, <3>1
  <2> QED BY <2>2, <2>3
<1>7. CASE s = Op(c).sub
  <2>1. Now("count", s) /\ Does(program, c, at[c], "count", s)
    BY <1>1, <1>7, HereSub, Here
  <2>2. Past("create", s)'
    BY <1>5, <2>1, NowCreated, Parts
  <2>3. at'[s] = 0
    <3>1. at[s] = 0
      BY <1>7, NotStarted
    <3> QED BY <1>3, <1>4, <3>1
  <2>4. inputCounter'[s] = inputCounter[s] - 1
    BY <1>7 DEF Count, TypeOK, Children
  <2>5. /\ Op(c).status = "NoLast" => ~(inputCounter[s] - 1 <= 0)
        /\ Op(c).status = "Last" => inputCounter[s] - 1 = 0
    BY <1>7 DEF Count
  <2>6. Op(c).status \in {"Last", "NoLast", "Unknown"}
    <3>1. program.code[c] \in Seq(Operations) /\ DOMAIN program.code[c] = 1 .. Len(program.code[c])
      BY Tree
    <3>2. Op(c) \in Operations
      BY <1>1, <3>1, Here DEF Op
    <3> QED BY <1>1, <3>2 DEF Operations
  <2>7. MayStart(program, c, at[c], s) <=> Op(c).status # "NoLast"
    BY <2>1 DEF MayStart, Does, Op
  <2>8. Now("call", s)' \/ Now("spawn", s)' => inputCounter'[s] = 0
    <3> SUFFICES ASSUME Now("call", s)' \/ Now("spawn", s)' PROVE inputCounter'[s] = 0
      OBVIOUS
    <3>1. ~Skips(c) /\ Op(c).status # "NoLast"
      BY <1>6, <2>7
    <3>2. inputCounter[s] - 1 = 0
      BY <1>7, <2>5, <2>6, <3>1 DEF Skips
    <3> QED BY <2>4, <3>2
  <2>9. inputCounter'[s] = 0 => Now("call", s)' \/ Now("spawn", s)'
    <3> SUFFICES ASSUME inputCounter'[s] = 0 PROVE Now("call", s)' \/ Now("spawn", s)'
      OBVIOUS
    <3>1. inputCounter[s] - 1 = 0
      BY <2>4
    <3>2. ~Skips(c) /\ Op(c).status # "NoLast"
      <4>1. ~Skips(c)
        BY <1>7, <3>1 DEF Skips
      <4>2. inputCounter[s] - 1 <= 0
        BY <3>1
      <4> QED BY <2>5, <4>1, <4>2
    <3> QED BY <1>1, <2>7, <3>2, StartNext
  <2> QED BY <1>2, <2>2, <2>3, <2>8, <2>9, InTimePrimed
<1>8. CASE s # Op(c).sub
  <2>1. ~(Now("call", s)' \/ Now("spawn", s)')
    BY <1>6, <1>8 DEF MayStart, Does, Op
  <2>2. inputCounter'[s] = inputCounter[s]
    BY <1>8, CounterElsewhere
  <2>3. ~StartNow(s)
    BY <1>1, NowHere DEF StartNow
  <2>4. Past("create", s) /\ inputCounter[s] = 0 => at[s] > 0
    BY <1>1, <2>3 DEF StartedInTime
  <2> QED BY <1>2, <1>4, <1>5, <2>1, <2>2, <2>4, InTimePrimed
<1> QED BY <1>7, <1>8

LEMMA InTimePlain ==
    ASSUME ThreadsInv, NEW c \in Components, Begins(c) \/ Quiet(c), NEW s \in Children, Father(s) = c
    PROVE  InTime(s)'
<1> USE DEF ThreadsInv
<1>1. /\ Running(c) /\ Op(c).op \notin {"create", "count"} /\ Moves(c, 1) /\ at[c] \in Nat /\ at[c] > 0
      /\ ~aborted /\ inputCounter' = inputCounter
  BY SomeMove, PlainMoves DEF Begins, Quiet, QuietOps
<1>2. ~(Now("call", s)' \/ Now("spawn", s)')
  <2>1. at'[c] - 1 = at[c]
    BY <1>1 DEF Moves
  <2>2. ~MayStart(program, c, at[c], s)
    BY <1>1 DEF MayStart, Does, Op
  <2> QED BY <1>1, <2>1, <2>2, StartNowMeans
<1>3. Past("create", s)' <=> Past("create", s)
  BY <1>1, PastMoved, NowHere
<1>4. Past("create", s)' /\ inputCounter'[s] = 0 => at'[s] > 0
  <2> SUFFICES ASSUME Past("create", s)', inputCounter'[s] = 0 PROVE at'[s] > 0
    OBVIOUS
  <2>1. at[s] > 0 \/ StartNow(s)
    BY <1>1, <1>3 DEF StartedInTime
  <2>2. CASE at[s] > 0
    BY <2>2, RanBefore
  <2>3. CASE StartNow(s)
    <3>1. Op(c).sub = s /\ Op(c).op \in {"call", "spawn"}
      BY <2>3, NowHere DEF StartNow
    <3>2. Begins(c)
      BY <3>1 DEF Quiet, QuietOps
    <3> QED BY <3>1, <3>2, BeginsMoves
  <2> QED BY <2>1, <2>2, <2>3
<1> QED BY <1>1, <1>2, <1>4, InTimePrimed

LEMMA StartedInTimeKept ==
    ASSUME ThreadsInv, NEW c \in Components, Create(c) \/ Count(c) \/ Begins(c) \/ Quiet(c)
    PROVE  StartedInTime'
<1>1. PICK d \in Nat : Moves(c, d)
  BY SomeMove
<1>2. SUFFICES ASSUME ~aborted' PROVE \A s \in Children : InTime(s)'
  BY <1>1, FatherSame DEF StartedInTime, InTime
<1> QED BY <1>2, InTimeElsewhere, InTimeCreate, InTimeCount, InTimePlain

-----------------------------------------------------------------------------
(* The father of a called component waits. *)

LEMMA FatherWaitsKept ==
    ASSUME ThreadsInv, NEW c \in Components, Create(c) \/ Count(c) \/ Begins(c) \/ Quiet(c)
    PROVE  FatherWaits'
<1> USE DEF ThreadsInv
<1>1. PICK d \in Nat : Moves(c, d)
  BY SomeMove
<1> SUFFICES ASSUME NEW s \in Children, at'[s] > 0, ~Threaded(program, s)
             PROVE  Finished(s)' \/ Now("return", s)'
  BY <1>1, FatherSame DEF FatherWaits, Moves
<1>2. CASE Begins(c) /\ s = Op(c).sub
  <2>1. /\ StartNow(s) /\ Father(s) = c /\ Moves(c, 1) /\ s \in Subs(program, c)
        /\ StartsInPlace(program, c) /\ DOMAIN program.code[c] = 1 .. Len(program.code[c])
    BY <1>2, BeginsMoves, Tree
  <2>2. Does(program, c, at[c], "call", s) \/ Does(program, c, at[c], "spawn", s)
    BY <2>1 DEF StartNow, Now
  <2>3. Starts(program, c, at[c], s)
    BY <2>1, <2>2 DEF StartsInPlace, Does
  <2>4. Does(program, c, at'[c], "return", s)
    BY <2>1, <2>3 DEF Starts, Moves
  <2> QED BY <2>1, <2>4, PastMeans
<1>3. CASE ~(Begins(c) /\ s = Op(c).sub)
  <2>1. Finished(s) \/ Now("return", s)
    BY <1>3, RanBefore DEF FatherWaits
  <2>2. CASE Finished(s)
    BY <1>1, <2>2, FinishedMoved DEF Children
  <2>3. CASE Now("return", s) /\ Father(s) # c
    BY <1>1, <2>3, NowKept
  <2>4. CASE Now("return", s) /\ Father(s) = c
    <3>1. Op(c).op = "return" /\ Op(c).sub = s
      BY <2>4, NowHere
    <3>2. Quiet(c)
      BY <3>1, CreateMoves, CountMoves DEF Begins
    <3>3. Finished(s)
      BY <3>1, <3>2 DEF Quiet
    <3> QED BY <1>1, <3>3, FinishedMoved DEF Children
  <2> QED BY <2>1, <2>2, <2>3, <2>4
<1> QED BY <1>2, <1>3

-----------------------------------------------------------------------------
(* Announcements. *)

LEMMA AnnouncedKept ==
    ASSUME ThreadsInv, NEW c \in Components, NEW d \in Nat, Moves(c, d),
           NEW x, NEW i, Announced(x, i)
    PROVE  Announced(x, i)'
<1> USE DEF ThreadsInv
<1>1. x \in Components /\ at[x] \in Nat /\ at'[x] \in Nat /\ at[x] <= at'[x]
  <2>1. x \in Components
    BY DEF Announced
  <2>2. at[x] \in Nat /\ at'[x] \in Nat
    BY <2>1 DEF TypeOK, Moves
  <2>3. at'[x] = at[x] \/ at'[x] = at[x] + d \/ at[x] = 0
    BY <2>1 DEF Moves
  <2> QED BY <2>1, <2>2, <2>3
<1>2. PICK k \in 1 .. at[x] - 1 : Says(program, x, k, "set") /\ program.code[x][k].signal = i
  BY DEF Announced
<1>3. k \in 1 .. at'[x] - 1
  BY <1>1, <1>2
<1>4. x \in Components' /\ program' = program
  BY <1>1, FatherSame DEF Moves
<1> QED BY <1>2, <1>3, <1>4 DEF Announced

LEMMA FlagsAnnouncedKept ==
    ASSUME ThreadsInv, NEW c \in Components, Create(c) \/ Count(c) \/ Begins(c) \/ Quiet(c)
    PROVE  FlagsAnnounced'
<1> USE DEF ThreadsInv
<1>1. PICK d \in Nat : Moves(c, d)
  BY SomeMove
<1> SUFFICES ASSUME NEW m \in outputIsSet' PROVE Announced(m[1], m[2])'
  BY DEF FlagsAnnounced
<1>2. CASE m \in outputIsSet
  <2>1. Announced(m[1], m[2])
    BY <1>2 DEF FlagsAnnounced
  <2> QED BY <1>1, <2>1, AnnouncedKept
<1>3. CASE m \notin outputIsSet
  <2>1. Quiet(c) /\ Op(c).op = "set" /\ m = <<c, Op(c).signal>>
    BY <1>3 DEF Create, Count, Begins, Quiet
  <2>2. Running(c) /\ at[c] \in Nat /\ at[c] > 0 /\ Moves(c, 1)
    BY <2>1, QuietMoves, SomeMove
  <2>3. Says(program, c, at[c], "set") /\ program.code[c][at[c]].signal = m[2] /\ m[1] = c
    BY <2>1, <2>2, Here DEF Op
  <2>4. at[c] \in 1 .. at'[c] - 1
    BY <2>2 DEF Moves
  <2>5. c \in Components' /\ program' = program
    BY <2>2, FatherSame DEF Moves
  <2> QED BY <2>3, <2>4, <2>5 DEF Announced
<1> QED BY <1>2, <1>3

LEMMA AwaitedAnnouncedKept ==
    ASSUME ThreadsInv, NEW c \in Components, Create(c) \/ Count(c) \/ Begins(c) \/ Quiet(c)
    PROVE  AwaitedAnnounced'
<1> USE DEF ThreadsInv
<1>1. PICK d \in Nat : Moves(c, d)
  BY SomeMove
<1>2. program' = program /\ Components' = Components
  BY <1>1, FatherSame DEF Moves
<1> SUFFICES ASSUME NEW x \in Components, NEW k \in 1 .. at'[x] - 1, Says(program, x, k, "await"),
                    NEW y, NEW i, y = program.code[x][k].sub, i = program.code[x][k].signal
             PROVE  Announced(y, i)'
  BY <1>2 DEF AwaitedAnnounced, Announced
<1>3. at[x] \in Nat /\ at'[x] \in Nat /\ at[c] \in Nat
  BY <1>1 DEF TypeOK, Moves
<1>4. CASE k \in 1 .. at[x] - 1
  <2>1. Announced(y, i)
    BY <1>4 DEF AwaitedAnnounced
  <2> QED BY <1>1, <2>1, AnnouncedKept
<1>5. CASE k \notin 1 .. at[x] - 1
  <2>1. x = c
    <3>1. SUFFICES ASSUME x # c PROVE FALSE
      OBVIOUS
    <3>2. at'[x] = at[x] \/ at'[x] = 1
      BY <1>1, <3>1 DEF Moves
    <3> QED BY <1>3, <1>5, <3>2
  <2>2. CASE Moves(c, 1)
    <3>1. k = at[c]
      BY <1>3, <1>5, <2>1, <2>2 DEF Moves
    <3>2. Op(c).op = "await"
      BY <2>1, <3>1 DEF Says, Op
    <3>3. Quiet(c)
      BY <3>2, CreateMoves, CountMoves DEF Begins
    <3>4. <<Op(c).sub, Op(c).signal>> \in outputIsSet
      BY <3>2, <3>3 DEF Quiet
    <3>5. Announced(Op(c).sub, Op(c).signal)
      BY <3>4 DEF FlagsAnnounced
    <3>6. Announced(y, i)
      BY <2>1, <3>1, <3>5 DEF Op
    <3> QED BY <1>1, <3>6, AnnouncedKept
  <2>3. CASE Count(c) /\ Moves(c, 3)
    <3>1. Op(c).op = "count" /\ Starts(program, c, at[c] + 1, Op(c).sub)
      <4>1. ~Moves(c, 1)
        BY <1>3, <2>3 DEF Moves
      <4> QED BY <2>3, <4>1, CountMoves
    <3>2. /\ program.code[c][at[c]].op = "count"
          /\ program.code[c][at[c] + 1].op \in {"spawn", "call"}
          /\ program.code[c][at[c] + 1 + 1].op \in {"enter", "return"}
      BY <3>1 DEF Op, Starts, Does, Says
    <3>3. k = at[c] \/ k = at[c] + 1 \/ k = at[c] + 1 + 1
      BY <1>3, <1>5, <2>1, <2>3 DEF Moves
    <3> QED BY <2>1, <3>2, <3>3 DEF Says
  <2> QED BY <2>2, <2>3, SomeMove
<1> QED BY <1>4, <1>5

-----------------------------------------------------------------------------
(* Joins and releases. *)

(* Nothing joined or released is started now. *)
LEMMA StartedBefore ==
    ASSUME ThreadsInv, NEW c \in Components, Create(c) \/ Count(c) \/ Begins(c) \/ Quiet(c),
           NEW s \in Children, at'[s] > 0, NEW op \in {"join", "free"}, Past(op, s)
    PROVE  at[s] > 0
<1> USE DEF ThreadsInv
<1>1. SUFFICES ASSUME Begins(c), s = Op(c).sub PROVE FALSE
  BY RanBefore
<1>2. Now("call", s) \/ Now("spawn", s)
  BY <1>1, BeginsMoves DEF StartNow
<1>3. /\ Part("call") > 0 /\ Part("call") < Part(op)
      /\ Part("spawn") > 0 /\ Part("spawn") < Part(op)
  BY Parts
<1> QED BY <1>2, <1>3, PastBeforeNow

(* What a join or a release that is past was, before the step. *)
LEMMA PastOrNow ==
    ASSUME ThreadsInv, NEW c \in Components, Create(c) \/ Count(c) \/ Begins(c) \/ Quiet(c),
           NEW s \in Children, NEW op \in {"join", "free"}, Past(op, s)'
    PROVE  \/ Past(op, s)
           \/ Quiet(c) /\ Father(s) = c /\ Now(op, s) /\ Op(c).op = op /\ Op(c).sub = s
<1> USE DEF ThreadsInv
<1>1. CASE Count(c)
  BY <1>1, PastCounted
<1>2. CASE ~Count(c)
  <2>1. Past(op, s) \/ (Father(s) = c /\ Now(op, s))
    BY <1>2, SomeMove, PastMoved
  <2>2. ASSUME Father(s) = c, Now(op, s) PROVE Quiet(c) /\ Op(c).op = op /\ Op(c).sub = s
    <3>1. Op(c).op = op /\ Op(c).sub = s
      BY <2>2, NowHere
    <3> QED BY <3>1, CreateMoves, CountMoves DEF Begins
  <2> QED BY <2>1, <2>2
<1> QED BY <1>1, <1>2

LEMMA JoinedFinishedKept ==
    ASSUME ThreadsInv, NEW c \in Components, Create(c) \/ Count(c) \/ Begins(c) \/ Quiet(c)
    PROVE  JoinedFinished'
<1> USE DEF ThreadsInv
<1>1. PICK d \in Nat : Moves(c, d)
  BY SomeMove
<1> SUFFICES ASSUME NEW s \in Children, at'[s] > 0
             PROVE  /\ Past("join", s)' /\ Info(s).parallel => Finished(s)
                    /\ Past("free", s)' => Finished(s)
  BY <1>1, FatherSame, FinishedMoved DEF JoinedFinished, Children
<1>2. ASSUME Past("join", s)', Info(s).parallel PROVE Finished(s)
  <2>1. CASE Past("join", s)
    BY <1>2, <2>1, StartedBefore DEF JoinedFinished
  <2>2. CASE ~Past("join", s)
    <3>1. Quiet(c) /\ Op(c).op = "join" /\ Op(c).sub = s
      BY <1>2, <2>2, PastOrNow
    <3>2. at[s] > 0
      BY <3>1, RanBefore DEF Begins
    <3>3. starts[s] = 1
      BY <3>2 DEF TypeOK, Children
    <3>4. starts[s] > 0
      BY <3>3
    <3> QED BY <1>2, <3>1, <3>4 DEF Quiet
  <2> QED BY <2>1, <2>2
<1>3. ASSUME Past("free", s)' PROVE Finished(s)
  <2>1. CASE Past("free", s)
    BY <2>1, StartedBefore DEF JoinedFinished
  <2>2. CASE ~Past("free", s)
    <3>1. Quiet(c) /\ Father(s) = c /\ Now("free", s) /\ Op(c).op = "free" /\ Op(c).sub = s
      BY <1>3, <2>2, PastOrNow
    <3>2. at[s] > 0
      BY <3>1, RanBefore DEF Begins
    <3>3. CASE Info(s).parallel
      <4>1. PartsInOrder(program, c) /\ s \in Subs(program, c)
            /\ DOMAIN program.code[c] = 1 .. Len(program.code[c]) /\ at[c] \in Nat
        BY <3>1, Tree DEF TypeOK
      <4>2. PICK k \in DOMAIN program.code[c] : Does(program, c, k, "join", s)
        BY <3>3, <4>1 DEF PartsInOrder, Info
      <4>3. k < at[c]
        BY <3>1, <4>2, Ordered, Parts DEF Now
      <4>4. Past("join", s)
        BY <3>1, <4>1, <4>2, <4>3 DEF Past
      <4> QED BY <3>2, <3>3, <4>4 DEF JoinedFinished
    <3>4. CASE ~Info(s).parallel
      <4>1. ~Threaded(program, s)
        BY <3>4 DEF Threaded, Info
      <4>2. ~Now("return", s)
        BY <3>1, NowHere
      <4> QED BY <3>2, <4>1, <4>2 DEF FatherWaits
    <3> QED BY <3>3, <3>4
  <2> QED BY <2>1, <2>2
<1> QED BY <1>2, <1>3

LEMMA MemoryOwnedKept ==
    ASSUME ThreadsInv, NEW c \in Components, Create(c) \/ Count(c) \/ Begins(c) \/ Quiet(c)
    PROVE  MemoryOwned'
<1> USE DEF ThreadsInv
<1>1. PICK d \in Nat : Moves(c, d)
  BY SomeMove
<1>2. Main \in memory'
  <2>1. Main \in memory
    BY DEF MemoryOwned
  <2>2. CASE Quiet(c) /\ Op(c).op = "free"
    <3>1. Op(c).sub # Main
      BY <2>2, HereSub, Parts DEF Children, Quiet
    <3> QED BY <2>1, <2>2, <3>1 DEF Quiet
  <2> QED BY <2>1, <2>2 DEF Create, Count, Begins, Quiet
<1>3. ASSUME NEW s \in Children
      PROVE  s \in memory' <=> Past("create", s)' /\ ~Past("free", s)'
  <2>1. s \in memory <=> Past("create", s) /\ ~Past("free", s)
    BY DEF MemoryOwned
  <2>2. CASE Count(c)
    BY <2>1, <2>2, PastCounted DEF Count
  <2>3. CASE ~Count(c)
    <3>1. Running(c) /\ at[c] > 0 /\ Moves(c, 1)
      BY <2>3, SomeMove
    <3>2. /\ Past("create", s)' <=> Past("create", s) \/ (Father(s) = c /\ Now("create", s))
          /\ Past("free", s)' <=> Past("free", s) \/ (Father(s) = c /\ Now("free", s))
      BY <3>1, PastMoved
    <3>3. ASSUME NEW op, Part(op) > 0
          PROVE  Father(s) = c /\ Now(op, s) <=> Op(c).op = op /\ Op(c).sub = s
      BY <3>1, <3>3, NowHere, HereSub
    <3>4. CASE Create(c)
      <4>1. Op(c).op = "create" /\ memory' = memory \union {Op(c).sub}
        BY <3>4, CreateMoves DEF Create
      <4>2. s = Op(c).sub => ~Past("free", s)
        BY <3>3, <4>1, NothingBefore, Parts
      <4> QED BY <2>1, <3>2, <3>3, <4>1, <4>2, Parts
    <3>5. CASE Begins(c)
      <4>1. Op(c).op \in {"call", "spawn"} /\ memory' = memory
        BY <3>5 DEF Begins
      <4> QED BY <2>1, <3>2, <3>3, <4>1, Parts
    <3>6. CASE Quiet(c)
      <4>1. Op(c).op # "create" /\ memory' = IF Op(c).op = "free" THEN memory \ {Op(c).sub} ELSE memory
        BY <3>6 DEF Quiet, QuietOps
      <4> QED BY <2>1, <3>2, <3>3, <4>1, Parts
    <3> QED BY <2>3, <3>4, <3>5, <3>6
  <2> QED BY <2>2, <2>3
<1> QED BY <1>1, <1>2, <1>3, FatherSame DEF MemoryOwned

-----------------------------------------------------------------------------
(* Slots. *)

LEMMA SlotsMean ==
    ASSUME NEW c, NEW d, Moves(c, d)
    PROVE  /\ \A s : s \in Taken' <=> s \in Children /\ Threaded(program, s) /\ at'[s] > 0 /\ ~Entering(s)'
           /\ \A s : Entering(s)' <=> Does(program, Father(s), at'[Father(s)] - 1, "spawn", s)
           /\ GaveBack' = {x \in Components : \E k \in 1 .. at'[x] - 1 : LeavesForGood(program, x, k)}
           /\ Away' = {x \in Components : \E k \in 1 .. at'[x] - 1 : Waits(program, x, k) /\ at'[x] <= k + 3}
<1>1. program' = program /\ Components' = Components /\ Children' = Children
      /\ \A s : Father(s)' = Father(s)
  BY FatherSame DEF Moves
<1> QED BY <1>1 DEF Taken, Entering, GaveBack, Away

LEMMA SlotsFinite ==
    ASSUME TypeOK
    PROVE  IsFiniteSet(Taken) /\ IsFiniteSet(GaveBack) /\ IsFiniteSet(Away)
<1>1. IsFiniteSet(Components)
  BY Tree
<1>2. Taken \subseteq Components /\ GaveBack \subseteq Components /\ Away \subseteq Components
  BY DEF Taken, GaveBack, Away, Children
<1> QED BY <1>1, <1>2, FS_Subset

(* A component that does not move keeps what it has of the slots. *)
LEMMA SlotsElsewhere ==
    ASSUME ThreadsInv, NEW c \in Components, NEW d \in Nat, Moves(c, d), NEW x \in Components \ {c}
    PROVE  /\ x \in GaveBack' <=> x \in GaveBack
           /\ x \in Away' <=> x \in Away
<1> USE DEF ThreadsInv
<1>1. at[x] \in Nat /\ (at'[x] = at[x] \/ (at[x] = 0 /\ at'[x] = 1))
  BY DEF TypeOK, Moves
<1>2. 1 .. at'[x] - 1 = 1 .. at[x] - 1
  BY <1>1
<1>3. \A k \in 1 .. at[x] - 1 : at'[x] = at[x]
  BY <1>1
<1> QED BY <1>2, <1>3, SlotsMean DEF GaveBack, Away

LEMMA EnteringElsewhere ==
    ASSUME ThreadsInv, NEW c \in Components, NEW d \in Nat, Moves(c, d), NEW s \in Children, Father(s) # c
    PROVE  Entering(s)' <=> Entering(s)
<1> USE DEF ThreadsInv
<1>1. Father(s) \in Components \ {c} /\ at[Father(s)] \in Nat
  BY Tree DEF TypeOK
<1>2. at'[Father(s)] = at[Father(s)] \/ (at[Father(s)] = 0 /\ at'[Father(s)] = 1)
  BY <1>1 DEF Moves
<1>3. CASE at'[Father(s)] = at[Father(s)]
  BY <1>3, SlotsMean DEF Entering
<1>4. CASE at[Father(s)] = 0 /\ at'[Father(s)] = 1
  <2>1. at[Father(s)] - 1 < 1 /\ at'[Father(s)] - 1 < 1
    BY <1>4
  <2> QED BY <2>1, SlotsMean DEF Entering, Does
<1> QED BY <1>2, <1>3, <1>4

LEMMA EnteringMeans ==
    ASSUME ThreadsInv, NEW c \in Components, Running(c), NEW s \in Children, Father(s) = c, Entering(s)
    PROVE  Op(c).op = "enter" /\ Threaded(program, s)
<1> USE DEF ThreadsInv
<1>1. /\ Does(program, c, at[c] - 1, "spawn", s) /\ StartsInPlace(program, c) /\ s \in Subs(program, c)
      /\ DOMAIN program.code[c] = 1 .. Len(program.code[c]) /\ at[c] \in Nat
  BY Tree DEF Entering, TypeOK
<1>2. Starts(program, c, at[c] - 1, s)
  BY <1>1 DEF StartsInPlace, Does
<1>3. Threaded(program, s) /\ Says(program, c, at[c] - 1 + 1, "enter")
  BY <1>1, <1>2 DEF Starts, Does
<1>4. at[c] - 1 + 1 = at[c]
  BY <1>1
<1> QED BY <1>3, <1>4 DEF Says, Op

LEMMA EnteringMoved ==
    ASSUME ThreadsInv, NEW c \in Components, Running(c), Moves(c, 1), NEW s \in Children, Father(s) = c
    PROVE  Entering(s)' <=> Op(c).op = "spawn" /\ Op(c).sub = s
<1> USE DEF ThreadsInv
<1>1. at'[c] - 1 = at[c]
  BY DEF Moves, TypeOK
<1>2. Entering(s)' <=> Does(program, c, at[c], "spawn", s)
  BY <1>1, SlotsMean
<1> QED BY <1>2, Here DEF Does, Op

(* What a step gives up and takes back. *)
LEMMA GaveBackMoved ==
    ASSUME ThreadsInv, NEW c \in Components, Running(c), Moves(c, 1)
    PROVE  /\ c \in GaveBack' <=> c \in GaveBack \/ LeavesForGood(program, c, at[c])
           /\ LeavesForGood(program, c, at[c]) => c \notin GaveBack
<1> USE DEF ThreadsInv
<1>1. /\ at[c] \in Nat /\ at[c] > 0 /\ at'[c] = at[c] + 1
      /\ SlotsPaired(program, c) /\ DOMAIN program.code[c] = 1 .. Len(program.code[c])
  BY Tree DEF Moves, TypeOK, Running
<1>2. 1 .. at'[c] - 1 = (1 .. at[c] - 1) \union {at[c]}
  BY <1>1
<1>3. c \in GaveBack' <=> c \in GaveBack \/ LeavesForGood(program, c, at[c])
  BY <1>2, SlotsMean DEF GaveBack
<1>4. ASSUME LeavesForGood(program, c, at[c]), c \in GaveBack PROVE FALSE
  <2>1. PICK k \in 1 .. at[c] - 1 : LeavesForGood(program, c, k)
    BY <1>4 DEF GaveBack
  <2>2. k \in DOMAIN program.code[c] /\ at[c] \in DOMAIN program.code[c]
    BY <1>1, <1>4, <2>1 DEF LeavesForGood, Says
  <2>3. k = at[c]
    BY <1>1, <1>4, <2>1, <2>2 DEF SlotsPaired
  <2> QED BY <1>1, <2>1, <2>3
<1> QED BY <1>3, <1>4

LEMMA AwayMeans ==
    ASSUME ThreadsInv, NEW c \in Components, Running(c)
    PROVE  /\ c \in Away => Op(c).op \in {"notifyOne", "await", "enter"}
           /\ c \in Away /\ Op(c).op = "enter" => Says(program, c, at[c] - 1, "await")
           /\ c \in Away /\ Op(c).op # "enter" => \E k \in 1 .. at[c] - 1 : Waits(program, c, k) /\ at[c] < k + 3
<1> USE DEF ThreadsInv
<1>1. at[c] \in Nat
  BY DEF TypeOK
<1> SUFFICES ASSUME c \in Away
             PROVE  \/ Op(c).op \in {"notifyOne", "await"}
                       /\ \E k \in 1 .. at[c] - 1 : Waits(program, c, k) /\ at[c] < k + 3
                    \/ Op(c).op = "enter" /\ Says(program, c, at[c] - 1, "await")
  OBVIOUS
<1>2. PICK k \in 1 .. at[c] - 1 : Waits(program, c, k) /\ at[c] <= k + 3
  BY DEF Away
<1>3. at[c] = k + 1 \/ at[c] = k + 2 \/ at[c] = k + 3
  BY <1>1, <1>2
<1>4. /\ Says(program, c, k + 1, "notifyOne") /\ Says(program, c, k + 2, "await")
      /\ Says(program, c, k + 3, "enter")
  BY <1>2 DEF Waits
<1>5. CASE at[c] = k + 1 \/ at[c] = k + 2
  <2>1. at[c] < k + 3
    BY <1>2, <1>5
  <2> QED BY <1>2, <1>4, <1>5, <2>1 DEF Says, Op
<1>6. CASE at[c] = k + 3
  <2>1. at[c] - 1 = k + 2
    BY <1>2, <1>6
  <2> QED BY <1>4, <1>6, <2>1 DEF Says, Op
<1> QED BY <1>3, <1>5, <1>6

LEMMA AwayMoved ==
    ASSUME ThreadsInv, NEW c \in Components, Running(c), Moves(c, 1)
    PROVE  c \in Away' <=> Waits(program, c, at[c]) \/ (c \in Away /\ Op(c).op # "enter")
<1> USE DEF ThreadsInv
<1>1. at[c] \in Nat /\ at[c] > 0 /\ at'[c] = at[c] + 1
  BY DEF Moves, TypeOK, Running
<1>2. c \in Away' <=> \E k \in 1 .. at[c] : Waits(program, c, k) /\ at[c] < k + 3
  <2>1. c \in Away' <=> \E k \in 1 .. at'[c] - 1 : Waits(program, c, k) /\ at'[c] <= k + 3
    BY SlotsMean
  <2>2. 1 .. at'[c] - 1 = 1 .. at[c]
    BY <1>1
  <2>3. \A k \in 1 .. at[c] : at'[c] <= k + 3 <=> at[c] < k + 3
    BY <1>1
  <2> QED BY <2>1, <2>2, <2>3
<1>3. ASSUME Waits(program, c, at[c]) PROVE c \in Away'
  <2>1. at[c] \in 1 .. at[c] /\ at[c] < at[c] + 3
    BY <1>1
  <2> QED BY <1>2, <1>3, <2>1
<1>4. ASSUME c \in Away, Op(c).op # "enter" PROVE c \in Away'
  <2>1. PICK k \in 1 .. at[c] - 1 : Waits(program, c, k) /\ at[c] < k + 3
    BY <1>4, AwayMeans
  <2>2. k \in 1 .. at[c]
    BY <1>1, <2>1
  <2> QED BY <1>2, <2>1, <2>2
<1>5. ASSUME c \in Away', ~Waits(program, c, at[c]) PROVE c \in Away /\ Op(c).op # "enter"
  <2>1. PICK k \in 1 .. at[c] : Waits(program, c, k) /\ at[c] < k + 3
    BY <1>2, <1>5
  <2>2. k # at[c]
    BY <1>5, <2>1
  <2>3. k \in 1 .. at[c] - 1 /\ at[c] <= k + 3 /\ (at[c] = k + 1 \/ at[c] = k + 2)
    BY <1>1, <2>1, <2>2
  <2>4. c \in Away
    BY <2>1, <2>3 DEF Away
  <2>5. Op(c).op # "enter"
    BY <2>1, <2>3 DEF Waits, Says, Op
  <2> QED BY <2>4, <2>5
<1> QED BY <1>3, <1>4, <1>5

LEMMA SlotsOthers ==
    ASSUME ThreadsInv, NEW c \in Components, Running(c), Moves(c, 1),
           Op(c).op \notin {"enter", "leave"}
    PROVE  GaveBack' = GaveBack /\ Away' = Away
<1>1. ~LeavesForGood(program, c, at[c]) /\ ~Waits(program, c, at[c])
  BY DEF LeavesForGood, Waits, Says, Op
<1>2. GaveBack' \subseteq Components /\ Away' \subseteq Components
      /\ GaveBack \subseteq Components /\ Away \subseteq Components
  BY SlotsMean DEF GaveBack, Away
<1>3. c \in GaveBack' <=> c \in GaveBack
  BY <1>1, GaveBackMoved
<1>4. c \in Away' <=> c \in Away
  BY <1>1, AwayMoved
<1>5. \A x \in Components \ {c} : (x \in GaveBack' <=> x \in GaveBack) /\ (x \in Away' <=> x \in Away)
  BY SlotsElsewhere
<1> QED BY <1>2, <1>3, <1>4, <1>5

LEMMA TakenOthers ==
    ASSUME ThreadsInv, NEW c \in Components, Create(c) \/ Count(c) \/ Begins(c) \/ Quiet(c),
           NEW s \in Children, s \in Taken' <=> s \notin Taken
    PROVE  Op(c).op = "enter" /\ Father(s) = c /\ s \notin Taken /\ Entering(s)
<1> USE DEF ThreadsInv
<1>1. Running(c) /\ at[c] > 0 /\ \E d \in Nat : Moves(c, d)
  BY SomeMove
<1>2. PICK d \in Nat : Moves(c, d)
  BY <1>1
<1>3. /\ s \in Taken' <=> Threaded(program, s) /\ at'[s] > 0 /\ ~Entering(s)'
      /\ s \in Taken <=> Threaded(program, s) /\ at[s] > 0 /\ ~Entering(s)
  BY <1>2, SlotsMean DEF Taken
<1>4. Threaded(program, s)
  BY <1>3
<1>5. CASE Begins(c) /\ s = Op(c).sub
  <2>1. /\ Father(s) = c /\ at[s] = 0 /\ Moves(c, 1) /\ s \in Subs(program, c)
        /\ Does(program, c, at[c], "call", s) \/ Does(program, c, at[c], "spawn", s)
        /\ StartsInPlace(program, c) /\ DOMAIN program.code[c] = 1 .. Len(program.code[c])
    BY <1>5, BeginsMoves, Tree DEF StartNow, Now
  <2>2. Starts(program, c, at[c], s)
    BY <2>1 DEF StartsInPlace, Does
  <2>3. Op(c).op = "spawn"
    BY <1>4, <2>2 DEF Starts, Does, Op
  <2>4. Entering(s)'
    BY <1>1, <1>5, <2>1, <2>3, EnteringMoved
  <2>5. s \notin Taken /\ s \notin Taken'
    BY <1>3, <2>1, <2>4
  <2> QED BY <2>5
<1>6. CASE ~(Begins(c) /\ s = Op(c).sub)
  <2>1. at'[s] > 0 <=> at[s] > 0
    BY <1>6, RanBefore
  <2>2. ~(Entering(s)' <=> Entering(s))
    BY <1>3, <2>1
  <2>3. Father(s) = c
    BY <1>2, <2>2, EnteringElsewhere
  <2>4. ~Entering(s)'
    <3>1. CASE Moves(c, 1)
      <4>1. SUFFICES ASSUME Entering(s)' PROVE FALSE
        OBVIOUS
      <4>2. Op(c).op = "spawn" /\ Op(c).sub = s
        BY <1>1, <2>3, <3>1, <4>1, EnteringMoved
      <4>3. Begins(c)
        BY <4>2, CreateMoves, CountMoves DEF Quiet, QuietOps
      <4> QED BY <1>6, <4>2, <4>3
    <3>2. CASE Count(c) /\ ~Moves(c, 1)
      <4>1. Moves(c, 3) /\ Starts(program, c, at[c] + 1, Op(c).sub)
        BY <3>2, CountMoves
      <4>2. at'[c] - 1 = at[c] + 1 + 1
        BY <4>1 DEF Moves, TypeOK
      <4>3. ~Does(program, c, at[c] + 1 + 1, "spawn", s)
        BY <4>1 DEF Starts, Does, Says
      <4> QED BY <2>3, <4>1, <4>2, <4>3, SlotsMean
    <3> QED BY <3>1, <3>2, SomeMove
  <2>5. Entering(s)
    BY <2>2, <2>4
  <2> QED BY <1>1, <1>3, <2>3, <2>5, EnteringMeans
<1> QED BY <1>5, <1>6

LEMMA TakenSame ==
    ASSUME ThreadsInv, NEW c \in Components, Create(c) \/ Count(c) \/ Begins(c) \/ Quiet(c),
           Op(c).op # "enter" \/ ~Says(program, c, at[c] - 1, "spawn")
    PROVE  Taken' = Taken
<1>1. PICK d \in Nat : Moves(c, d)
  BY SomeMove
<1>2. Taken' \subseteq Children /\ Taken \subseteq Children
  BY <1>1, SlotsMean DEF Taken
<1>3. ASSUME NEW s \in Children PROVE s \in Taken' <=> s \in Taken
  <2>1. SUFFICES ASSUME s \in Taken' <=> s \notin Taken PROVE FALSE
    OBVIOUS
  <2>2. Op(c).op = "enter" /\ Father(s) = c /\ Entering(s)
    BY <2>1, TakenOthers
  <2> QED BY <2>2 DEF Entering, Does, Says
<1> QED BY <1>2, <1>3

LEMMA SlotsCounting ==
    ASSUME ThreadsInv, NEW c \in Components, Count(c)
    PROVE  GaveBack' = GaveBack /\ Away' = Away
<1> USE DEF ThreadsInv
<1>1. Running(c) /\ at[c] \in Nat /\ Op(c).op = "count"
  BY CountMoves, SomeMove
<1>2. CASE Moves(c, 1)
  BY <1>1, <1>2, SlotsOthers
<1>3. CASE ~Moves(c, 1)
  <2>1. Moves(c, 3) /\ Starts(program, c, at[c] + 1, Op(c).sub)
    BY <1>3, CountMoves
  <2>2. /\ ~Says(program, c, at[c], "leave") /\ ~Says(program, c, at[c] + 1, "leave")
        /\ ~Says(program, c, at[c] + 1 + 1, "leave")
    BY <1>1, <2>1 DEF Starts, Does, Says, Op
  <2>3. 1 .. at'[c] - 1 = (1 .. at[c] - 1) \union {at[c], at[c] + 1, at[c] + 1 + 1}
        /\ at'[c] = at[c] + 3
    BY <1>1, <2>1 DEF Moves, TypeOK, Running
  <2>4. c \in GaveBack' <=> c \in GaveBack
    BY <2>1, <2>2, <2>3, SlotsMean DEF GaveBack, LeavesForGood
  <2>5. c \notin Away
    BY <1>1, AwayMeans
  <2>6. c \notin Away'
    <3>1. SUFFICES ASSUME c \in Away' PROVE FALSE
      OBVIOUS
    <3>2. PICK k \in 1 .. at'[c] - 1 : Waits(program, c, k) /\ at'[c] <= k + 3
      BY <2>1, <3>1, SlotsMean
    <3>3. k \in {at[c], at[c] + 1, at[c] + 1 + 1}
      BY <1>1, <2>3, <3>2
    <3> QED BY <2>2, <3>2, <3>3 DEF Waits
  <2>7. GaveBack' \subseteq Components /\ Away' \subseteq Components
        /\ GaveBack \subseteq Components /\ Away \subseteq Components
    BY <2>1, SlotsMean DEF GaveBack, Away
  <2>8. \A x \in Components \ {c} : (x \in GaveBack' <=> x \in GaveBack) /\ (x \in Away' <=> x \in Away)
    BY <2>1, SlotsElsewhere
  <2> QED BY <2>4, <2>5, <2>6, <2>7, <2>8
<1> QED BY <1>2, <1>3

(* A slot is taken. *)
LEMMA SlotsEntered ==
    ASSUME ThreadsInv, NEW c \in Components, Quiet(c), Op(c).op = "enter"
    PROVE  /\ GaveBack' = GaveBack
           /\ \/ Away' = Away /\ \E s \in Components \ Taken : Taken' = Taken \union {s}
              \/ Taken' = Taken /\ c \in Away /\ Away' = Away \ {c}
<1> USE DEF ThreadsInv
<1>1. /\ Running(c) /\ Moves(c, 1) /\ at[c] \in Nat /\ SlotsPaired(program, c)
      /\ Says(program, c, at[c], "enter") /\ DOMAIN program.code[c] = 1 .. Len(program.code[c])
  BY QuietMoves, SomeMove, Tree, Here
<1>2. GaveBack' \subseteq Components /\ Away' \subseteq Components
      /\ GaveBack \subseteq Components /\ Away \subseteq Components
      /\ Taken' \subseteq Children /\ Taken \subseteq Children
  BY <1>1, SlotsMean DEF GaveBack, Away, Taken
<1>3. \A x \in Components \ {c} : (x \in GaveBack' <=> x \in GaveBack) /\ (x \in Away' <=> x \in Away)
  BY <1>1, SlotsElsewhere
<1>4. ~LeavesForGood(program, c, at[c]) /\ ~Waits(program, c, at[c])
  BY <1>1 DEF LeavesForGood, Waits, Says
<1>5. GaveBack' = GaveBack
  BY <1>1, <1>2, <1>3, <1>4, GaveBackMoved
<1>6. c \notin Away'
  BY <1>1, <1>4, AwayMoved
<1>7. Says(program, c, at[c] - 1, "spawn") \/ Says(program, c, at[c] - 1, "await")
  BY <1>1 DEF SlotsPaired, Says
<1>8. CASE Says(program, c, at[c] - 1, "spawn")
  <2>1. c \notin Away
    BY <1>1, <1>8, AwayMeans DEF Says
  <2>2. PICK s : Does(program, c, at[c] - 1, "spawn", s)
    BY <1>8 DEF Says, Does
  <2>3. s \in Children /\ Father(s) = c
    BY <2>2, Owned, Parts
  <2>4. Entering(s)
    BY <2>2, <2>3 DEF Entering
  <2>5. at[s] > 0 /\ Threaded(program, s)
    BY <1>1, <2>3, <2>4, EnteringMeans DEF SlotsCounted
  <2>6. s \notin Taken /\ s \in Taken'
    <3>1. ~Entering(s)'
      BY <1>1, <2>3, EnteringMoved
    <3>2. at'[s] > 0
      BY <2>3, <2>5, RanBefore
    <3> QED BY <1>1, <2>3, <2>4, <2>5, <3>1, <3>2, SlotsMean DEF Taken
  <2>7. ASSUME NEW x \in Children, x \in Taken' <=> x \notin Taken PROVE x = s
    <3>1. Father(x) = c /\ Entering(x)
      BY <2>7, TakenOthers
    <3> QED BY <2>2, <3>1 DEF Entering, Does
  <2>8. Taken' = Taken \union {s}
    BY <1>2, <2>6, <2>7
  <2>9. s \in Components \ Taken
    BY <2>3, <2>6 DEF Children
  <2> QED BY <1>2, <1>3, <1>5, <1>6, <2>1, <2>8, <2>9
<1>9. CASE Says(program, c, at[c] - 1, "await")
  <2>1. ~Says(program, c, at[c] - 1, "spawn")
    BY <1>9 DEF Says
  <2>2. Taken' = Taken
    BY <2>1, TakenSame
  <2>3. Waits(program, c, at[c] - 1 - 2)
    BY <1>1, <1>9 DEF SlotsPaired, Says
  <2>4. at[c] - 1 - 2 \in 1 .. at[c] - 1 /\ at[c] <= at[c] - 1 - 2 + 3
    <3>1. at[c] - 1 - 2 \in 1 .. Len(program.code[c])
      BY <2>3 DEF Waits, Says
    <3>2. at[c] \in Nat
      BY <1>1
    <3> QED BY <3>1, <3>2
  <2>5. c \in Away
    BY <2>3, <2>4 DEF Away
  <2>6. Away' = Away \ {c}
    BY <1>2, <1>3, <1>6, <2>5
  <2> QED BY <1>5, <2>2, <2>5, <2>6
<1> QED BY <1>7, <1>8, <1>9

(* A slot is given up. *)
LEMMA SlotsLeft ==
    ASSUME ThreadsInv, NEW c \in Components, Quiet(c), Op(c).op = "leave"
    PROVE  /\ Taken' = Taken
           /\ \/ Away' = Away /\ c \notin GaveBack /\ GaveBack' = GaveBack \union {c}
              \/ GaveBack' = GaveBack /\ c \notin Away /\ Away' = Away \union {c}
<1> USE DEF ThreadsInv
<1>1. Running(c) /\ Moves(c, 1) /\ Says(program, c, at[c], "leave")
  BY QuietMoves, SomeMove, Here
<1>2. Taken' = Taken
  BY TakenSame
<1>3. GaveBack' \subseteq Components /\ Away' \subseteq Components
      /\ GaveBack \subseteq Components /\ Away \subseteq Components
  BY <1>1, SlotsMean DEF GaveBack, Away
<1>4. \A x \in Components \ {c} : (x \in GaveBack' <=> x \in GaveBack) /\ (x \in Away' <=> x \in Away)
  BY <1>1, SlotsElsewhere
<1>5. c \notin Away
  BY <1>1, AwayMeans
<1>6. CASE Waits(program, c, at[c])
  <2>1. c \in GaveBack' <=> c \in GaveBack
    BY <1>1, <1>6, GaveBackMoved DEF LeavesForGood
  <2>2. c \in Away'
    BY <1>1, <1>6, AwayMoved
  <2> QED BY <1>2, <1>3, <1>4, <1>5, <2>1, <2>2
<1>7. CASE ~Waits(program, c, at[c])
  <2>1. LeavesForGood(program, c, at[c])
    BY <1>1, <1>7 DEF LeavesForGood
  <2>2. c \in GaveBack' /\ c \notin GaveBack
    BY <1>1, <2>1, GaveBackMoved
  <2>3. c \notin Away'
    BY <1>1, <1>5, <1>7, AwayMoved
  <2> QED BY <1>2, <1>3, <1>4, <1>5, <2>2, <2>3
<1> QED BY <1>6, <1>7

LEMMA SlotsCountedKept ==
    ASSUME ThreadsInv, NEW c \in Components, Create(c) \/ Count(c) \/ Begins(c) \/ Quiet(c)
    PROVE  SlotsCounted'
<1> USE DEF ThreadsInv
<1>1. PICK d \in Nat : Moves(c, d)
  BY SomeMove
<1> DEFINE T == Cardinality(Taken)   G == Cardinality(GaveBack)   A == Cardinality(Away)
<1>2. IsFiniteSet(Taken) /\ IsFiniteSet(GaveBack) /\ IsFiniteSet(Away)
  BY SlotsFinite
<1>3. T \in Nat /\ G \in Nat /\ A \in Nat /\ numThread = T - G - A
  BY <1>2, FS_CardinalityType DEF SlotsCounted
<1>4. numThread' = Cardinality(Taken') - Cardinality(GaveBack') - Cardinality(Away')
  <2>1. CASE Count(c)
    <3>1. Taken' = Taken /\ GaveBack' = GaveBack /\ Away' = Away /\ numThread' = numThread
      <4>1. Op(c).op # "enter" /\ numThread' = numThread
        BY <2>1, CountMoves DEF Count
      <4> QED BY <2>1, <4>1, TakenSame, SlotsCounting
    <3> QED BY <1>3, <3>1
  <2>2. CASE ~Count(c) /\ Op(c).op \notin {"enter", "leave"}
    <3>1. numThread' = numThread
      BY <2>2 DEF Create, Begins, Quiet
    <3>2. Running(c) /\ Moves(c, 1)
      BY <2>2, SomeMove
    <3>3. Taken' = Taken /\ GaveBack' = GaveBack /\ Away' = Away
      BY <2>2, <3>2, TakenSame, SlotsOthers
    <3> QED BY <1>3, <3>1, <3>3
  <2>3. ASSUME Op(c).op \in {"enter", "leave"} PROVE Quiet(c)
    BY <2>3, CreateMoves, CountMoves DEF Begins
  <2>4. CASE Op(c).op = "enter"
    <3>1. numThread' = numThread + 1
      BY <2>3, <2>4 DEF Quiet
    <3>2. GaveBack' = GaveBack
      BY <2>3, <2>4, SlotsEntered
    <3>3. \/ Away' = Away /\ \E s \in Components \ Taken : Taken' = Taken \union {s}
          \/ Taken' = Taken /\ c \in Away /\ Away' = Away \ {c}
      BY <2>3, <2>4, SlotsEntered
    <3>4. CASE Away' = Away /\ \E s \in Components \ Taken : Taken' = Taken \union {s}
      <4>1. PICK s \in Components \ Taken : Taken' = Taken \union {s}
        BY <3>4
      <4>2. Cardinality(Taken \union {s}) = T + 1
        BY <1>2, <4>1, FS_AddElement
      <4>3. Cardinality(Taken') = T + 1
        BY <4>1, <4>2
      <4> HIDE DEF T
      <4> QED BY <1>3, <3>1, <3>2, <3>4, <4>3
    <3>5. CASE Taken' = Taken /\ c \in Away /\ Away' = Away \ {c}
      <4>1. Cardinality(Away \ {c}) = A - 1
        BY <1>2, <3>5, FS_RemoveElement
      <4>2. Cardinality(Away') = A - 1
        BY <3>5, <4>1
      <4> HIDE DEF A
      <4> QED BY <1>3, <3>1, <3>2, <3>5, <4>2
    <3> QED BY <3>3, <3>4, <3>5
  <2>5. CASE Op(c).op = "leave"
    <3>1. numThread' = numThread - 1
      BY <2>3, <2>5 DEF Quiet
    <3>2. Taken' = Taken
      BY <2>3, <2>5, SlotsLeft
    <3>3. \/ Away' = Away /\ c \notin GaveBack /\ GaveBack' = GaveBack \union {c}
          \/ GaveBack' = GaveBack /\ c \notin Away /\ Away' = Away \union {c}
      BY <2>3, <2>5, SlotsLeft
    <3>4. CASE Away' = Away /\ c \notin GaveBack /\ GaveBack' = GaveBack \union {c}
      <4>1. Cardinality(GaveBack \union {c}) = G + 1
        BY <1>2, <3>4, FS_AddElement
      <4>2. Cardinality(GaveBack') = G + 1
        BY <3>4, <4>1
      <4> HIDE DEF G
      <4> QED BY <1>3, <3>1, <3>2, <3>4, <4>2
    <3>5. CASE GaveBack' = GaveBack /\ c \notin Away /\ Away' = Away \union {c}
      <4>1. Cardinality(Away \union {c}) = A + 1
        BY <1>2, <3>5, FS_AddElement
      <4>2. Cardinality(Away') = A + 1
        BY <3>5, <4>1
      <4> HIDE DEF A
      <4> QED BY <1>3, <3>1, <3>2, <3>5, <4>2
    <3> QED BY <3>3, <3>4, <3>5
  <2> QED BY <2>1, <2>2, <2>4, <2>5
<1>5. ASSUME NEW s \in Children, Entering(s)' PROVE at'[s] > 0
  <2>1. CASE Father(s) # c
    <3>1. at[s] > 0
      BY <1>1, <1>5, <2>1, EnteringElsewhere DEF SlotsCounted
    <3> QED BY <3>1, RanBefore
  <2>2. CASE Father(s) = c /\ Moves(c, 1)
    <3>1. Op(c).op = "spawn" /\ Op(c).sub = s
      BY <1>5, <2>2, SomeMove, EnteringMoved
    <3>2. Begins(c)
      BY <3>1, CreateMoves, CountMoves DEF Quiet, QuietOps
    <3>3. at'[s] = 1
      BY <3>1, <3>2, BeginsMoves
    <3> QED BY <3>3
  <2>3. CASE Father(s) = c /\ ~Moves(c, 1)
    <3>1. Moves(c, 3) /\ Starts(program, c, at[c] + 1, Op(c).sub)
      BY <2>3, SomeMove, CountMoves
    <3>2. at'[c] - 1 = at[c] + 1 + 1
      BY <3>1 DEF Moves, TypeOK
    <3>3. ~Does(program, c, at[c] + 1 + 1, "spawn", s)
      BY <3>1 DEF Starts, Does, Says
    <3> QED BY <1>5, <2>3, <3>1, <3>2, <3>3, SlotsMean
  <2> QED BY <2>1, <2>2, <2>3
<1> QED BY <1>1, <1>4, <1>5, FatherSame DEF SlotsCounted

-----------------------------------------------------------------------------
(* Every step keeps the invariant. *)

LEMMA StillInv ==
    ASSUME ThreadsInv, Still
    PROVE  ThreadsInv'
<1> USE DEF ThreadsInv, Still
<1>1. /\ Components' = Components /\ Children' = Children
      /\ \A s : Father(s)' = Father(s) /\ Info(s)' = Info(s)
  BY DEF Components, Children, Father, Info
<1>2. \A op, s : (Past(op, s)' <=> Past(op, s)) /\ (Now(op, s)' <=> Now(op, s))
  BY <1>1 DEF Past, Now
<1>3. TypeOK'
  BY <1>1 DEF TypeOK
<1>4. CountsDown'
  BY <1>1, <1>2 DEF CountsDown
<1>5. StartedByFather' /\ StartedInTime'
  BY <1>1, <1>2 DEF StartedByFather, StartedInTime, StartPast, StartNow
<1>6. FatherWaits' /\ JoinedFinished' /\ MemoryOwned'
  BY <1>1, <1>2 DEF FatherWaits, JoinedFinished, MemoryOwned, Finished
<1>7. FlagsAnnounced' /\ AwaitedAnnounced'
  BY <1>1 DEF FlagsAnnounced, AwaitedAnnounced, Announced
<1>8. SlotsCounted'
  BY <1>1 DEF SlotsCounted, Taken, GaveBack, Away, Entering
<1> QED BY <1>3, <1>4, <1>5, <1>6, <1>7, <1>8

LEMMA InitInv ==
    ASSUME Init
    PROVE  ThreadsInv
<1>1. /\ program \in Programs
      /\ at = [c \in Components |-> IF c = Main THEN 1 ELSE 0]
      /\ starts = [c \in Components |-> IF c = Main THEN 1 ELSE 0]
      /\ inputCounter = [c \in Components |-> 0]
      /\ outputIsSet = {} /\ numThread = 0 /\ memory = {Main} /\ aborted = FALSE
  BY DEF Init
<1>2. WellTyped(program)
  BY <1>1, CodeAssumption DEF Orderly
<1>3. /\ Main \in Components
      /\ \A c \in Components : Len(program.code[c]) \in Nat
  <2>1. Main \in Components
    BY <1>2 DEF WellTyped, Components
  <2>2. ASSUME NEW c \in Components PROVE Len(program.code[c]) \in Nat
    <3>1. program.code[c] \in Seq(Operations)
      BY <1>2 DEF WellTyped, Components
    <3> QED BY <3>1
  <2> QED BY <2>1, <2>2
<1>4. TypeOK
  <2>1. at \in [Components -> Nat] /\ at[Main] > 0 /\ \A c \in Components : at[c] \in {0, 1}
    BY <1>1, <1>3
  <2>2. \A c \in Components : at[c] <= Len(program.code[c]) + 1
    BY <1>3, <2>1
  <2>3. starts = [c \in Components |-> IF at[c] > 0 THEN 1 ELSE 0]
    BY <1>1
  <2>4. inputCounter \in [Components -> Int] /\ numThread \in Int
    BY <1>1
  <2>5. aborted \in BOOLEAN
    BY <1>1
  <2> QED BY <1>1, <2>1, <2>2, <2>3, <2>4, <2>5 DEF TypeOK
<1>5. \A c \in Components : at[c] \in {0, 1} /\ \A k \in 1 .. at[c] - 1 : FALSE
  BY <1>1
<1>6. \A s \in Children : at[s] = 0 /\ Father(s) \in Components
  BY <1>1, <1>4, Tree DEF Children
<1>7. \A op : \A s \in Children : ~Past(op, s)
  BY <1>5, <1>6 DEF Past
<1>8. ASSUME NEW s \in Children PROVE ~StartNow(s) /\ ~Entering(s)
  <2>1. /\ StartsInPlace(program, Father(s)) /\ s \in Subs(program, Father(s))
        /\ DOMAIN program.code[Father(s)] = 1 .. Len(program.code[Father(s)])
        /\ at[Father(s)] - 1 < 1
    BY <1>4, <1>5, <1>6, Tree
  <2>2. ~StartNow(s)
    <3>1. SUFFICES ASSUME StartNow(s) PROVE FALSE
      OBVIOUS
    <3>2. MayStart(program, Father(s), at[Father(s)] - 1, s)
      BY <2>1, <3>1 DEF StartNow, Now, StartsInPlace, Does
    <3> QED BY <2>1, <3>2 DEF MayStart, Does
  <2>3. ~Entering(s)
    BY <2>1 DEF Entering, Does
  <2> QED BY <2>2, <2>3
<1>9. CountsDown /\ StartedByFather /\ StartedInTime
  BY <1>6, <1>7, <1>8 DEF CountsDown, StartedByFather, StartedInTime
<1>10. FatherWaits /\ JoinedFinished
  BY <1>6 DEF FatherWaits, JoinedFinished
<1>11. FlagsAnnounced /\ AwaitedAnnounced
  BY <1>1, <1>5 DEF FlagsAnnounced, AwaitedAnnounced
<1>12. MemoryOwned
  BY <1>1, <1>7 DEF MemoryOwned, Children
<1>13. SlotsCounted
  <2>1. Taken = {} /\ GaveBack = {} /\ Away = {}
    BY <1>5, <1>6 DEF Taken, GaveBack, Away
  <2>2. Cardinality({}) = 0
    BY FS_EmptySet
  <2>3. numThread = Cardinality(Taken) - Cardinality(GaveBack) - Cardinality(Away)
    BY <1>1, <2>1, <2>2
  <2> QED BY <1>8, <2>3 DEF SlotsCounted
<1> QED BY <1>4, <1>9, <1>10, <1>11, <1>12, <1>13 DEF ThreadsInv

LEMMA NextInv ==
    ASSUME ThreadsInv, [Next]_vars
    PROVE  ThreadsInv'
<1>1. CASE UNCHANGED vars
  <2>1. Still
    BY <1>1 DEF vars, Still
  <2> QED BY <2>1, StillInv
<1>2. CASE \E c \in Components : Operation(c)
  <2>1. PICK c \in Components : Operation(c)
    BY <1>2
  <2>2. CASE Still
    BY <2>2, StillInv
  <2>3. CASE Create(c) \/ Count(c) \/ Begins(c) \/ Quiet(c)
    <3>1. TypeOK'
      BY <2>3, SomeMove
    <3>2. CountsDown' /\ StartedByFather' /\ StartedInTime'
      BY <2>3, CountsDownKept, StartedByFatherKept, StartedInTimeKept
    <3>3. FatherWaits' /\ FlagsAnnounced' /\ AwaitedAnnounced'
      BY <2>3, FatherWaitsKept, FlagsAnnouncedKept, AwaitedAnnouncedKept
    <3>4. JoinedFinished' /\ MemoryOwned' /\ SlotsCounted'
      BY <2>3, JoinedFinishedKept, MemoryOwnedKept, SlotsCountedKept
    <3> QED BY <3>1, <3>2, <3>3, <3>4 DEF ThreadsInv
  <2> QED BY <2>1, <2>2, <2>3, StepKinds
<1> QED BY <1>1, <1>2 DEF Next, Done

(* The invariant of the threads, for every orderly program. *)
THEOREM ThreadsInvariance == Spec => []ThreadsInv
<1>1. Init => ThreadsInv
  BY InitInv
<1>2. ThreadsInv /\ [Next]_vars => ThreadsInv'
  BY NextInv
<1> QED BY <1>1, <1>2, PTL DEF Spec

-----------------------------------------------------------------------------
(* Every component is started once, when all its inputs are there. *)
THEOREM StartedCompleteHolds == Spec => []StartedComplete
<1>1. ASSUME ThreadsInv PROVE StartedComplete
  <2> SUFFICES ASSUME NEW c \in Components \ {Main}, starts[c] > 0
               PROVE  starts[c] = 1 /\ inputCounter[c] = 0
    BY DEF StartedComplete
  <2>1. starts[c] = IF at[c] > 0 THEN 1 ELSE 0
    BY <1>1 DEF ThreadsInv, TypeOK
  <2>2. at[c] > 0 /\ starts[c] = 1
    BY <2>1
  <2>3. inputCounter[c] = 0
    BY <1>1, <2>2 DEF ThreadsInv, StartedByFather, Children
  <2> QED BY <2>2, <2>3
<1> QED BY <1>1, ThreadsInvariance, PTL

LEMMA ReadsFinalInv ==
    ASSUME ThreadsInv
    PROVE  ReadsFinal
<1> USE DEF ThreadsInv
<1> SUFFICES ASSUME NEW c \in Components, Running(c), Op(c).op = "read", NEW s, s = Op(c).sub
             PROVE  /\ starts[s] > 0
                    /\ \A k \in DOMAIN program.code[s] :
                          Says(program, s, k, "write") /\ program.code[s][k].signal = Op(c).signal
                              => k < at[s]
  BY DEF ReadsFinal
<1>1. s \in Children /\ Father(s) = c /\ Now("read", s)
  BY HereSub, Parts
<1>2. /\ s \in Components /\ at[s] \in Nat /\ at[c] \in Nat
      /\ DOMAIN program.code[s] = 1 .. Len(program.code[s]) /\ Len(program.code[s]) \in Nat
      /\ InputsFirst(program, s) /\ InputsFirst(program, c)
      /\ at[c] \in DOMAIN program.code[c] /\ DOMAIN program.code[c] = 1 .. Len(program.code[c])
  BY <1>1, Tree, Here DEF TypeOK, Children
<1>3. at[s] > 0 => starts[s] > 0
  BY <1>2 DEF TypeOK
<1>4. CASE Info(s).parallel
  <2>1. PICK j \in 1 .. at[c] - 1 :
            Does(program, c, j, "await", s) /\ program.code[c][j].signal = Op(c).signal
    BY <1>2, <1>4 DEF InputsFirst, Op, Info
  <2>2. Announced(s, Op(c).signal)
    BY <2>1 DEF AwaitedAnnounced, Does, Says
  <2>3. PICK k0 \in 1 .. at[s] - 1 :
            Says(program, s, k0, "set") /\ program.code[s][k0].signal = Op(c).signal
    BY <2>2 DEF Announced
  <2>4. at[s] > 0 /\ k0 < at[s]
    BY <1>2, <2>3
  <2>5. ASSUME NEW k \in DOMAIN program.code[s], Says(program, s, k, "write"),
               program.code[s][k].signal = Op(c).signal
        PROVE  k < at[s]
    <3>1. k < k0
      BY <1>2, <2>3, <2>5 DEF InputsFirst, Says
    <3> QED BY <1>2, <2>3, <2>4, <2>5, <3>1
  <2> QED BY <1>3, <2>4, <2>5
<1>5. CASE ~Info(s).parallel
  <2>1. Cardinality(Counted(program, c, s, at[c])) = Info(s).inputs
    BY <1>2, <1>5 DEF InputsFirst, Op, Info
  <2>2. Counted(program, c, s, at[c]) = Counted(program, c, s, at[c] - 1)
    <3>1. ~Does(program, c, at[c], "count", s)
      BY DEF Does, Op
    <3>2. 1 .. at[c] = (1 .. at[c] - 1) \union {at[c]}
      BY <1>2
    <3> QED BY <3>1, <3>2 DEF Counted
  <2>3. Past("create", s)
    BY <1>1, NowCreated, Parts
  <2>4. inputCounter[s] = 0
    <3>1. Info(s).inputs \in Nat
      BY <1>2, Tree
    <3> QED BY <1>1, <2>1, <2>2, <2>3, <3>1 DEF CountsDown
  <2>5. ~StartNow(s) /\ ~Now("return", s)
    BY <1>1, NowHere DEF StartNow
  <2>6. at[s] > 0
    BY <1>1, <2>3, <2>4, <2>5 DEF StartedInTime, Running
  <2>7. Finished(s)
    BY <1>1, <1>5, <2>5, <2>6 DEF FatherWaits, Threaded, Info
  <2>8. \A k \in DOMAIN program.code[s] : k < at[s]
    BY <1>2, <2>7 DEF Finished
  <2> QED BY <1>3, <2>6, <2>8
<1> QED BY <1>4, <1>5

(* An output is used only when nobody will store to it any more. *)
THEOREM ReadsFinalHolds == Spec => []ReadsFinal
BY ReadsFinalInv, ThreadsInvariance, PTL

LEMMA MemoryHeldInv ==
    ASSUME ThreadsInv
    PROVE  MemoryHeld
<1> USE DEF ThreadsInv
<1>1. ASSUME NEW c \in Components, Running(c) PROVE c \in memory
  <2>1. CASE c = Main
    BY <2>1 DEF MemoryOwned
  <2>2. CASE c # Main
    <3>1. c \in Children /\ at[c] > 0 /\ ~Finished(c)
      BY <1>1, <2>2 DEF Children, Running
    <3>2. Past("create", c)
      BY <3>1, PastCreated, Parts DEF StartedByFather, StartPast
    <3>3. ~Past("free", c)
      BY <3>1 DEF JoinedFinished
    <3> QED BY <3>1, <3>2, <3>3 DEF MemoryOwned
  <2> QED BY <2>1, <2>2
<1>2. ASSUME NEW c \in Components, Running(c), Op(c).op \in {"count", "spawn", "call", "await", "read"}
      PROVE  Op(c).sub \in memory
  <2>1. Part(Op(c).op) = 2
    BY <1>2, Parts
  <2>2. PICK s \in Children : s = Op(c).sub /\ Now(Op(c).op, s)
    BY <1>2, <2>1, HereSub
  <2>3. PICK op : op = Op(c).op
    OBVIOUS
  <2>4. Part(op) = 2 /\ Now(op, s)
    BY <2>1, <2>2, <2>3
  <2>5. Past("create", s)
    BY <2>4, NowCreated
  <2>6. ~Past("free", s)
    BY <2>4, PastBeforeNow, Parts
  <2> QED BY <2>2, <2>5, <2>6 DEF MemoryOwned
<1> QED BY <1>1, <1>2 DEF MemoryHeld

(* No thread uses a component that was released. *)
THEOREM MemoryHeldHolds == Spec => []MemoryHeld
BY MemoryHeldInv, ThreadsInvariance, PTL

(* When the main component ends, everything that was started has ended: of *)
(* two components the father has the smaller number.                       *)
LEMMA AllFinished ==
    ASSUME ThreadsInv, Finished(Main), NEW c \in Components, at[c] > 0
    PROVE  Finished(c)
<1> USE DEF ThreadsInv
<1> DEFINE Open == {x \in Components : at[x] > 0 /\ ~Finished(x)}
<1>1. Components \subseteq Nat
  BY Tree
<1>2. SUFFICES ASSUME Open # {} PROVE FALSE
  OBVIOUS
<1>3. PICK s \in Open : \A x \in Open : s <= x
  <2>1. Open \subseteq Nat /\ \E n : n \in Open
    BY <1>1, <1>2
  <2> HIDE DEF Open
  <2> QED BY <2>1, Numbers!LeastNumber
<1>4. s \in Children /\ at[s] > 0 /\ ~Finished(s) /\ s \in Nat
  BY <1>1, <1>3 DEF Children
<1>5. Father(s) \in Components /\ Father(s) < s /\ s \in Subs(program, Father(s))
      /\ at[Father(s)] \in Nat /\ Len(program.code[Father(s)]) \in Nat
      /\ PartsInOrder(program, Father(s))
      /\ DOMAIN program.code[Father(s)] = 1 .. Len(program.code[Father(s)])
  BY <1>4, Tree DEF TypeOK
<1>6. at[Father(s)] > 0
  BY <1>4, <1>5 DEF StartedByFather, StartPast, Past
<1>7. Finished(Father(s))
  <2>1. SUFFICES ASSUME Father(s) \in Open PROVE FALSE
    BY <1>5, <1>6
  <2>2. s <= Father(s)
    BY <1>3, <2>1
  <2>3. Father(s) \in Nat
    BY <1>1, <1>5
  <2> QED BY <1>4, <1>5, <2>2, <2>3
<1>8. at[Father(s)] > Len(program.code[Father(s)])
  BY <1>7 DEF Finished
<1>9. CASE Threaded(program, s)
  <2>1. PICK k \in DOMAIN program.code[Father(s)] : Does(program, Father(s), k, "join", s)
    BY <1>5, <1>9 DEF PartsInOrder, Threaded
  <2>2. k \in 1 .. at[Father(s)] - 1
    BY <1>5, <1>8, <2>1
  <2>3. Past("join", s)
    BY <2>1, <2>2 DEF Past
  <2> QED BY <1>4, <1>9, <2>3 DEF JoinedFinished, Threaded, Info
<1>10. CASE ~Threaded(program, s)
  <2>1. ~Now("return", s)
    BY <1>5, <1>8 DEF Now, Does
  <2> QED BY <1>4, <1>10, <2>1 DEF FatherWaits
<1> QED BY <1>9, <1>10

LEMMA SlotsRepaidInv ==
    ASSUME ThreadsInv
    PROVE  SlotsRepaid
<1> USE DEF ThreadsInv
<1> SUFFICES ASSUME Finished(Main) PROVE numThread = 0
  BY DEF SlotsRepaid
<1>1. \A c \in Components : /\ Len(program.code[c]) \in Nat /\ at[c] \in Nat
                            /\ at[c] > 0 => at[c] > Len(program.code[c])
  BY AllFinished, Tree DEF Finished, TypeOK
<1>2. Away = {}
  <2>1. SUFFICES ASSUME NEW c \in Components, NEW k \in 1 .. at[c] - 1,
                        Waits(program, c, k), at[c] <= k + 3
                 PROVE  FALSE
    BY DEF Away
  <2>2. k + 3 <= Len(program.code[c])
    BY <2>1 DEF Waits, Says
  <2> QED BY <1>1, <2>1, <2>2
<1>3. Taken = GaveBack
  <2>1. ASSUME NEW c \in Components
        PROVE  c \in GaveBack <=> at[c] > 0 /\ Threaded(program, c)
    <3>1. SlotsPaired(program, c) /\ DOMAIN program.code[c] = 1 .. Len(program.code[c])
      BY Tree
    <3>2. ASSUME c \in GaveBack PROVE at[c] > 0 /\ Threaded(program, c)
      <4>1. PICK k \in 1 .. at[c] - 1 : LeavesForGood(program, c, k)
        BY <3>2 DEF GaveBack
      <4>2. at[c] > 0
        BY <1>1, <4>1
      <4>3. k \in DOMAIN program.code[c]
        BY <3>1, <4>1 DEF LeavesForGood, Says
      <4> QED BY <3>1, <4>1, <4>2, <4>3 DEF SlotsPaired
    <3>3. ASSUME at[c] > 0, Threaded(program, c) PROVE c \in GaveBack
      <4>1. PICK k \in DOMAIN program.code[c] : LeavesForGood(program, c, k)
        BY <3>1, <3>3 DEF SlotsPaired
      <4>2. k \in 1 .. at[c] - 1
        BY <1>1, <3>1, <3>3, <4>1
      <4> QED BY <4>1, <4>2 DEF GaveBack
    <3> QED BY <3>2, <3>3
  <2>2. ASSUME NEW s \in Children PROVE ~Entering(s)
    <3>1. SUFFICES ASSUME Entering(s) PROVE FALSE
      OBVIOUS
    <3>2. /\ Father(s) \in Components /\ StartsInPlace(program, Father(s)) /\ s \in Subs(program, Father(s))
          /\ DOMAIN program.code[Father(s)] = 1 .. Len(program.code[Father(s)])
          /\ Does(program, Father(s), at[Father(s)] - 1, "spawn", s)
      BY <3>1, Tree DEF Entering
    <3>3. Starts(program, Father(s), at[Father(s)] - 1, s)
      BY <3>2 DEF StartsInPlace, Does
    <3>4. at[Father(s)] - 1 + 1 <= Len(program.code[Father(s)]) /\ at[Father(s)] - 1 >= 1
      BY <3>2, <3>3 DEF Starts, Does, Says
    <3> QED BY <1>1, <3>2, <3>4
  <2>3. \A s \in Children : s \in Taken <=> Threaded(program, s) /\ at[s] > 0
    BY <2>2 DEF Taken
  <2>4. Main \notin GaveBack
    BY <2>1, Tree
  <2>5. Taken \subseteq Children /\ GaveBack \subseteq Components /\ Children = Components \ {Main}
    BY DEF Taken, GaveBack, Children
  <2> QED BY <2>1, <2>3, <2>4, <2>5
<1>4. Cardinality(Taken) \in Nat /\ Cardinality({}) = 0
  BY SlotsFinite, FS_CardinalityType, FS_EmptySet
<1>5. numThread = Cardinality(Taken) - Cardinality(GaveBack) - Cardinality(Away)
  BY DEF SlotsCounted
<1> QED BY <1>2, <1>3, <1>4, <1>5

(* Every slot that was taken is given back when the main component ends. *)
THEOREM SlotsRepaidHolds == Spec => []SlotsRepaid
BY SlotsRepaidInv, ThreadsInvariance, PTL
=============================================================================
