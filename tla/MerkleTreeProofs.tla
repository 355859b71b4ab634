-------------------------- MODULE MerkleTreeProofs --------------------------
(***************************************************************************)
(* Proofs about MerkleTree, for every depth, every word size and any       *)
(* leaves: RootIsReference, ProofsVerify and RootsNeverRepeat.             *)
(***************************************************************************)
EXTENDS MerkleTree, SequenceTheorems, TLAPS

-----------------------------------------------------------------------------
(* The recursive definitions of MerkleTree, as instances of one scheme. *)

chainStart(p) == hash(Zero, Zero)
chainStep(p, n, zero) == hash(zero, zero)
Chain == INSTANCE Recursion WITH Start <- chainStart, Step <- chainStep

widthStart(p) == 1
widthStep(p, n, positions) == 2 * positions
Widths == INSTANCE Recursion WITH Start <- widthStart, Step <- widthStep

halfStart(index) == index
halfStep(index, n, idx) == idx \div 2
Halves == INSTANCE Recursion WITH Start <- halfStart, Step <- halfStep

walkStart(p) == p.leaf
walkStep(p, n, current) == parentOf(p.side[n - 1], current, p.sibling[n - 1])
Walks == INSTANCE Recursion WITH Start <- walkStart, Step <- walkStep

treeStart(leaves) ==
    [index \in Nat |-> IF index < Len(leaves) THEN leaves[index + 1] ELSE zeroChain[0]]
treeStep(leaves, n, node) == [index \in Nat |-> hash(node[2 * index], node[2 * index + 1])]
Trees == INSTANCE Recursion WITH Start <- treeStart, Step <- treeStep

belowStart(p) == p.top
belowStep(p, n, node) == node[1 + (ancestor(p.index)[Depth - n] % 2)]
Descents == INSTANCE Recursion WITH Start <- belowStart, Step <- belowStep

LEMMA ChainValues ==
    /\ zeroChain[0] = hash(Zero, Zero)
    /\ \A level \in Nat : zeroChain[level + 1] = hash(zeroChain[level], zeroChain[level])
<1> DEFINE F(at) == [level \in Nat |-> IF level = 0 THEN hash(Zero, Zero)
                                        ELSE hash(at[level - 1], at[level - 1])]
           value == CHOOSE at : at = F(at)
<1>1. Chain!iterate(0) = F(Chain!iterate(0))
  BY Chain!Iterates DEF chainStart, chainStep
<1>2. value = F(value)
  BY <1>1
<1>3. zeroChain = value
  BY DEF zeroChain
<1> HIDE DEF value
<1>4. value[0] = hash(Zero, Zero)
  BY <1>2
<1>5. ASSUME NEW level \in Nat
      PROVE  value[level + 1] = hash(value[level], value[level])
  BY <1>2
<1> QED BY <1>3, <1>4, <1>5

LEMMA WidthValues ==
    /\ width[0] = 1
    /\ \A level \in Nat : width[level + 1] = 2 * width[level]
<1> DEFINE F(at) == [level \in Nat |-> IF level = 0 THEN 1 ELSE 2 * at[level - 1]]
           value == CHOOSE at : at = F(at)
<1>1. Widths!iterate(0) = F(Widths!iterate(0))
  BY Widths!Iterates DEF widthStart, widthStep
<1>2. value = F(value)
  BY <1>1
<1>3. width = value
  BY DEF width
<1> HIDE DEF value
<1>4. value[0] = 1
  BY <1>2
<1>5. ASSUME NEW level \in Nat
      PROVE  value[level + 1] = 2 * value[level]
  BY <1>2
<1> QED BY <1>3, <1>4, <1>5

LEMMA AncestorValues ==
    ASSUME NEW index
    PROVE  /\ ancestor(index)[0] = index
           /\ \A level \in Nat : ancestor(index)[level + 1] = ancestor(index)[level] \div 2
<1> DEFINE F(at) == [level \in Nat |-> IF level = 0 THEN index ELSE at[level - 1] \div 2]
           value == CHOOSE at : at = F(at)
<1>1. Halves!iterate(index) = F(Halves!iterate(index))
  BY Halves!Iterates DEF halfStart, halfStep
<1>2. value = F(value)
  BY <1>1
<1>3. ancestor(index) = value
  BY DEF ancestor
<1> HIDE DEF value
<1>4. value[0] = index
  BY <1>2
<1>5. ASSUME NEW level \in Nat
      PROVE  value[level + 1] = value[level] \div 2
  BY <1>2
<1> QED BY <1>3, <1>4, <1>5

LEMMA PathValues ==
    ASSUME NEW index, NEW leaf
    PROVE  /\ path(index, leaf)[0] = leaf
           /\ \A level \in Nat :
                path(index, leaf)[level + 1] =
                    parentOf(ancestor(index)[level], path(index, leaf)[level],
                             nodeOrZero(level, siblingIndex(ancestor(index)[level])))
<1> DEFINE up(level, current) ==
             parentOf(ancestor(index)[level], current,
                      nodeOrZero(level, siblingIndex(ancestor(index)[level])))
           F(at) == [level \in Nat |-> IF level = 0 THEN leaf
                                        ELSE up(level - 1, at[level - 1])]
           value == CHOOSE at : at = F(at)
           p == [leaf |-> leaf, side |-> ancestor(index),
                 sibling |-> [level \in Nat |->
                    nodeOrZero(level, siblingIndex(ancestor(index)[level]))]]
           w == Walks!iterate(p)
<1>1. w = F(w)
  <2>1. w = [n \in Nat |-> IF n = 0 THEN walkStart(p) ELSE walkStep(p, n, w[n - 1])]
    BY Walks!Iterates
  <2>2. walkStart(p) = leaf
    BY DEF walkStart
  <2>3. ASSUME NEW n \in Nat, n # 0 PROVE walkStep(p, n, w[n - 1]) = up(n - 1, w[n - 1])
    BY <2>3 DEF walkStep
  <2> HIDE DEF w, p, up
  <2> QED BY <2>1, <2>2, <2>3
<1>2. value = F(value)
  BY <1>1
<1>3. path(index, leaf) = value
  BY DEF path
<1> HIDE DEF value
<1>4. value[0] = leaf
  BY <1>2
<1>5. ASSUME NEW level \in Nat
      PROVE  value[level + 1] = up(level, value[level])
  BY <1>2
<1> QED BY <1>3, <1>4, <1>5

(* What rootOfPath computes level by level. *)
Climbs(current, leaf, proof) ==
    /\ current[0] = leaf
    /\ \A level \in Nat :
         current[level + 1] = parentOf(proof[level].pathIndex, current[level],
                                       proof[level].sibling)
    /\ rootOfPath(leaf, proof) = current[Depth]

LEMMA ProofPathValues == \A leaf, proof : \E current : Climbs(current, leaf, proof)
<1> TAKE leaf, proof
<1> DEFINE F(at) == [level \in Nat |->
                       IF level = 0 THEN leaf
                       ELSE parentOf(proof[level - 1].pathIndex, at[level - 1],
                                     proof[level - 1].sibling)]
           value == CHOOSE at : at = F(at)
           p == [leaf |-> leaf, side |-> [level \in Nat |-> proof[level].pathIndex],
                 sibling |-> [level \in Nat |-> proof[level].sibling]]
           w == Walks!iterate(p)
<1>1. w = F(w)
  <2>1. w = [n \in Nat |-> IF n = 0 THEN walkStart(p) ELSE walkStep(p, n, w[n - 1])]
    BY Walks!Iterates
  <2>2. walkStart(p) = leaf
    BY DEF walkStart
  <2>3. ASSUME NEW n \in Nat, n # 0
        PROVE  walkStep(p, n, w[n - 1]) =
                 parentOf(proof[n - 1].pathIndex, w[n - 1], proof[n - 1].sibling)
    BY <2>3 DEF walkStep
  <2> HIDE DEF w, p
  <2> QED BY <2>1, <2>2, <2>3
<1>2. value = F(value)
  BY <1>1
<1>3. rootOfPath(leaf, proof) = value[Depth]
  BY DEF rootOfPath
<1> HIDE DEF value
<1>4. value[0] = leaf
  BY <1>2
<1>5. ASSUME NEW level \in Nat
      PROVE  value[level + 1] = parentOf(proof[level].pathIndex, value[level], proof[level].sibling)
  BY <1>2
<1>6. Climbs(value, leaf, proof)
  BY <1>3, <1>4, <1>5 DEF Climbs
<1> QED BY <1>6

LEMMA TreeValues ==
    ASSUME NEW leaves, NEW index \in Nat
    PROVE  /\ completeTree(leaves)[0][index] =
                IF index < Len(leaves) THEN leaves[index + 1] ELSE zeroChain[0]
           /\ \A level \in Nat :
                completeTree(leaves)[level + 1][index] =
                    hash(completeTree(leaves)[level][2 * index],
                         completeTree(leaves)[level][2 * index + 1])
<1> DEFINE F(at) == [level \in Nat |-> [k \in Nat |->
                       IF level = 0
                       THEN IF k < Len(leaves) THEN leaves[k + 1] ELSE zeroChain[0]
                       ELSE hash(at[level - 1][2 * k], at[level - 1][2 * k + 1])]]
           value == CHOOSE at : at = F(at)
           w == Trees!iterate(leaves)
<1>1. w = F(w)
  <2>1. w = [n \in Nat |-> IF n = 0 THEN treeStart(leaves) ELSE treeStep(leaves, n, w[n - 1])]
    BY Trees!Iterates
  <2>2. treeStart(leaves) = F(w)[0]
    BY DEF treeStart
  <2>3. ASSUME NEW n \in Nat, n # 0 PROVE treeStep(leaves, n, w[n - 1]) = F(w)[n]
    BY <2>3 DEF treeStep
  <2>4. \A n \in Nat : w[n] = F(w)[n]
    <3> DEFINE G == F(w)
    <3> HIDE DEF w, G
    <3> QED BY <2>1, <2>2, <2>3
  <2> HIDE DEF w
  <2> QED BY <2>1, <2>4
<1>2. value = F(value)
  BY <1>1
<1>3. completeTree(leaves) = value
  BY DEF completeTree
<1> HIDE DEF value
<1>4. value[0][index] = IF index < Len(leaves) THEN leaves[index + 1] ELSE zeroChain[0]
  BY <1>2
<1>5. ASSUME NEW level \in Nat
      PROVE  value[level + 1][index] = hash(value[level][2 * index], value[level][2 * index + 1])
  <2>1. level + 1 \in Nat /\ level + 1 # 0 /\ level + 1 - 1 = level
    OBVIOUS
  <2>2. value[level + 1] = F(value)[level + 1]
    BY <1>2
  <2>3. F(value)[level + 1] =
          [k \in Nat |-> hash(value[level][2 * k], value[level][2 * k + 1])]
    BY <2>1
  <2> QED BY <2>2, <2>3
<1> QED BY <1>3, <1>4, <1>5

LEMMA DescentValues ==
    ASSUME NEW top, NEW index
    PROVE  \E node :
             /\ node[0] = top
             /\ \A steps \in Nat :
                  node[steps + 1] = node[steps][1 + (ancestor(index)[Depth - (steps + 1)] % 2)]
             /\ leafBelow(top, index) = node[Depth]
<1> DEFINE F(at) == [steps \in Nat |->
                       IF steps = 0 THEN top
                       ELSE at[steps - 1][1 + (ancestor(index)[Depth - steps] % 2)]]
           value == CHOOSE at : at = F(at)
           p == [top |-> top, index |-> index]
           w == Descents!iterate(p)
<1>1. w = F(w)
  <2>1. w = [n \in Nat |-> IF n = 0 THEN belowStart(p) ELSE belowStep(p, n, w[n - 1])]
    BY Descents!Iterates
  <2>2. belowStart(p) = top
    BY DEF belowStart
  <2>3. ASSUME NEW n \in Nat, n # 0
        PROVE  belowStep(p, n, w[n - 1]) = w[n - 1][1 + (ancestor(index)[Depth - n] % 2)]
    BY <2>3 DEF belowStep
  <2> HIDE DEF w, p
  <2> QED BY <2>1, <2>2, <2>3
<1>2. value = F(value)
  BY <1>1
<1>3. leafBelow(top, index) = value[Depth]
  BY DEF leafBelow
<1> HIDE DEF value
<1>4. value[0] = top
  BY <1>2
<1>5. ASSUME NEW steps \in Nat
      PROVE  value[steps + 1] = value[steps][1 + (ancestor(index)[Depth - (steps + 1)] % 2)]
  BY <1>2
<1> QED BY <1>3, <1>4, <1>5

-----------------------------------------------------------------------------
(* The way up from a position. *)

LEMMA AncestorBelow ==
    ASSUME NEW index \in Nat
    PROVE  \A level \in Nat : ancestor(index)[level] \in Nat /\ ancestor(index)[level] <= index
<1> DEFINE S == {level \in Nat : ancestor(index)[level] \in Nat /\ ancestor(index)[level] <= index}
<1>1. 0 \in S
  BY AncestorValues
<1>2. ASSUME NEW level \in Nat, level \in S PROVE level + 1 \in S
  <2>1. ancestor(index)[level + 1] = ancestor(index)[level] \div 2
    BY AncestorValues
  <2> QED BY <1>2, <2>1
<1> HIDE DEF S
<1>3. Nat \subseteq S
  BY <1>1, <1>2, Halves!Induction
<1> QED BY <1>3 DEF S

(* Positions keep their order on the way up, and neighbours stay close.    *)
LEMMA AncestorOrder ==
    ASSUME NEW first \in Nat, NEW second \in Nat, first <= second
    PROVE  \A level \in Nat :
             /\ ancestor(first)[level] <= ancestor(second)[level]
             /\ second <= first + 1 => ancestor(second)[level] <= ancestor(first)[level] + 1
<1> DEFINE S == {level \in Nat :
                   /\ ancestor(first)[level] <= ancestor(second)[level]
                   /\ second <= first + 1 => ancestor(second)[level] <= ancestor(first)[level] + 1}
<1>1. 0 \in S
  BY AncestorValues
<1>2. ASSUME NEW level \in Nat, level \in S PROVE level + 1 \in S
  <2>1. ancestor(first)[level + 1] = ancestor(first)[level] \div 2
        /\ ancestor(second)[level + 1] = ancestor(second)[level] \div 2
    BY AncestorValues
  <2>2. ancestor(first)[level] \in Nat /\ ancestor(second)[level] \in Nat
    BY AncestorBelow
  <2> QED BY <1>2, <2>1, <2>2
<1> HIDE DEF S
<1>3. Nat \subseteq S
  BY <1>1, <1>2, Halves!Induction
<1> QED BY <1>3 DEF S

(* Halving first or last is the same. *)
LEMMA AncestorOfParent ==
    ASSUME NEW index \in Nat
    PROVE  \A level \in Nat : ancestor(index)[level + 1] = ancestor(index \div 2)[level]
<1> DEFINE S == {level \in Nat : ancestor(index)[level + 1] = ancestor(index \div 2)[level]}
<1>1. 0 \in S
  <2>1. ancestor(index)[0 + 1] = ancestor(index)[0] \div 2 /\ ancestor(index)[0] = index
    BY AncestorValues
  <2>2. ancestor(index \div 2)[0] = index \div 2
    BY AncestorValues
  <2> QED BY <2>1, <2>2
<1>2. ASSUME NEW level \in Nat, level \in S PROVE level + 1 \in S
  <2>1. ancestor(index)[(level + 1) + 1] = ancestor(index)[level + 1] \div 2
    BY AncestorValues
  <2>2. ancestor(index \div 2)[level + 1] = ancestor(index \div 2)[level] \div 2
    BY AncestorValues
  <2> QED BY <1>2, <2>1, <2>2
<1> HIDE DEF S
<1>3. Nat \subseteq S
  BY <1>1, <1>2, Halves!Induction
<1> QED BY <1>3 DEF S

(* Every position of a tree that is not full ends at its root. *)
LEMMA AncestorAtTop ==
    \A level \in Nat :
      /\ width[level] \in Nat
      /\ \A index \in Nat : index < width[level] => ancestor(index)[level] = 0
<1> DEFINE S == {level \in Nat :
                   /\ width[level] \in Nat
                   /\ \A index \in Nat : index < width[level] => ancestor(index)[level] = 0}
<1>1. 0 \in S
  BY WidthValues, AncestorValues
<1>2. ASSUME NEW level \in Nat, level \in S PROVE level + 1 \in S
  <2>1. width[level + 1] = 2 * width[level] /\ width[level] \in Nat
    BY <1>2, WidthValues
  <2>2. ASSUME NEW index \in Nat, index < width[level + 1]
        PROVE  ancestor(index)[level + 1] = 0
    <3>1. index \div 2 \in Nat /\ index \div 2 < width[level]
      BY <2>1, <2>2
    <3>2. ancestor(index)[level + 1] = ancestor(index \div 2)[level]
      BY AncestorOfParent
    <3> QED BY <1>2, <3>1, <3>2
  <2> QED BY <2>1, <2>2
<1> HIDE DEF S
<1>3. Nat \subseteq S
  BY <1>1, <1>2, Halves!Induction
<1> QED BY <1>3 DEF S

(* The sibling of a node: the other child of its parent. *)
LEMMA Siblings ==
    ASSUME NEW idx \in Nat
    PROVE  /\ siblingIndex(idx) \in Nat /\ siblingIndex(idx) # idx
           /\ siblingIndex(idx) <= idx + 1
           /\ siblingIndex(idx) \div 2 = idx \div 2
           /\ \A other \in Nat : other # idx /\ other \div 2 = idx \div 2 =>
                other = siblingIndex(idx)
           /\ idx % 2 = 0 => idx = 2 * (idx \div 2) /\ siblingIndex(idx) = 2 * (idx \div 2) + 1
           /\ idx % 2 # 0 => idx = 2 * (idx \div 2) + 1 /\ siblingIndex(idx) = 2 * (idx \div 2)
<1>1. CASE idx % 2 = 0
  BY <1>1 DEF siblingIndex
<1>2. CASE idx % 2 # 0
  BY <1>2 DEF siblingIndex
<1> QED BY <1>1, <1>2

-----------------------------------------------------------------------------
(* The complete tree. *)

(* A node with nothing under it has the default of its level. *)
LEMMA BeyondTree ==
    ASSUME NEW leaves, Len(leaves) \in Nat
    PROVE  \A level \in Nat : \A index \in Nat :
             Beyond(Len(leaves), level, index) =>
                completeTree(leaves)[level][index] = zeroChain[level]
<1> DEFINE n == Len(leaves)
           S == {level \in Nat : \A index \in Nat :
                   Beyond(n, level, index) =>
                      completeTree(leaves)[level][index] = zeroChain[level]}
<1>1. 0 \in S
  <2> SUFFICES ASSUME NEW index \in Nat, Beyond(n, 0, index)
               PROVE  completeTree(leaves)[0][index] = zeroChain[0]
    OBVIOUS
  <2>1. ancestor(n - 1)[0] = n - 1
    BY AncestorValues
  <2>2. ~(index < n)
    BY <2>1 DEF Beyond
  <2> QED BY <2>2, TreeValues
<1>2. ASSUME NEW level \in Nat, level \in S PROVE level + 1 \in S
  <2> SUFFICES ASSUME NEW index \in Nat, Beyond(n, level + 1, index)
               PROVE  completeTree(leaves)[level + 1][index] = zeroChain[level + 1]
    OBVIOUS
  <2>1. Beyond(n, level, 2 * index) /\ Beyond(n, level, 2 * index + 1)
    <3>1. CASE n = 0
      BY <3>1 DEF Beyond
    <3>2. CASE n # 0
      <4>1. n - 1 \in Nat
        BY <3>2
      <4>2. ancestor(n - 1)[level + 1] = ancestor(n - 1)[level] \div 2
        BY AncestorValues
      <4>3. ancestor(n - 1)[level] \in Nat
        BY <4>1, AncestorBelow
      <4>4. index > ancestor(n - 1)[level + 1]
        BY <3>2 DEF Beyond
      <4>5. 2 * index > ancestor(n - 1)[level]
        BY <4>2, <4>3, <4>4
      <4> QED BY <4>3, <4>5 DEF Beyond
    <3> QED BY <3>1, <3>2
  <2>2. 2 * index \in Nat /\ 2 * index + 1 \in Nat
    OBVIOUS
  <2>3. completeTree(leaves)[level][2 * index] = zeroChain[level]
        /\ completeTree(leaves)[level][2 * index + 1] = zeroChain[level]
    BY <1>2, <2>1, <2>2
  <2>4. completeTree(leaves)[level + 1][index] = hash(zeroChain[level], zeroChain[level])
    BY <2>3, TreeValues
  <2> QED BY <2>4, ChainValues
<1> HIDE DEF S
<1>3. Nat \subseteq S
  BY <1>1, <1>2, Halves!Induction
<1> QED BY <1>3 DEF S

(* One more leaf changes only the nodes over it. *)
LEMMA TreeGrows ==
    ASSUME NEW leaves, NEW longer, Len(leaves) \in Nat, Len(longer) = Len(leaves) + 1,
           \A i \in 1 .. Len(leaves) : longer[i] = leaves[i]
    PROVE  \A level \in Nat : \A index \in Nat :
             index # ancestor(Len(leaves))[level] =>
                completeTree(longer)[level][index] = completeTree(leaves)[level][index]
<1> DEFINE n == Len(leaves)
           S == {level \in Nat : \A index \in Nat :
                   index # ancestor(n)[level] =>
                      completeTree(longer)[level][index] = completeTree(leaves)[level][index]}
<1>1. 0 \in S
  <2> SUFFICES ASSUME NEW index \in Nat, index # ancestor(n)[0]
               PROVE  completeTree(longer)[0][index] = completeTree(leaves)[0][index]
    OBVIOUS
  <2>1. index # n
    BY AncestorValues
  <2>2. index < n => longer[index + 1] = leaves[index + 1]
    OBVIOUS
  <2>3. index < n <=> index < Len(longer)
    BY <2>1
  <2> QED BY <2>2, <2>3, TreeValues
<1>2. ASSUME NEW level \in Nat, level \in S PROVE level + 1 \in S
  <2> SUFFICES ASSUME NEW index \in Nat, index # ancestor(n)[level + 1]
               PROVE  completeTree(longer)[level + 1][index] = completeTree(leaves)[level + 1][index]
    OBVIOUS
  <2>1. ancestor(n)[level + 1] = ancestor(n)[level] \div 2 /\ ancestor(n)[level] \in Nat
    BY AncestorValues, AncestorBelow
  <2>2. 2 * index # ancestor(n)[level] /\ 2 * index + 1 # ancestor(n)[level]
    BY <2>1
  <2>3. 2 * index \in Nat /\ 2 * index + 1 \in Nat
    OBVIOUS
  <2>4. completeTree(longer)[level][2 * index] = completeTree(leaves)[level][2 * index]
        /\ completeTree(longer)[level][2 * index + 1] = completeTree(leaves)[level][2 * index + 1]
    BY <1>2, <2>2, <2>3
  <2>5. \A t : completeTree(t)[level + 1][index] =
          hash(completeTree(t)[level][2 * index], completeTree(t)[level][2 * index + 1])
    BY TreeValues
  <2> QED BY <2>4, <2>5
<1> HIDE DEF S
<1>3. Nat \subseteq S
  BY <1>1, <1>2, Halves!Induction
<1> QED BY <1>3 DEF S

(* No node reads as the word 0, and nor does any default. *)
LEMMA NeverZero ==
    ASSUME NEW level \in Nat
    PROVE  /\ zeroChain[level] # Zero
           /\ \A leaves : \A index \in Nat :
                (\A i \in DOMAIN leaves : leaves[i] # Zero) /\ leaves \in Seq(Insertable) =>
                   completeTree(leaves)[level][index] # Zero
<1>1. \A left, right : hash(left, right) # Zero
  BY DEF hash, Zero
<1>2. zeroChain[level] # Zero
  <2>1. CASE level = 0
    BY <1>1, <2>1, ChainValues
  <2>2. CASE level # 0
    <3>1. zeroChain[(level - 1) + 1] = hash(zeroChain[level - 1], zeroChain[level - 1])
      BY <2>2, ChainValues
    <3> QED BY <1>1, <2>2, <3>1
  <2> QED BY <2>1, <2>2
<1>3. ASSUME NEW leaves \in Seq(Insertable), NEW index \in Nat,
             \A i \in DOMAIN leaves : leaves[i] # Zero
      PROVE  completeTree(leaves)[level][index] # Zero
  <2>1. CASE level = 0
    <3>1. index < Len(leaves) => leaves[index + 1] # Zero
      BY <1>3
    <3>2. zeroChain[0] # Zero
      BY <1>1, ChainValues
    <3> QED BY <2>1, <3>1, <3>2, TreeValues
  <2>2. CASE level # 0
    <3>1. \A m \in Nat : completeTree(leaves)[m + 1][index] =
            hash(completeTree(leaves)[m][2 * index], completeTree(leaves)[m][2 * index + 1])
      BY TreeValues
    <3>2. level - 1 \in Nat /\ level = (level - 1) + 1
      BY <2>2
    <3> QED BY <1>1, <3>1, <3>2
  <2> QED BY <2>1, <2>2
<1> QED BY <1>2, <1>3

(* Going up from a position with the siblings of the complete tree. *)
ClimbsTree(current, leaves, index) ==
    /\ current[0] = completeTree(leaves)[0][index]
    /\ \A level \in 0 .. Depth - 1 :
         LET idx == ancestor(index)[level]
         IN  current[level + 1] =
               parentOf(idx, current[level], completeTree(leaves)[level][siblingIndex(idx)])

LEMMA WalkUp ==
    ASSUME NEW leaves, NEW index \in Nat, NEW current, ClimbsTree(current, leaves, index)
    PROVE  \A level \in 0 .. Depth : current[level] = completeTree(leaves)[level][ancestor(index)[level]]
<1> DEFINE S == {level \in Nat : level <= Depth =>
                   current[level] = completeTree(leaves)[level][ancestor(index)[level]]}
<1>1. 0 \in S
  BY AncestorValues DEF ClimbsTree
<1>2. ASSUME NEW level \in Nat, level \in S PROVE level + 1 \in S
  <2> SUFFICES ASSUME level + 1 <= Depth
               PROVE  current[level + 1] = completeTree(leaves)[level + 1][ancestor(index)[level + 1]]
    OBVIOUS
  <2> DEFINE idx == ancestor(index)[level]
             up == idx \div 2
             tree == completeTree(leaves)
  <2>1. level \in 0 .. Depth - 1 /\ level <= Depth
    BY DepthAssumption
  <2>2. idx \in Nat /\ ancestor(index)[level + 1] = up
    BY AncestorBelow, AncestorValues
  <2>3. current[level] = tree[level][idx]
    BY <1>2, <2>1
  <2>4. current[level + 1] = parentOf(idx, tree[level][idx], tree[level][siblingIndex(idx)])
    BY <2>1, <2>3 DEF ClimbsTree
  <2>5. tree[level + 1][up] = hash(tree[level][2 * up], tree[level][2 * up + 1])
    <3>1. up \in Nat
      BY <2>2
    <3> QED BY <3>1, TreeValues
  <2> HIDE DEF tree, idx
  <2>6. CASE idx % 2 = 0
    <3>1. idx = 2 * up /\ siblingIndex(idx) = 2 * up + 1
      BY <2>2, <2>6, Siblings
    <3> HIDE DEF up
    <3> QED BY <2>2, <2>4, <2>5, <2>6, <3>1 DEF parentOf, tree
  <2>7. CASE idx % 2 # 0
    <3>1. idx = 2 * up + 1 /\ siblingIndex(idx) = 2 * up
      BY <2>2, <2>7, Siblings
    <3> HIDE DEF up
    <3> QED BY <2>2, <2>4, <2>5, <2>7, <3>1 DEF parentOf, tree
  <2> QED BY <2>6, <2>7
<1> HIDE DEF S
<1>3. Nat \subseteq S
  BY <1>1, <1>2, Halves!Induction
<1> QED BY <1>3, DepthAssumption DEF S

-----------------------------------------------------------------------------
(* What one insertion does. *)

(* A node is beyond the first n + 1 positions when it is beyond the first  *)
(* n and not on the path of the next one.                                  *)
LEMMA BeyondNext ==
    ASSUME NEW n \in Nat, NEW level \in Nat, NEW index \in Nat
    PROVE  /\ Beyond(n + 1, level, index) <=> index > ancestor(n)[level]
           /\ Beyond(n + 1, level, index) <=>
                Beyond(n, level, index) /\ index # ancestor(n)[level]
<1>1. Beyond(n + 1, level, index) <=> index > ancestor(n)[level]
  <2>1. n + 1 # 0 /\ n + 1 - 1 = n
    OBVIOUS
  <2> QED BY <2>1 DEF Beyond
<1>2. ancestor(n)[level] \in Nat
  BY AncestorBelow
<1>3. CASE n = 0
  <2>1. ancestor(0)[level] = 0
    <3>1. ancestor(0)[level] \in Nat /\ ancestor(0)[level] <= 0
      BY AncestorBelow
    <3> QED BY <3>1
  <2> QED BY <1>1, <1>3, <2>1 DEF Beyond
<1>4. CASE n # 0
  <2>1. n - 1 \in Nat /\ n - 1 <= n /\ n <= (n - 1) + 1
    BY <1>4
  <2>2. /\ ancestor(n - 1)[level] \in Nat
        /\ ancestor(n - 1)[level] <= ancestor(n)[level]
        /\ ancestor(n)[level] <= ancestor(n - 1)[level] + 1
    BY <2>1, AncestorBelow, AncestorOrder
  <2> QED BY <1>1, <1>2, <1>4, <2>2 DEF Beyond
<1> QED BY <1>3, <1>4

LEMMA InsertEffect ==
    ASSUME TypeOK, NEW leaf \in Insertable, Insert(leaf)
    PROVE  /\ nextIndex \in Nat /\ nextIndex' = nextIndex + 1 /\ nextIndex < MaxUint32
           /\ inserted' \in Seq(Insertable) /\ Len(inserted') = nextIndex + 1
           /\ inserted'[nextIndex + 1] = leaf
           /\ \A i \in 1 .. nextIndex : inserted'[i] = inserted[i]
           /\ \A level \in 0 .. Depth, index \in 0 .. MaxUint32 :
                nodes'[level][index] = IF index = ancestor(nextIndex)[level]
                                       THEN path(nextIndex, leaf)[level]
                                       ELSE nodes[level][index]
           /\ root' = path(nextIndex, leaf)[Depth]
           /\ TypeOK'
<1>1. nextIndex \in Nat /\ nextIndex' = nextIndex + 1 /\ nextIndex < MaxUint32
  BY DEF TypeOK, Insert, incrementIndex
<1>2. inserted' = Append(inserted, leaf) /\ inserted \in Seq(Insertable)
      /\ nextIndex = Len(inserted)
  BY DEF TypeOK, Insert
<1>3. /\ inserted' \in Seq(Insertable) /\ Len(inserted') = nextIndex + 1
      /\ inserted'[nextIndex + 1] = leaf
      /\ \A i \in 1 .. nextIndex : inserted'[i] = inserted[i]
  BY <1>2
<1> DEFINE new == [level \in 0 .. Depth |->
                     [nodes[level] EXCEPT ![ancestor(nextIndex)[level]] =
                                             path(nextIndex, leaf)[level]]]
<1>4. nodes' = new
  BY DEF Insert
<1>5. \A level \in 0 .. Depth : nodes[level] = [index \in 0 .. MaxUint32 |-> nodes[level][index]]
  BY DEF TypeOK
<1>6. ASSUME NEW level \in 0 .. Depth
      PROVE  nodes'[level] =
               [index \in 0 .. MaxUint32 |-> IF index = ancestor(nextIndex)[level]
                                             THEN path(nextIndex, leaf)[level]
                                             ELSE nodes[level][index]]
  BY <1>4, <1>5
<1>7. nodes' = [level \in 0 .. Depth |-> [index \in 0 .. MaxUint32 |-> nodes'[level][index]]]
  <2>1. DOMAIN nodes' = 0 .. Depth /\ nodes' = [level \in 0 .. Depth |-> nodes'[level]]
    BY <1>4
  <2> QED BY <1>6, <2>1
<1>8. root' = path(nextIndex, leaf)[Depth]
  BY DEF Insert, rootAfter
<1>9. \A level \in 0 .. Depth, index \in 0 .. MaxUint32 :
        nodes'[level][index] = IF index = ancestor(nextIndex)[level]
                               THEN path(nextIndex, leaf)[level]
                               ELSE nodes[level][index]
  <2> SUFFICES ASSUME NEW level \in 0 .. Depth, NEW index \in 0 .. MaxUint32
               PROVE  nodes'[level][index] = IF index = ancestor(nextIndex)[level]
                                             THEN path(nextIndex, leaf)[level]
                                             ELSE nodes[level][index]
    OBVIOUS
  <2>1. nodes'[level] =
          [k \in 0 .. MaxUint32 |-> IF k = ancestor(nextIndex)[level]
                                    THEN path(nextIndex, leaf)[level]
                                    ELSE nodes[level][k]]
    BY <1>6
  <2> HIDE DEF new
  <2> QED BY <2>1
<1>10. nextIndex' = Len(inserted') /\ nextIndex' <= MaxUint32
  BY <1>1, <1>3, DepthAssumption
<1>11. zeros' = [level \in 0 .. Depth - 1 |-> zeroChain[level]]
  BY DEF TypeOK, Insert
<1> HIDE DEF new
<1>12. TypeOK'
  BY <1>3, <1>7, <1>10, <1>11 DEF TypeOK
<1> QED BY <1>1, <1>3, <1>8, <1>9, <1>12

(* The nodes on the way up, and their siblings, are nodes of the mapping.  *)
LEMMA WithinNodes ==
    ASSUME NEW index \in Nat, index < MaxUint32, NEW level \in Nat
    PROVE  /\ ancestor(index)[level] \in 0 .. MaxUint32
           /\ siblingIndex(ancestor(index)[level]) \in 0 .. MaxUint32
<1>1. ancestor(index)[level] \in Nat /\ ancestor(index)[level] <= index
  BY AncestorBelow
<1>2. siblingIndex(ancestor(index)[level]) \in Nat
      /\ siblingIndex(ancestor(index)[level]) <= ancestor(index)[level] + 1
  BY <1>1, Siblings
<1> QED BY <1>1, <1>2, DepthAssumption

(* Reading a node, or the default of its level, reads the complete tree.   *)
LEMMA ReadsTree ==
    ASSUME TreeInv, \A i \in DOMAIN inserted : inserted[i] # Zero,
           NEW level \in 0 .. Depth - 1, NEW index \in 0 .. MaxUint32
    PROVE  nodeOrZero(level, index) = completeTree(inserted)[level][index]
<1>1. level \in Nat /\ level \in 0 .. Depth /\ index \in Nat
  BY DepthAssumption
<1>2. zeros[level] = zeroChain[level]
  BY DEF TreeInv, TypeOK
<1>3. inserted \in Seq(Insertable) /\ nextIndex = Len(inserted)
  BY DEF TreeInv, TypeOK
<1>4. CASE Beyond(nextIndex, level, index)
  <2>1. nodes[level][index] = Zero
    BY <1>1, <1>4 DEF TreeInv, UnusedZero
  <2>2. Len(inserted) \in Nat
    BY <1>3
  <2>3. completeTree(inserted)[level][index] = zeroChain[level]
    BY <1>1, <1>3, <1>4, <2>2, BeyondTree
  <2> QED BY <1>2, <2>1, <2>3 DEF nodeOrZero
<1>5. CASE ~Beyond(nextIndex, level, index)
  <2>1. nodes[level][index] = completeTree(inserted)[level][index]
    BY <1>1, <1>5 DEF TreeInv, NodesOfTree
  <2>2. completeTree(inserted)[level][index] # Zero
    BY <1>1, <1>3, NeverZero
  <2> QED BY <2>1, <2>2 DEF nodeOrZero
<1> QED BY <1>4, <1>5

(* The path of a new leaf is the path of the complete tree. *)
LEMMA PathTree ==
    ASSUME TreeInv, NEW leaf \in Insertable, Insert(leaf),
           \A i \in DOMAIN inserted' : inserted'[i] # Zero
    PROVE  \A level \in 0 .. Depth :
             path(nextIndex, leaf)[level] =
                completeTree(inserted')[level][ancestor(nextIndex)[level]]
<1> DEFINE longer == inserted'
           n == nextIndex
           current == path(n, leaf)
<1>1. TypeOK /\ n \in Nat /\ n < MaxUint32 /\ Len(inserted) = n
  BY InsertEffect DEF TreeInv, TypeOK
<1>2. /\ longer \in Seq(Insertable) /\ Len(longer) = n + 1 /\ longer[n + 1] = leaf
      /\ \A i \in 1 .. n : longer[i] = inserted[i]
  BY <1>1, InsertEffect
<1>3. \A i \in DOMAIN inserted : inserted[i] # Zero
  <2>1. inserted \in Seq(Insertable)
    BY <1>1 DEF TypeOK
  <2>2. DOMAIN inserted = 1 .. n /\ DOMAIN longer = 1 .. n + 1
    BY <1>1, <1>2, <2>1
  <2> QED BY <1>1, <1>2, <2>2
<1> HIDE DEF longer
<1>4. current[0] = completeTree(longer)[0][n]
  <2>1. n < Len(longer)
    BY <1>1, <1>2
  <2>2. completeTree(longer)[0][n] = leaf
    BY <1>1, <1>2, <2>1, TreeValues
  <2> QED BY <2>2, PathValues
<1>5. ASSUME NEW level \in 0 .. Depth - 1, NEW idx, idx = ancestor(n)[level]
      PROVE  current[level + 1] =
               parentOf(idx, current[level], completeTree(longer)[level][siblingIndex(idx)])
  <2>1. level \in Nat /\ idx \in Nat /\ siblingIndex(idx) \in 0 .. MaxUint32
    BY <1>1, <1>5, WithinNodes, AncestorBelow, DepthAssumption
  <2>2. current[level + 1] = parentOf(idx, current[level], nodeOrZero(level, siblingIndex(idx)))
    BY <1>5, <2>1, PathValues
  <2>3. nodeOrZero(level, siblingIndex(idx)) = completeTree(inserted)[level][siblingIndex(idx)]
    BY <1>3, <2>1, ReadsTree
  <2>4. siblingIndex(idx) \in Nat /\ siblingIndex(idx) # idx
    BY <2>1, Siblings
  <2>5. completeTree(longer)[level][siblingIndex(idx)] =
          completeTree(inserted)[level][siblingIndex(idx)]
    BY <1>1, <1>2, <1>5, <2>1, <2>4, TreeGrows, SMTT(20)
  <2> QED BY <2>2, <2>3, <2>5
<1> HIDE DEF current, n
<1>6. \A level \in 0 .. Depth : current[level] = completeTree(longer)[level][ancestor(n)[level]]
  <2>1. ClimbsTree(current, longer, n)
    BY <1>4, <1>5 DEF ClimbsTree
  <2> QED BY <1>1, <2>1, WalkUp
<1> QED BY <1>6 DEF current, longer, n

-----------------------------------------------------------------------------
(* The tree. *)

LEMMA TreeInit == Init => TreeInv
<1> SUFFICES ASSUME Init PROVE TreeInv
  OBVIOUS
<1>1. inserted = <<>> /\ nextIndex = 0
  BY DEF Init
<1>2. inserted \in Seq(Insertable) /\ Len(inserted) = 0
  BY <1>1
<1>3. nodes = [level \in 0 .. Depth |-> [index \in 0 .. MaxUint32 |-> Zero]]
  BY DEF Init
<1>4. \A level \in 0 .. Depth, index \in 0 .. MaxUint32 : nodes[level][index] = Zero
  BY <1>3
<1>5. nodes = [level \in 0 .. Depth |-> [index \in 0 .. MaxUint32 |-> nodes[level][index]]]
  BY <1>3
<1>6. TypeOK
  BY <1>1, <1>2, <1>5, DepthAssumption DEF TypeOK, Init
<1>7. UnusedZero /\ NodesOfTree
  BY <1>1, <1>4 DEF UnusedZero, NodesOfTree, Beyond
<1>8. LeavesKept /\ RootOfLast
  BY <1>1, <1>2 DEF LeavesKept, RootOfLast
<1> QED BY <1>6, <1>7, <1>8 DEF TreeInv

LEMMA TreeStep ==
    ASSUME TreeInv, NEW leaf \in Insertable, Insert(leaf)
    PROVE  TreeInv'
<1> DEFINE n == nextIndex
           current == path(n, leaf)
<1>1. TypeOK /\ n \in Nat /\ n < MaxUint32 /\ Len(inserted) = n /\ n' = n + 1
      /\ TypeOK'
  BY InsertEffect DEF TreeInv, TypeOK
<1>2. /\ inserted' \in Seq(Insertable) /\ Len(inserted') = n + 1 /\ inserted'[n + 1] = leaf
      /\ \A i \in 1 .. n : inserted'[i] = inserted[i]
  BY <1>1, InsertEffect
<1>3. \A level \in 0 .. Depth, index \in 0 .. MaxUint32 :
        nodes'[level][index] = IF index = ancestor(n)[level] THEN current[level]
                               ELSE nodes[level][index]
  BY <1>1, InsertEffect
<1>4. UnusedZero'
  <2> SUFFICES ASSUME NEW level \in 0 .. Depth, NEW index \in 0 .. MaxUint32,
                      Beyond(n + 1, level, index)
               PROVE  nodes'[level][index] = Zero
    BY <1>1 DEF UnusedZero
  <2>1. Beyond(n, level, index) /\ index # ancestor(n)[level]
    BY <1>1, BeyondNext, DepthAssumption
  <2> QED BY <1>3, <2>1 DEF TreeInv, UnusedZero
<1>5. LeavesKept'
  <2> SUFFICES ASSUME NEW i \in 1 .. n + 1 PROVE nodes'[0][i - 1] = inserted'[i]
    BY <1>2 DEF LeavesKept
  <2>1. 0 \in 0 .. Depth /\ i - 1 \in 0 .. MaxUint32
    BY <1>1, DepthAssumption
  <2>2. ancestor(n)[0] = n
    BY AncestorValues
  <2>3. CASE i = n + 1
    <3>1. nodes'[0][i - 1] = current[0]
      BY <1>1, <1>3, <2>1, <2>2, <2>3
    <3> QED BY <1>2, <2>3, <3>1, PathValues
  <2>4. CASE i # n + 1
    <3>1. i \in 1 .. n /\ i - 1 # n
      BY <1>1, <2>4
    <3>2. nodes'[0][i - 1] = nodes[0][i - 1]
      BY <1>3, <2>1, <2>2, <3>1
    <3>3. nodes[0][i - 1] = inserted[i]
      BY <1>1, <3>1 DEF TreeInv, LeavesKept
    <3> QED BY <1>2, <3>1, <3>2, <3>3
  <2> QED BY <2>3, <2>4
<1>6. NodesOfTree'
  <2> SUFFICES ASSUME \A i \in DOMAIN inserted' : inserted'[i] # Zero,
                      NEW level \in 0 .. Depth, NEW index \in 0 .. MaxUint32,
                      ~Beyond(n + 1, level, index)
               PROVE  nodes'[level][index] = completeTree(inserted')[level][index]
    BY <1>1 DEF NodesOfTree
  <2>1. level \in Nat /\ index \in Nat
    BY DepthAssumption
  <2>2. CASE index = ancestor(n)[level]
    <3>1. current[level] = completeTree(inserted')[level][ancestor(n)[level]]
      BY PathTree
    <3> QED BY <1>3, <2>2, <3>1
  <2>3. CASE index # ancestor(n)[level]
    <3>1. ~Beyond(n, level, index)
      BY <1>1, <2>1, <2>3, BeyondNext
    <3>2. \A i \in DOMAIN inserted : inserted[i] # Zero
      <4>1. inserted \in Seq(Insertable)
        BY <1>1 DEF TypeOK
      <4>2. DOMAIN inserted = 1 .. n /\ DOMAIN inserted' = 1 .. n + 1
        BY <1>1, <1>2, <4>1
      <4> QED BY <1>1, <1>2, <4>2
    <3>3. nodes[level][index] = completeTree(inserted)[level][index]
      BY <3>1, <3>2 DEF TreeInv, NodesOfTree
    <3>4. completeTree(inserted')[level][index] = completeTree(inserted)[level][index]
      <4> DEFINE longer == inserted'
      <4>1. Len(longer) = Len(inserted) + 1 /\ Len(inserted) \in Nat
            /\ \A i \in 1 .. Len(inserted) : longer[i] = inserted[i]
        BY <1>1, <1>2
      <4> HIDE DEF longer
      <4>2. completeTree(longer)[level][index] = completeTree(inserted)[level][index]
        BY <1>1, <2>1, <2>3, <4>1, TreeGrows
      <4> QED BY <4>2 DEF longer
    <3> QED BY <1>3, <2>3, <3>3, <3>4
  <2> QED BY <2>2, <2>3
<1>7. RootOfLast'
  <2>1. root' = current[Depth]
    BY <1>1, InsertEffect
  <2>2. Depth \in 0 .. Depth /\ ancestor(n)[Depth] \in 0 .. MaxUint32
    BY <1>1, WithinNodes, DepthAssumption
  <2>3. nodes'[Depth][ancestor(n)[Depth]] = current[Depth]
    BY <1>3, <2>2
  <2>4. n' - 1 = n
    BY <1>1
  <2> QED BY <2>1, <2>3, <2>4 DEF RootOfLast
<1> QED BY <1>1, <1>4, <1>5, <1>6, <1>7 DEF TreeInv

LEMMA TreeStays == TreeInv /\ UNCHANGED vars => TreeInv'
<1> SUFFICES ASSUME TreeInv, UNCHANGED vars PROVE TreeInv'
  OBVIOUS
<1>1. TypeOK' /\ UnusedZero'
  BY DEF vars, TreeInv, TypeOK, UnusedZero
<1>2. LeavesKept' /\ NodesOfTree' /\ RootOfLast'
  BY DEF vars, TreeInv, LeavesKept, NodesOfTree, RootOfLast
<1> QED BY <1>1, <1>2 DEF TreeInv

(* At every level the mapping holds the nodes of the complete tree over    *)
(* the leaves, and word 0 where no leaf was inserted yet.                  *)
THEOREM TreeInvariance == Spec => []TreeInv
<1>1. TreeInv /\ [Next]_vars => TreeInv'
  BY TreeStep, TreeStays DEF Next
<1> QED BY TreeInit, <1>1, PTL DEF Spec

(* The last path is that of the root. *)
LEMMA RootAtTop ==
    ASSUME TreeInv, nextIndex # 0, nextIndex <= Capacity
    PROVE  root = nodes[Depth][0] /\ ~Beyond(nextIndex, Depth, 0)
<1>1. nextIndex \in Nat /\ nextIndex - 1 \in Nat /\ Depth \in Nat
  BY DepthAssumption DEF TreeInv, TypeOK
<1>2. nextIndex - 1 < width[Depth] /\ width[Depth] \in Nat
  BY <1>1, AncestorAtTop DEF Capacity
<1>3. ancestor(nextIndex - 1)[Depth] = 0
  BY <1>1, <1>2, AncestorAtTop
<1> QED BY <1>3 DEF TreeInv, RootOfLast, Beyond

(* Updating one path at a time gives the root of the complete tree.        *)
THEOREM RootIsReferenceHolds == Spec => []RootIsReference
<1>1. TreeInv => RootIsReference
  <2> SUFFICES ASSUME TreeInv, Plain, inserted # <<>>
               PROVE  root = completeTree(inserted)[Depth][0]
    BY DEF RootIsReference
  <2>1. inserted \in Seq(Insertable) /\ nextIndex = Len(inserted)
    BY DEF TreeInv, TypeOK
  <2>2. nextIndex # 0 /\ nextIndex <= Capacity
    BY <2>1 DEF Plain
  <2>3. Depth \in 0 .. Depth /\ 0 \in 0 .. MaxUint32
    BY DepthAssumption
  <2> QED BY <2>2, <2>3, RootAtTop DEF TreeInv, NodesOfTree, Plain
<1> QED BY <1>1, TreeInvariance, PTL

(* Every leaf stays where it was inserted, and its proof leads from it to  *)
(* the root reported at that moment.                                       *)
THEOREM ProofsVerifyHolds == Spec => []ProofsVerify
<1>1. TreeInv => ProofsVerify
  <2> SUFFICES ASSUME TreeInv, NEW i \in 1 .. Len(inserted)
               PROVE  /\ getLeaf(i - 1) = inserted[i]
                      /\ Plain => rootOfPath(getLeaf(i - 1), getProof(i - 1)) = root
    BY DEF ProofsVerify
  <2>1. inserted \in Seq(Insertable) /\ nextIndex = Len(inserted) /\ nextIndex <= MaxUint32
    BY DEF TreeInv, TypeOK
  <2>2. getLeaf(i - 1) = inserted[i]
    BY DEF getLeaf, TreeInv, LeavesKept
  <2>3. ASSUME Plain PROVE rootOfPath(getLeaf(i - 1), getProof(i - 1)) = root
    <3> DEFINE index == i - 1
               proof == getProof(index)
    <3>1. index \in Nat /\ index < MaxUint32 /\ index < Len(inserted) /\ index + 1 = i
      BY <2>1, DepthAssumption
    <3> HIDE DEF index, proof
    <3>2. PICK current : Climbs(current, getLeaf(index), proof)
      BY ProofPathValues
    <3>3. current[0] = completeTree(inserted)[0][index]
      <4>1. completeTree(inserted)[0][index] = inserted[index + 1]
        BY <3>1, TreeValues
      <4> QED BY <2>2, <3>1, <3>2, <4>1 DEF index, Climbs
    <3>4. ASSUME NEW level \in 0 .. Depth - 1, NEW idx, idx = ancestor(index)[level]
          PROVE  current[level + 1] =
                   parentOf(idx, current[level], completeTree(inserted)[level][siblingIndex(idx)])
      <4>0. level \in Nat
        BY DepthAssumption
      <4>1. idx \in Nat /\ siblingIndex(idx) \in 0 .. MaxUint32
        BY <3>1, <3>4, <4>0, WithinNodes, AncestorBelow
      <4>2. proof[level] = [sibling |-> nodeOrZero(level, siblingIndex(idx)), pathIndex |-> idx % 2]
        BY <3>4 DEF getProof, proof
      <4>3. nodeOrZero(level, siblingIndex(idx)) = completeTree(inserted)[level][siblingIndex(idx)]
        BY <2>3, <4>1, ReadsTree DEF Plain
      <4>4. \A c, s : parentOf(idx % 2, c, s) = parentOf(idx, c, s)
        BY <4>1 DEF parentOf
      <4>5. current[level + 1] = parentOf(idx % 2, current[level],
                                          nodeOrZero(level, siblingIndex(idx)))
        <5>1. current[level + 1] = parentOf(proof[level].pathIndex, current[level], proof[level].sibling)
          BY <3>2, <4>0 DEF Climbs
        <5>2. proof[level].pathIndex = idx % 2 /\ proof[level].sibling = nodeOrZero(level, siblingIndex(idx))
          BY <4>2
        <5> QED BY <5>1, <5>2
      <4> QED BY <4>3, <4>4, <4>5
    <3>5. \A level \in 0 .. Depth :
            current[level] = completeTree(inserted)[level][ancestor(index)[level]]
      <4> DEFINE leaves == inserted
      <4>1. current[0] = completeTree(leaves)[0][index]
        BY <3>3
      <4>2. ASSUME NEW level \in 0 .. Depth - 1, NEW idx, idx = ancestor(index)[level]
            PROVE  current[level + 1] =
                     parentOf(idx, current[level], completeTree(leaves)[level][siblingIndex(idx)])
        BY <3>4, <4>2
      <4> HIDE DEF leaves
      <4>3. \A level \in 0 .. Depth :
              current[level] = completeTree(leaves)[level][ancestor(index)[level]]
        <5>1. ClimbsTree(current, leaves, index)
          BY <4>1, <4>2 DEF ClimbsTree
        <5> QED BY <3>1, <5>1, WalkUp
      <4> QED BY <4>3 DEF leaves
    <3>6. ancestor(index)[Depth] = 0
      BY <2>3, <3>1, AncestorAtTop, DepthAssumption DEF Plain, Capacity
    <3>7. current[Depth] = completeTree(inserted)[Depth][0]
      BY <3>5, <3>6, DepthAssumption
    <3>8. root = completeTree(inserted)[Depth][0]
      <4>1. nextIndex # 0 /\ nextIndex <= Capacity
        BY <2>1, <2>3 DEF Plain
      <4>2. Depth \in 0 .. Depth /\ 0 \in 0 .. MaxUint32
        BY DepthAssumption
      <4> QED BY <2>3, <4>1, <4>2, RootAtTop DEF TreeInv, NodesOfTree, Plain
    <3> QED BY <3>2, <3>7, <3>8 DEF index, proof, Climbs
  <2> QED BY <2>2, <2>3
<1> QED BY <1>1, TreeInvariance, PTL

-----------------------------------------------------------------------------
(* What a root tells about the positions under it. *)

(* Going down from a root along the ancestors of a position.               *)
Descends(node, top, index) ==
    /\ node[Depth] = top
    /\ \A level \in 0 .. Depth - 1 :
         node[level] = node[level + 1][1 + (ancestor(index)[level] % 2)]

LEMMA Descend ==
    ASSUME NEW node, NEW top, NEW index, Descends(node, top, index)
    PROVE  leafBelow(top, index) = node[0]
<1>1. PICK below :
        /\ below[0] = top
        /\ \A steps \in Nat :
             below[steps + 1] = below[steps][1 + (ancestor(index)[Depth - (steps + 1)] % 2)]
        /\ leafBelow(top, index) = below[Depth]
  BY DescentValues
<1> DEFINE S == {steps \in Nat : steps <= Depth => below[steps] = node[Depth - steps]}
<1>2. 0 \in S
  BY <1>1, DepthAssumption DEF Descends
<1>3. ASSUME NEW steps \in Nat, steps \in S PROVE steps + 1 \in S
  <2> SUFFICES ASSUME steps + 1 <= Depth PROVE below[steps + 1] = node[Depth - (steps + 1)]
    OBVIOUS
  <2> DEFINE level == Depth - (steps + 1)
  <2>1. level \in 0 .. Depth - 1 /\ level + 1 = Depth - steps /\ steps <= Depth
    BY DepthAssumption
  <2>2. below[steps] = node[level + 1]
    BY <1>3, <2>1
  <2>3. below[steps + 1] = below[steps][1 + (ancestor(index)[level] % 2)]
    BY <1>1
  <2> HIDE DEF level
  <2>4. node[level] = node[level + 1][1 + (ancestor(index)[level] % 2)]
    BY <2>1 DEF Descends
  <2>5. below[steps + 1] = node[level]
    BY <2>2, <2>3, <2>4
  <2> QED BY <2>5 DEF level
<1> HIDE DEF S
<1>4. Nat \subseteq S
  BY <1>2, <1>3, Halves!Induction
<1>5. below[Depth] = node[Depth - Depth] /\ Depth - Depth = 0
  BY <1>4, DepthAssumption DEF S
<1> QED BY <1>1, <1>5

(* A parent has the node on its side, and the sibling on the other.        *)
LEMMA Sides ==
    ASSUME NEW idx \in Nat, NEW current, NEW pair
    PROVE  /\ parentOf(idx, current, pair)[1 + (idx % 2)] = current
           /\ parentOf(idx, current, pair)[1 + (siblingIndex(idx) % 2)] = pair
<1>1. CASE idx % 2 = 0
  <2>1. siblingIndex(idx) % 2 = 1
    BY <1>1 DEF siblingIndex
  <2> QED BY <1>1, <2>1 DEF parentOf, hash
<1>2. CASE idx % 2 # 0
  <2>1. idx % 2 = 1 /\ siblingIndex(idx) % 2 = 0
    BY <1>2 DEF siblingIndex
  <2> QED BY <1>2, <2>1 DEF parentOf, hash
<1> QED BY <1>1, <1>2

(* The root of init shows word 0 everywhere. *)
LEMMA RootOfInit ==
    ASSUME NEW index \in Nat
    PROVE  leafBelow(zeroChain[Depth - 1], index) = Zero
<1> DEFINE node == [level \in 0 .. Depth |-> IF level = 0 THEN Zero ELSE zeroChain[level - 1]]
<1>1. node[Depth] = zeroChain[Depth - 1] /\ node[0] = Zero
  BY DepthAssumption
<1>2. ASSUME NEW level \in 0 .. Depth - 1
      PROVE  node[level] = node[level + 1][1 + (ancestor(index)[level] % 2)]
  <2>1. level \in Nat /\ level + 1 \in 0 .. Depth /\ level \in 0 .. Depth
    BY DepthAssumption
  <2>2. node[level + 1] = zeroChain[level]
    BY <2>1
  <2>3. zeroChain[level] = hash(node[level], node[level])
    <3>1. CASE level = 0
      BY <2>1, <3>1, ChainValues
    <3>2. CASE level # 0
      <4>1. level - 1 \in Nat /\ (level - 1) + 1 = level
        BY <2>1, <3>2
      <4> QED BY <2>1, <3>2, <4>1, ChainValues
    <3> QED BY <3>1, <3>2
  <2>4. ancestor(index)[level] \in Nat
    BY <2>1, AncestorBelow
  <2>5. 1 + (ancestor(index)[level] % 2) \in {1, 2}
    BY <2>4
  <2> HIDE DEF node
  <2> QED BY <2>2, <2>3, <2>5 DEF hash
<1> HIDE DEF node
<1>3. Descends(node, zeroChain[Depth - 1], index)
  BY <1>1, <1>2 DEF Descends
<1> QED BY <1>1, <1>3, Descend

(* The path of an insertion, read from the top. *)
LEMMA PathDown ==
    ASSUME TypeOK, NEW leaf \in Insertable, Insert(leaf), NEW level \in Nat
    PROVE  LET idx == ancestor(nextIndex)[level]
               above == path(nextIndex, leaf)[level + 1]
           IN  /\ above[1 + (idx % 2)] = path(nextIndex, leaf)[level]
               /\ above[1 + (siblingIndex(idx) % 2)] = nodeOrZero(level, siblingIndex(idx))
<1>1. ancestor(nextIndex)[level] \in Nat
  BY InsertEffect, AncestorBelow
<1> QED BY <1>1, PathValues, Sides

(* The new root shows the new leaf, a sibling that is not word 0 and, at   *)
(* the positions after it, that they were not used.                        *)
LEMMA RootShows ==
    ASSUME TreeInv, NEW leaf \in Insertable, Insert(leaf)
    PROVE  /\ leafBelow(root', nextIndex) = leaf
           /\ leafBelow(root', siblingIndex(nextIndex)) # Zero
           /\ \A index \in Nat :
                index > nextIndex /\ ancestor(index)[Depth] = ancestor(nextIndex)[Depth] =>
                   leafBelow(root', index) = zeroChain[0]
<1> DEFINE n == nextIndex
           current == path(n, leaf)
           top == root'
<1>1. TypeOK /\ n \in Nat /\ n < MaxUint32 /\ top = current[Depth]
  BY InsertEffect DEF TreeInv
<1>2. \A level \in Nat :
        /\ current[level + 1][1 + (ancestor(n)[level] % 2)] = current[level]
        /\ current[level + 1][1 + (siblingIndex(ancestor(n)[level]) % 2)]
             = nodeOrZero(level, siblingIndex(ancestor(n)[level]))
  BY <1>1, PathDown
<1>3. current[0] = leaf /\ ancestor(n)[0] = n
  BY PathValues, AncestorValues
<1>4. \A level \in 0 .. Depth - 1 : zeros[level] = zeroChain[level]
  BY <1>1 DEF TypeOK
<1>5. Depth \in Nat /\ Depth # 0
  BY DepthAssumption
<1> HIDE DEF current, top
<1>6. leafBelow(top, n) = leaf
  <2>1. Descends(current, top, n)
    BY <1>1, <1>2, <1>5 DEF Descends
  <2> QED BY <1>3, <2>1, Descend
<1>7. leafBelow(top, siblingIndex(n)) # Zero
  <2> DEFINE other == siblingIndex(n)
             sibling == nodeOrZero(0, other)
             node == [level \in 0 .. Depth |-> IF level = 0 THEN sibling ELSE current[level]]
  <2>1. other \in Nat /\ other \div 2 = n \div 2
    BY <1>1, Siblings
  <2>2. sibling # Zero
    BY <1>4, <1>5, NeverZero DEF nodeOrZero
  <2>3. node[0] = sibling /\ node[Depth] = top
    BY <1>1, <1>5
  <2>4. ASSUME NEW level \in 0 .. Depth - 1
        PROVE  node[level] = node[level + 1][1 + (ancestor(other)[level] % 2)]
    <3>1. level \in Nat /\ level + 1 \in 0 .. Depth /\ level \in 0 .. Depth
      BY <1>5
    <3>2. node[level + 1] = current[level + 1]
      BY <3>1
    <3>3. CASE level = 0
      <4>1. ancestor(other)[0] = other
        BY AncestorValues
      <4>2. current[0 + 1][1 + (other % 2)] = sibling
        BY <1>2, <1>3
      <4> QED BY <2>3, <3>2, <3>3, <4>1, <4>2
    <3>4. CASE level # 0
      <4>1. level - 1 \in Nat /\ (level - 1) + 1 = level
        BY <3>1, <3>4
      <4>2. ancestor(other)[level] = ancestor(other \div 2)[level - 1]
            /\ ancestor(n)[level] = ancestor(n \div 2)[level - 1]
        BY <1>1, <2>1, <4>1, AncestorOfParent
      <4>3. node[level] = current[level]
        BY <3>1, <3>4
      <4> HIDE DEF node
      <4> QED BY <1>2, <2>1, <3>1, <3>2, <4>2, <4>3
    <3> QED BY <3>3, <3>4
  <2> HIDE DEF node, other
  <2>5. Descends(node, top, other)
    BY <2>3, <2>4 DEF Descends
  <2>6. leafBelow(top, other) = sibling
    BY <2>3, <2>5, Descend
  <2> QED BY <2>2, <2>6 DEF other
<1>8. ASSUME NEW index \in Nat, index > n, ancestor(index)[Depth] = ancestor(n)[Depth]
      PROVE  leafBelow(top, index) = zeroChain[0]
  <2> DEFINE node == [level \in 0 .. Depth |-> IF ancestor(index)[level] = ancestor(n)[level]
                                               THEN current[level] ELSE zeroChain[level]]
  <2>1. node[Depth] = top /\ node[0] = zeroChain[0]
    <3>1. ancestor(index)[0] # ancestor(n)[0]
      BY <1>1, <1>8, AncestorValues
    <3> QED BY <1>1, <1>5, <1>8, <3>1
  <2>2. ASSUME NEW level \in 0 .. Depth - 1
        PROVE  node[level] = node[level + 1][1 + (ancestor(index)[level] % 2)]
    <3> DEFINE mine == ancestor(n)[level]
               its == ancestor(index)[level]
    <3>1. level \in Nat /\ level + 1 \in 0 .. Depth /\ level \in 0 .. Depth
      BY <1>5
    <3>2. mine \in Nat /\ its \in Nat /\ mine <= its
      BY <1>1, <1>8, <3>1, AncestorBelow, AncestorOrder
    <3>3. ancestor(n)[level + 1] = mine \div 2 /\ ancestor(index)[level + 1] = its \div 2
      BY <3>1, AncestorValues
    <3>4. node[level] = (IF its = mine THEN current[level] ELSE zeroChain[level])
          /\ node[level + 1] = (IF its \div 2 = mine \div 2 THEN current[level + 1]
                                ELSE zeroChain[level + 1])
      BY <3>1, <3>3
    <3> HIDE DEF node
    <3>5. CASE its = mine
      BY <1>2, <3>1, <3>4, <3>5
    <3>6. CASE its # mine /\ its \div 2 = mine \div 2
      <4>1. its = siblingIndex(mine)
        BY <3>2, <3>6, Siblings
      <4>2. node[level + 1][1 + (its % 2)] = nodeOrZero(level, its)
        BY <1>2, <3>1, <3>4, <3>6, <4>1
      <4>3. its \in 0 .. MaxUint32
        BY <1>1, <3>1, <4>1, WithinNodes
      <4>4. Beyond(n + 1, level, its)
        BY <1>1, <3>1, <3>2, <3>6, BeyondNext
      <4>5. Beyond(n, level, its)
        BY <1>1, <3>1, <3>2, <4>4, BeyondNext
      <4>6. nodes[level][its] = Zero
        BY <3>1, <4>3, <4>5 DEF TreeInv, UnusedZero
      <4>7. nodeOrZero(level, its) = zeroChain[level]
        BY <1>4, <4>6 DEF nodeOrZero
      <4> QED BY <3>4, <3>6, <4>2, <4>7
    <3>7. CASE its # mine /\ its \div 2 # mine \div 2
      <4>1. node[level + 1] = hash(zeroChain[level], zeroChain[level])
        BY <3>1, <3>4, <3>7, ChainValues
      <4>2. 1 + (its % 2) \in {1, 2}
        BY <3>2
      <4>3. node[level] = zeroChain[level]
        BY <3>4, <3>7
      <4> DEFINE side == 1 + (its % 2)
      <4> HIDE DEF side
      <4>4. node[level + 1][side] = zeroChain[level]
        BY <4>1, <4>2 DEF hash, side
      <4> QED BY <4>3, <4>4 DEF side
    <3> QED BY <3>5, <3>6, <3>7
  <2> HIDE DEF node
  <2>3. Descends(node, top, index)
    BY <2>1, <2>2 DEF Descends
  <2> QED BY <2>1, <2>3, Descend
<1> QED BY <1>6, <1>7, <1>8 DEF top

-----------------------------------------------------------------------------
(* The history. *)

LEMMA HistoryInit == Init => HistoryInv
<1> SUFFICES ASSUME Init PROVE HistoryInv
  OBVIOUS
<1>1. root = zeroChain[Depth - 1] /\ pastRoots = {} /\ nextIndex = 0
  <2>1. Depth - 1 \in 0 .. Depth - 1
    BY DepthAssumption
  <2> QED BY <2>1 DEF Init
<1> QED BY <1>1 DEF HistoryInv, Shows, RootsNeverRepeat

LEMMA HistoryStep ==
    ASSUME TreeInv, HistoryInv, NEW leaf \in Insertable, Insert(leaf)
    PROVE  HistoryInv'
<1> DEFINE n == nextIndex
<1>1. /\ TypeOK /\ n \in Nat /\ n' = n + 1 /\ Len(inserted) = n /\ Len(inserted') = n + 1
      /\ inserted'[n + 1] = leaf /\ inserted' \in Seq(Insertable)
  BY InsertEffect DEF TreeInv, TypeOK
<1>2. pastRoots' = pastRoots \cup {root}
  BY DEF Insert
<1> SUFFICES ASSUME n + 1 <= Capacity
             PROVE  /\ Shows(root', n + 1)
                    /\ \A top \in pastRoots' : \E m \in 0 .. n : Shows(top, m)
                    /\ RootsNeverRepeat'
  BY <1>1 DEF HistoryInv
<1>3. Depth \in Nat /\ Capacity \in Nat
  BY AncestorAtTop, DepthAssumption DEF Capacity
<1>4. \A index \in Nat : index < Capacity => ancestor(index)[Depth] = 0
  BY <1>3, AncestorAtTop DEF Capacity
<1>5. Shows(root', n + 1)
  <2>1. ASSUME NEW index \in n + 1 .. Capacity - 1 PROVE leafBelow(root', index) = zeroChain[0]
    <3>1. index \in Nat /\ index > n /\ index < Capacity /\ n < Capacity
      BY <1>1, <1>3
    <3>2. ancestor(index)[Depth] = ancestor(n)[Depth]
      BY <1>1, <1>4, <3>1
    <3> QED BY <3>1, <3>2, RootShows
  <2>2. n + 1 # 0
    BY <1>1
  <2> QED BY <2>1, <2>2 DEF Shows
<1>6. ASSUME NEW top \in pastRoots' PROVE \E m \in 0 .. n : Shows(top, m)
  <2>1. n <= Capacity
    BY <1>1, <1>3
  <2>2. CASE top = root
    <3>1. Shows(root, n) /\ n \in 0 .. n
      BY <1>1, <2>1 DEF HistoryInv
    <3> QED BY <2>2, <3>1
  <2>3. CASE top \in pastRoots
    <3>1. PICK m \in 0 .. n - 1 : Shows(top, m)
      BY <1>1, <2>1, <2>3 DEF HistoryInv
    <3>2. m \in 0 .. n
      BY <1>1
    <3> QED BY <3>1, <3>2
  <2> QED BY <1>2, <2>2, <2>3
<1>7. RootsNeverRepeat'
  <2> SUFFICES ASSUME \A i \in DOMAIN inserted' : inserted'[i] # zeroChain[0],
                      root' \in pastRoots'
               PROVE  FALSE
    BY DEF RootsNeverRepeat
  <2>1. leaf # zeroChain[0]
    <3>1. n + 1 \in DOMAIN inserted'
      BY <1>1
    <3> QED BY <1>1, <3>1
  <2>2. PICK m \in 0 .. n : Shows(root', m)
    BY <1>6
  <2>3. CASE m = 0
    <3>1. siblingIndex(n) \in Nat
      BY <1>1, Siblings
    <3>2. leafBelow(root', siblingIndex(n)) = Zero
      BY <2>2, <2>3, <3>1, RootOfInit DEF Shows
    <3> QED BY <3>2, RootShows
  <2>4. CASE m # 0
    <3>1. n \in m .. Capacity - 1
      BY <1>1, <1>3
    <3>2. leafBelow(root', n) = zeroChain[0]
      BY <2>2, <2>4, <3>1 DEF Shows
    <3> QED BY <2>1, <3>2, RootShows
  <2> QED BY <2>3, <2>4
<1> QED BY <1>5, <1>6, <1>7

(* Every root the tree ever reported tells how many leaves were inserted   *)
(* before it: it shows the positions that were not used then.              *)
THEOREM MerkleInvariance == Spec => []MerkleInv
<1>1. Init => MerkleInv
  BY TreeInit, HistoryInit DEF MerkleInv
<1>2. MerkleInv /\ [Next]_vars => MerkleInv'
  <2>1. ASSUME MerkleInv, NEW leaf \in Insertable, Insert(leaf) PROVE MerkleInv'
    BY <2>1, TreeStep, HistoryStep DEF MerkleInv
  <2>2. ASSUME MerkleInv, UNCHANGED vars PROVE MerkleInv'
    <3>1. HistoryInv'
      BY <2>2 DEF vars, MerkleInv, HistoryInv, RootsNeverRepeat
    <3> QED BY <2>2, <3>1, TreeStays DEF MerkleInv
  <2> QED BY <2>1, <2>2 DEF Next
<1> QED BY <1>1, <1>2, PTL DEF Spec

(* A root names one history of insertions.                                 *)
THEOREM RootsNeverRepeatHolds == Spec => []RootsNeverRepeat
<1>1. MerkleInv => RootsNeverRepeat
  BY DEF MerkleInv, HistoryInv, RootsNeverRepeat
<1> QED BY <1>1, MerkleInvariance, PTL
=============================================================================
