----------------------------- MODULE MerkleTree -----------------------------
(***************************************************************************)
(* contracts/lib/MerkleTree.sol: an append-only Merkle tree in contract    *)
(* storage.  The hash is free: poseidon([l, r, 0, 0]) is the pair <<l, r>>,*)
(* so two hashes are equal only when their inputs are, and no hash is the  *)
(* word 0 that an unset mapping entry reads as.                            *)
(***************************************************************************)
EXTENDS Integers, Sequences

CONSTANTS
    Leaf,       \* leaves that callers insert, besides the two of Insertable
    Depth,      \* the depth given to init
    MaxUint32   \* the largest uint32: nextIndex += 1 reverts there

ASSUME DepthAssumption == Depth \in Nat \ {0} /\ MaxUint32 \in Nat

VARIABLES
    nextIndex,  \* where the next leaf goes
    nodes,      \* nodes[level][index]
    zeros,      \* the default of each level, as init stores them
    root,       \* the root it reports
    inserted,   \* history: the leaves inserted, in order
    pastRoots   \* history: the roots reported before

vars == <<nextIndex, nodes, zeros, root, inserted, pastRoots>>

Zero == <<>>  \* bytes32(0)

hash(left, right) == <<left, right>>

(* zeros[0] = poseidon([0, 0, 0, 0]) and zeros[i+1] from zeros[i] twice. *)
zeroChain[level \in Nat] ==
    IF level = 0 THEN hash(Zero, Zero)
    ELSE hash(zeroChain[level - 1], zeroChain[level - 1])

(* A caller may insert any word, also 0 and the default of level 0. *)
Insertable == Leaf \cup {Zero, zeroChain[0]}

Init ==
    /\ nextIndex = 0
    /\ nodes = [level \in 0 .. Depth |-> [index \in 0 .. MaxUint32 |-> Zero]]
    /\ zeros = [level \in 0 .. Depth - 1 |-> zeroChain[level]]
    /\ root = zeros[Depth - 1]
    /\ inserted = <<>>
    /\ pastRoots = {}

(* idx of the loops at each level: idx = idx / 2 from one to the next. *)
ancestor(index) ==
    LET idx[level \in Nat] == IF level = 0 THEN index ELSE idx[level - 1] \div 2
    IN  idx

sameSideSibling(idx) == idx + 1

siblingIndex(idx) == IF idx % 2 = 0 THEN idx + 1 ELSE idx - 1

(* A stored word 0 stands for an empty subtree. *)
unfilledNode(level, index) == nodes[level][index]

nodeOrZero(level, index) ==
    IF nodes[level][index] = Zero THEN zeros[level] ELSE nodes[level][index]

parentOf(idx, current, pair) ==
    IF idx % 2 = 0 THEN hash(current, pair) ELSE hash(pair, current)

(* `current` of the loop in insert at each level, for `leaf` at `index`. *)
path(index, leaf) ==
    LET current[level \in Nat] ==
            IF level = 0 THEN leaf
            ELSE LET idx == ancestor(index)[level - 1]
                 IN  parentOf(idx, current[level - 1],
                              nodeOrZero(level - 1, siblingIndex(idx)))
    IN  current

staleRoot(current) == root

rootAfter(current) == current[Depth]

(* self.nextIndex += 1, which reverts rather than wrap around. *)
incrementIndex ==
    /\ nextIndex < MaxUint32
    /\ nextIndex' = nextIndex + 1

Insert(leaf) ==
    LET current == path(nextIndex, leaf)
    IN  /\ incrementIndex
        /\ nodes' = [level \in 0 .. Depth |->
                        [nodes[level] EXCEPT ![ancestor(nextIndex)[level]] = current[level]]]
        /\ root' = rootAfter(current)
        /\ inserted' = Append(inserted, leaf)
        /\ pastRoots' = pastRoots \cup {root}
        /\ UNCHANGED zeros

getLeaf(index) == nodes[0][index]

(* Siblings and path indices, from the leaf up. *)
getProof(leafIndex) ==
    [level \in 0 .. Depth - 1 |->
        LET idx == ancestor(leafIndex)[level]
        IN  [sibling |-> nodeOrZero(level, siblingIndex(idx)), pathIndex |-> idx % 2]]

Next == \E leaf \in Insertable : Insert(leaf)

Spec == Init /\ [][Next]_vars

-----------------------------------------------------------------------------
(* The positions under a node of each level. *)
width[level \in Nat] == IF level = 0 THEN 1 ELSE 2 * width[level - 1]

Capacity == width[Depth]

(* What a verifier of a proof does: hash up from the leaf, on the side that *)
(* each path index says.                                                   *)
rootOfPath(leaf, proof) ==
    LET current[level \in Nat] ==
            IF level = 0 THEN leaf
            ELSE parentOf(proof[level - 1].pathIndex, current[level - 1],
                          proof[level - 1].sibling)
    IN  current[Depth]

(* The complete tree over some leaves, with zeros[0] at every position that *)
(* is not used: its node at each level and index.                          *)
completeTree(leaves) ==
    LET node[level \in Nat] ==
            [index \in Nat |->
                IF level = 0
                THEN IF index < Len(leaves) THEN leaves[index + 1] ELSE zeroChain[0]
                ELSE hash(node[level - 1][2 * index], node[level - 1][2 * index + 1])]
    IN  node

(* Leaves that the tree can tell from an unused position, and no more of   *)
(* them than it has positions.                                             *)
Plain == Len(inserted) <= Capacity /\ \A i \in DOMAIN inserted : inserted[i] # Zero

(* Updating one path at a time gives the root of the complete tree. *)
RootIsReference ==
    Plain /\ inserted # <<>> => root = completeTree(inserted)[Depth][0]

(* A leaf stays where it was inserted, whatever comes after it, also when  *)
(* the counter is at its limit. At every moment the proof that getProof    *)
(* returns for a leaf, old or new, leads from it to the reported root.     *)
ProofsVerify ==
    \A i \in 1 .. Len(inserted) :
        /\ getLeaf(i - 1) = inserted[i]
        /\ Plain => rootOfPath(getLeaf(i - 1), getProof(i - 1)) = root

(* Within its capacity the tree never reports a root it reported before,   *)
(* even with zero leaves, as long as nobody inserts the word that stands   *)
(* for an unused position: a root names one history of insertions.         *)
RootsNeverRepeat ==
    Len(inserted) <= Capacity /\ (\A i \in DOMAIN inserted : inserted[i] # zeroChain[0]) =>
        root \notin pastRoots

-----------------------------------------------------------------------------
(* The inductive invariant: the tree, and what its roots tell. *)

(* Nothing of the first n positions lies under a node. *)
Beyond(n, level, index) == n = 0 \/ index > ancestor(n - 1)[level]

TypeOK ==
    /\ inserted \in Seq(Insertable)
    /\ nextIndex = Len(inserted) /\ nextIndex <= MaxUint32
    /\ nodes = [level \in 0 .. Depth |-> [index \in 0 .. MaxUint32 |-> nodes[level][index]]]
    /\ zeros = [level \in 0 .. Depth - 1 |-> zeroChain[level]]

UnusedZero ==
    \A level \in 0 .. Depth, index \in 0 .. MaxUint32 :
        Beyond(nextIndex, level, index) => nodes[level][index] = Zero

LeavesKept == \A i \in 1 .. Len(inserted) : nodes[0][i - 1] = inserted[i]

NodesOfTree ==
    (\A i \in DOMAIN inserted : inserted[i] # Zero) =>
        \A level \in 0 .. Depth, index \in 0 .. MaxUint32 :
            \/ Beyond(nextIndex, level, index)
            \/ nodes[level][index] = completeTree(inserted)[level][index]

RootOfLast ==
    nextIndex # 0 => root = nodes[Depth][ancestor(nextIndex - 1)[Depth]]

TreeInv == TypeOK /\ UnusedZero /\ LeavesKept /\ NodesOfTree /\ RootOfLast

(* What is found at a position by going down from a root. *)
leafBelow(top, index) ==
    LET node[steps \in Nat] ==
            IF steps = 0 THEN top
            ELSE node[steps - 1][1 + (ancestor(index)[Depth - steps] % 2)]
    IN  node[Depth]

(* The root of a tree into which n leaves were inserted shows the positions *)
(* that were not used; that of init is a level too low.                    *)
Shows(top, n) ==
    IF n = 0 THEN top = zeroChain[Depth - 1]
    ELSE \A index \in n .. Capacity - 1 : leafBelow(top, index) = zeroChain[0]

HistoryInv ==
    Len(inserted) <= Capacity =>
        /\ Shows(root, nextIndex)
        /\ \A top \in pastRoots : \E n \in 0 .. nextIndex - 1 : Shows(top, n)
        /\ RootsNeverRepeat

MerkleInv == TreeInv /\ HistoryInv
=============================================================================
