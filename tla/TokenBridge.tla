---------------------------- MODULE TokenBridge ----------------------------
(***************************************************************************)
(* What a user may expect of the bridge, with no scripts, node or files:   *)
(* pairs of ledgers that open with a fixed supply on the source side, and  *)
(* transfers that take an amount from a pair's source side once and give   *)
(* it to the destination side of the same pair once, later.                *)
(***************************************************************************)
EXTENDS Integers, FiniteSets

CONSTANTS
    Transfer,  \* what moves tokens, each at most once
    Pair,      \* pairs of ledgers that may open
    NoPair,    \* the pair of a transfer that has not burned
    Amount,    \* what each transfer moves
    Supply     \* what the source side of a pair opens with

VARIABLES
    source,       \* the balance on the source side of each open pair
    destination,  \* the balance on its destination side
    phase,        \* per transfer: waiting, burned or minted
    route         \* per transfer: the pair it burned on

vars == <<source, destination, phase, route>>

Open == DOMAIN source

Init ==
    /\ source = [p \in {} |-> Supply]
    /\ destination = [p \in {} |-> 0]
    /\ phase = [t \in Transfer |-> "waiting"]
    /\ route = [t \in Transfer |-> NoPair]

OpenPair(p) ==
    /\ p \notin Open
    /\ source' = [q \in Open \cup {p} |-> IF q = p THEN Supply ELSE source[q]]
    /\ destination' = [q \in Open \cup {p} |-> IF q = p THEN 0 ELSE destination[q]]
    /\ UNCHANGED <<phase, route>>

BurnOn(t, p) ==
    /\ phase[t] = "waiting"
    /\ p \in Open
    /\ source[p] >= Amount
    /\ source' = [source EXCEPT ![p] = @ - Amount]
    /\ phase' = [phase EXCEPT ![t] = "burned"]
    /\ route' = [route EXCEPT ![t] = p]
    /\ UNCHANGED destination

MintFor(t) ==
    /\ phase[t] = "burned"
    /\ destination' = [destination EXCEPT ![route[t]] = @ + Amount]
    /\ phase' = [phase EXCEPT ![t] = "minted"]
    /\ UNCHANGED <<source, route>>

Next ==
    \/ \E p \in Pair : OpenPair(p)
    \/ \E t \in Transfer : MintFor(t) \/ \E p \in Pair : BurnOn(t, p)

Spec == Init /\ [][Next]_vars
=============================================================================
