-------------------------- MODULE BridgeRefinement --------------------------
(***************************************************************************)
(* The scripts and contracts of Bridge implement TokenBridge.  A pair is   *)
(* an L2A with its L2B, open from the moment the process that deploys them *)
(* has both; the balances are those of the two signers; a transfer is a    *)
(* run of transferBridge.js or demoBridge.js.                              *)
(***************************************************************************)
EXTENDS Bridge

(* Complete books that a deploying process has put together. *)
OpenBooks ==
    {at[r] : r \in {s \in Run : /\ at[s].l2b # NoAddr
                                /\ kind[s] \in {"deployContracts", "demoBridge"}}}

l2bOf(l2a) == (CHOOSE b \in OpenBooks : b.l2a = l2a).l2b

OpenPairs == {b.l2a : b \in OpenBooks}

PhaseOf(r) ==
    IF pc[r] = "mint" THEN "burned"
    ELSE IF r \in Transfers /\ pc[r] \in {"finalSender", "finalReceiver", "end"}
         THEN "minted"
         ELSE "waiting"

sourceSide == [l2a \in OpenPairs |-> balances[l2a][Deployer]]
destinationSide == [l2a \in OpenPairs |-> balances[l2bOf(l2a)][Receiver]]
phases == [r \in Run |-> PhaseOf(r)]
routes == [r \in Run |-> IF PhaseOf(r) = "waiting" THEN NoAddr ELSE at[r].l2a]

Abstract == INSTANCE TokenBridge WITH
    Transfer    <- Run,
    Pair        <- Addr,
    NoPair      <- NoAddr,
    Supply      <- InitialBalance,
    source      <- sourceSide,
    destination <- destinationSide,
    phase       <- phases,
    route       <- routes

(* Every step of every script is a step of the abstract bridge or leaves   *)
(* it alone: one burn and one mint per transfer, in this order, of the     *)
(* same amount and on the two sides of one pair.                           *)
RefinesTokenBridge == Abstract!Spec

(* No book comes from anywhere but a deployment: what a script loads from  *)
(* the file is what some deployContracts.js put together.                  *)
BooksDeployed == Books = OpenBooks

(* The inductive invariant that the refinement rests on.                   *)
RefinementInv ==
    /\ IInv
    /\ Itineraries
    /\ BooksDeployed
=============================================================================
