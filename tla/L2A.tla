-------------------------------- MODULE L2A --------------------------------
(***************************************************************************)
(* The source-chain contract, contracts/L2A.sol, as operators on the       *)
(* storage of one instance: a map of balances and the verifier bound by    *)
(* the constructor.  Bridge keeps the storage of every deployed instance   *)
(* and supplies the answer of the external call to the verifier.           *)
(***************************************************************************)
EXTENDS Integers

CONSTANTS
    Account,        \* the addresses that hold tokens
    InitialBalance  \* what the constructor credits, 1000 in the code

(* The storage just after the constructor ran for `sender`. *)
constructor(sender) ==
    [account \in Account |-> IF account = sender THEN InitialBalance ELSE 0]

uncheckedBalance(balances, sender, amount, verified) == verified

uncheckedProof(balances, sender, amount, verified) == balances[sender] >= amount

(* The two require statements of bridgeTransfer; otherwise it reverts. *)
bridgeTransferOK(balances, sender, amount, verified) ==
    /\ verified
    /\ balances[sender] >= amount

keptBalance(balances, sender, amount) == balances

(* Its effect: the amount leaves the sender and goes to nobody on L2A. *)
bridgeTransfer(balances, sender, amount) ==
    [balances EXCEPT ![sender] = @ - amount]
============================================================================
