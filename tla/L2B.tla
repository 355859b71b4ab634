-------------------------------- MODULE L2B --------------------------------
(***************************************************************************)
(* The destination-chain contract, contracts/L2B.sol, as operators on the  *)
(* storage of one instance.                                                *)
(***************************************************************************)
EXTENDS Integers

CONSTANTS
    Account,  \* the addresses that hold tokens
    MaxUint   \* the largest uint256

(* A new instance: a Solidity mapping reads 0 everywhere. *)
emptyBalances == [account \in Account |-> 0]

(* Solidity 0.8 arithmetic reverts when the sum leaves uint256. *)
receiveFromBridgeOK(balances, to, amount) == balances[to] + amount <= MaxUint

overwriteBalance(balances, to, amount) == [balances EXCEPT ![to] = amount]

receiveFromBridge(balances, to, amount) == [balances EXCEPT ![to] = @ + amount]
============================================================================
