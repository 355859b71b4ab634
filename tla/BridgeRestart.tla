--------------------------- MODULE BridgeRestart ---------------------------
(***************************************************************************)
(* The same scripts when the node restarts.  The chain is in memory        *)
(* (hardhat.config.js), so a restart empties it and resets the nonce, and  *)
(* the next contracts land at the addresses of the old ones.  The file     *)
(* deployed-addresses.json stays, and so do the processes: one whose       *)
(* connection breaks is killed, one that asks nothing in between goes on   *)
(* with what it read from the old chain.                                   *)
(***************************************************************************)
EXTENDS Bridge

CONSTANT MaxRestarts  \* bound on the restarts

VARIABLES
    restarts,  \* how many there were
    crossed    \* the processes that were running during one

restartVars == <<vars, restarts, crossed>>

RestartInit == Init /\ restarts = 0 /\ crossed = {}

emptyNode ==
    /\ nonce' = 0
    /\ code' = [a \in Addr |-> "none"]
    /\ verifierOf' = [a \in Addr |-> NoAddr]
    /\ balances' = [a \in Addr |-> DstChain!emptyBalances]

Restart ==
    /\ restarts < MaxRestarts
    /\ emptyNode
    /\ restarts' = restarts + 1
    /\ crossed' = crossed \cup {r \in Run : status[r] = "running"}
    /\ UNCHANGED <<file, memory, status, pc>>

RestartNext ==
    \/ Restart
    \/ Next /\ UNCHANGED <<restarts, crossed>>

RestartSpec == RestartInit /\ [][RestartNext]_restartVars

-----------------------------------------------------------------------------
burned(r) ==
    balances'[at[r].l2a][Deployer] = balances[at[r].l2a][Deployer] - Amount

minted(r) ==
    balances'[at[r].l2b][Receiver] = balances[at[r].l2b][Receiver] + Amount

(* A process that never saw a restart moves real tokens, even when the     *)
(* file it loaded names addresses of a chain that is gone: the balances it *)
(* reads first fail on an address without a ledger, and a ledger that is   *)
(* there stays there (transferBridge.js 65-66 before 163 and 176).         *)
UncrossedTransferIsReal ==
    [][\A r \in Run \ crossed :
         /\ At(r, "burn") /\ pc'[r] = "mint" => burned(r)
         /\ At(r, "mint") /\ pc'[r] = "finalSender" => minted(r)]_restartVars

(* What ReportCoversTransfer says, for the processes that saw no restart:  *)
(* the report they close with accounts for their own transfer.             *)
UncrossedReportCovers ==
    \A r \in Transfers \ crossed : kind[r] = "transferBridge" /\ status[r] = "done" =>
        /\ before[r].l2a - after[r].l2a >= Amount
        /\ after[r].l2b - before[r].l2b >= Amount

-----------------------------------------------------------------------------
(* The inductive invariant: what memory and node keep across restarts,     *)
(* what the processes that saw none of them can rely on, and all that      *)
(* holds of a node that was never restarted, until it is.                  *)
RestartInv ==
    /\ restarts \in Nat
    /\ CommonInv
    /\ \A r \in Run \ crossed : Tracked(r) /\ Reported(r)
    /\ restarts = 0 => IInv /\ ProvedInv
=============================================================================
