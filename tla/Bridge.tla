------------------------------- MODULE Bridge -------------------------------
(***************************************************************************)
(* The bridge as it runs: the scripts of scripts/*.js, executed by any     *)
(* number of processes at once, against one long-lived Hardhat node and    *)
(* one deployed-addresses.json.                                            *)
(*                                                                         *)
(* A script is a sequence of awaits; between two of them nothing else of   *)
(* the same process runs, and anything of the other processes may.  A step *)
(* below is what a process does from one await (or file access) to the     *)
(* next.  The node mines every transaction as it arrives, so sending one   *)
(* and waiting for its receipt is a single step.  All transactions come    *)
(* from the first signer, whose nonce decides where a contract lands.      *)
(*                                                                         *)
(*  - A transaction to an address without code succeeds and does nothing.  *)
(*  - A call that does not match the code at the address reverts.          *)
(*  - A reverting transaction is refused when its gas is estimated, or     *)
(*    mined as failed when the state moved in between: only the second     *)
(*    uses up a nonce.  The script exits with an error in both cases.      *)
(***************************************************************************)
EXTENDS Integers, FiniteSets
LOCAL INSTANCE TLC

CONSTANTS
    Run,                \* executions of scripts
    Scripts,            \* the scripts they execute
    Deployer, Receiver, \* the first two signers
    Amount,             \* what one transfer moves, 100 in the code
    InitialBalance,     \* what L2A's constructor credits, 1000 in the code
    MaxUint,            \* the largest uint256
    MaxNonce,           \* bound on the transactions of the first signer
    NoAddr              \* an address not assigned yet

Account == {Deployer, Receiver}
Addr == 0 .. MaxNonce - 1
Book == [verifier : Addr \cup {NoAddr}, l2a : Addr \cup {NoAddr},
         l2b : Addr \cup {NoAddr}]
NoBook == [verifier |-> NoAddr, l2a |-> NoAddr, l2b |-> NoAddr]

AllScripts == {"deployContracts", "demoBridge", "transferBridge",
               "deployZKVerifier", "verifyProof"}

ASSUME ScriptsAssumption == Scripts \subseteq AllScripts
ASSUME SignersAssumption == Deployer # Receiver
ASSUME AmountsAssumption ==
    /\ Amount \in Nat \ {0}
    /\ InitialBalance \in Nat
    /\ MaxUint \in Nat
    /\ InitialBalance <= MaxUint
ASSUME AddressesAssumption == MaxNonce \in Nat \ {0} /\ NoAddr \notin Addr
ASSUME RunsAssumption == IsFiniteSet(Run)

SrcChain == INSTANCE L2A
DstChain == INSTANCE L2B
Crypto == INSTANCE PQCrypto

VARIABLES
    nonce,      \* node: transactions mined from the first signer
    code,       \* node: the contract at each address
    verifierOf, \* node: the verifier that each L2A is bound to
    balances,   \* node: the token balances of each L2A and L2B
    fileState,  \* deployed-addresses.json: absent, truncated, or written
    saved,      \* the addresses in it
    kind,       \* per run: the script
    status,     \* per run: idle, running, done, failed (exit 1) or killed
    pc,         \* per run: the next step; where it stopped, once stopped
    at,         \* per run: the contracts it talks to
    proof,      \* per run: whether its proof.json and public.json verify
    payload,    \* per run: what the receiver decrypted
    before,     \* per run: the balances read before the transfer
    after       \* per run: the balances read after it

node == <<nonce, code, verifierOf, balances>>
file == <<fileState, saved>>
memory == <<kind, at, proof, payload, before, after>>
vars == <<node, file, memory, status, pc>>

Payload == [from : Account, to : Account, amount : {0, Amount}, zkProof : BOOLEAN]
Seen == [l2a : 0 .. MaxUint, l2b : 0 .. MaxUint]

Label == {"idle", "deployVerifier", "deployL2A", "deployL2B", "truncate", "write",
          "showInitial", "loadAddresses", "loadProof", "preVerify", "readSender",
          "readReceiver", "transmit", "burn", "mint", "finalSender",
          "finalReceiver", "submitProof", "end"}

Status == {"idle", "running", "done", "failed", "killed"}

TypeOK ==
    /\ nonce \in 0 .. MaxNonce
    /\ code \in [Addr -> {"none", "verifier", "l2a", "l2b"}]
    /\ verifierOf \in [Addr -> Addr \cup {NoAddr}]
    /\ balances \in [Addr -> [Account -> 0 .. MaxUint]]
    /\ fileState \in {"absent", "empty", "written"}
    /\ saved \in Book
    /\ kind \in [Run -> AllScripts \cup {"none"}]
    /\ status \in [Run -> Status]
    /\ pc \in [Run -> Label]
    /\ at \in [Run -> Book]
    /\ proof \in [Run -> BOOLEAN]
    /\ payload \in [Run -> Payload]
    /\ before \in [Run -> Seen]
    /\ after \in [Run -> Seen]

FreshNode ==
    /\ nonce = 0
    /\ code = [a \in Addr |-> "none"]
    /\ verifierOf = [a \in Addr |-> NoAddr]
    /\ balances = [a \in Addr |-> DstChain!emptyBalances]

Init ==
    /\ FreshNode
    /\ fileState = "absent"
    /\ saved = NoBook
    /\ kind = [r \in Run |-> "none"]
    /\ status = [r \in Run |-> "idle"]
    /\ pc = [r \in Run |-> "idle"]
    /\ at = [r \in Run |-> NoBook]
    /\ proof = [r \in Run |-> FALSE]
    /\ payload = [r \in Run |-> [from |-> Deployer, to |-> Deployer,
                                 amount |-> 0, zkProof |-> FALSE]]
    /\ before = [r \in Run |-> [l2a |-> 0, l2b |-> 0]]
    /\ after = [r \in Run |-> [l2a |-> 0, l2b |-> 0]]

-----------------------------------------------------------------------------
(* Control flow of a process. *)

At(r, label) == status[r] = "running" /\ pc[r] = label

Goto(r, label) ==
    /\ pc' = [pc EXCEPT ![r] = label]
    /\ status' = [status EXCEPT ![r] = IF label = "end" THEN "done" ELSE @]

(* main().catch(...) or an explicit process.exit(1). *)
Exit(r) ==
    /\ status' = [status EXCEPT ![r] = "failed"]
    /\ UNCHANGED pc

Start(r, script) ==
    /\ pc[r] = "idle"
    /\ kind' = [kind EXCEPT ![r] = script]
    /\ status' = [status EXCEPT ![r] = "running"]
    /\ pc' = [pc EXCEPT ![r] = CASE script = "transferBridge" -> "loadAddresses"
                                 [] script = "verifyProof" -> "loadProof"
                                 [] OTHER -> "deployVerifier"]
    /\ UNCHANGED <<node, file, at, proof, payload, before, after>>

(* The process is interrupted, or its connection to the node is cut. *)
Kill(r) ==
    /\ status[r] = "running"
    /\ status' = [status EXCEPT ![r] = "killed"]
    /\ UNCHANGED <<node, file, memory, pc>>

-----------------------------------------------------------------------------
(* Deployment: the new contract's address is the nonce of its transaction. *)

Create(contract) ==
    /\ nonce < MaxNonce
    /\ nonce' = nonce + 1
    /\ code' = [code EXCEPT ![nonce] = contract]

DeployVerifier(r) ==
    /\ At(r, "deployVerifier")
    /\ Create("verifier")
    /\ at' = [at EXCEPT ![r].verifier = nonce]
    /\ Goto(r, IF kind[r] = "deployZKVerifier" THEN "end" ELSE "deployL2A")
    /\ UNCHANGED <<verifierOf, balances, file, kind, proof, payload, before, after>>

DeployL2A(r) ==
    /\ At(r, "deployL2A")
    /\ Create("l2a")
    /\ verifierOf' = [verifierOf EXCEPT ![nonce] = at[r].verifier]
    /\ balances' = [balances EXCEPT ![nonce] = SrcChain!constructor(Deployer)]
    /\ at' = [at EXCEPT ![r].l2a = nonce]
    /\ Goto(r, "deployL2B")
    /\ UNCHANGED <<file, kind, proof, payload, before, after>>

DeployL2B(r) ==
    /\ At(r, "deployL2B")
    /\ Create("l2b")
    /\ at' = [at EXCEPT ![r].l2b = nonce]
    /\ Goto(r, IF kind[r] = "demoBridge" THEN "loadProof" ELSE "truncate")
    /\ UNCHANGED <<verifierOf, balances, file, kind, proof, payload, before, after>>

-----------------------------------------------------------------------------
(* deployed-addresses.json: writeFileSync truncates the file, then writes. *)

TruncateFile(r) ==
    /\ At(r, "truncate")
    /\ fileState' = "empty"
    /\ Goto(r, "write")
    /\ UNCHANGED <<node, saved, memory>>

l2aTwiceAddresses(r) == [at[r] EXCEPT !.l2b = at[r].l2a]

(* What deployContracts writes into the file. *)
addresses(r) == at[r]

WriteFile(r) ==
    /\ At(r, "write")
    /\ fileState' = "written"
    /\ saved' = addresses(r)
    /\ Goto(r, "showInitial")
    /\ UNCHANGED <<node, memory>>

pollingLoadAddresses(r) ==
    /\ At(r, "loadAddresses")
    /\ fileState = "written"
    /\ at' = [at EXCEPT ![r] = saved]
    /\ Goto(r, "loadProof")
    /\ UNCHANGED <<node, file, kind, proof, payload, before, after>>

(* No file ends the script, and so does JSON.parse of a truncated one. *)
LoadAddresses(r) ==
    /\ At(r, "loadAddresses")
    /\ IF fileState = "written"
       THEN at' = [at EXCEPT ![r] = saved] /\ Goto(r, "loadProof")
       ELSE at' = at /\ Exit(r)
    /\ UNCHANGED <<node, file, kind, proof, payload, before, after>>

-----------------------------------------------------------------------------
(* The proof and the balances that the script reads before it transfers. *)

(* The files are missing or malformed, or they hold a proof that the       *)
(* verifier contract accepts or not.                                       *)
LoadProof(r) ==
    /\ At(r, "loadProof")
    /\ \/ \E verifies \in BOOLEAN :
            /\ proof' = [proof EXCEPT ![r] = verifies]
            /\ Goto(r, CASE kind[r] = "demoBridge" -> "preVerify"
                         [] kind[r] = "transferBridge" -> "readSender"
                         [] OTHER -> "submitProof")
       \/ proof' = proof /\ Exit(r)
    /\ UNCHANGED <<node, file, kind, at, payload, before, after>>

(* demoBridge asks the verifier first, and stops unless it says true. *)
PreVerify(r) ==
    /\ At(r, "preVerify")
    /\ IF code[at[r].verifier] = "verifier" /\ proof[r]
       THEN Goto(r, "readSender")
       ELSE Exit(r)
    /\ UNCHANGED <<node, file, memory>>

uncheckedGetter(address) == TRUE

(* Both L2A and L2B have the getter balances(address).  Elsewhere the call *)
(* reverts, or returns no data, which the decoder refuses.                 *)
hasBalances(address) == code[address] \in {"l2a", "l2b"}

ShowInitial(r) ==
    /\ At(r, "showInitial")
    /\ IF hasBalances(at[r].l2a) THEN Goto(r, "end") ELSE Exit(r)
    /\ UNCHANGED <<node, file, memory>>

ReadSender(r) ==
    /\ At(r, "readSender")
    /\ IF hasBalances(at[r].l2a)
       THEN /\ before' = [before EXCEPT ![r].l2a = balances[at[r].l2a][Deployer]]
            /\ Goto(r, IF kind[r] = "demoBridge" THEN "transmit" ELSE "readReceiver")
       ELSE before' = before /\ Exit(r)
    /\ UNCHANGED <<node, file, kind, at, proof, payload, after>>

ReadReceiver(r) ==
    /\ At(r, "readReceiver")
    /\ IF hasBalances(at[r].l2b)
       THEN /\ before' = [before EXCEPT ![r].l2b = balances[at[r].l2b][Receiver]]
            /\ Goto(r, "transmit")
       ELSE before' = before /\ Exit(r)
    /\ UNCHANGED <<node, file, kind, at, proof, payload, after>>

-----------------------------------------------------------------------------
(* The post-quantum channel: both ends are in the same process. *)

(* The receiver's keys are new in each run, and so is what the sender      *)
(* draws at random: the run stands for them.                               *)
Transmit(r) ==
    LET plaintext == [from |-> Deployer, to |-> Receiver, amount |-> Amount,
                      zkProof |-> proof[r]]
        keys == Crypto!generateKeys(r)
        kem == Crypto!kemEncapsulate(keys.publicKey, r)
        aes == Crypto!encryptAes(kem.sharedSecret, plaintext, r)
        secret == Crypto!kemDecapsulate(keys.privateKey, kem.ciphertext)
    IN  /\ At(r, "transmit")
        /\ IF Crypto!decryptAesOK(secret, aes.iv, aes.authTag, aes.ciphertext)
           THEN /\ payload' = [payload EXCEPT ![r] =
                     Crypto!decryptAes(secret, aes.iv, aes.authTag, aes.ciphertext)]
                /\ Goto(r, "burn")
           ELSE payload' = payload /\ Exit(r)
        /\ UNCHANGED <<node, file, kind, at, proof, before, after>>

-----------------------------------------------------------------------------
(* The two transactions of a transfer. *)

Revert(r) ==
    /\ nonce' \in {nonce, nonce + 1}
    /\ UNCHANGED balances
    /\ Exit(r)

(* bridgeTransfer calls the verifier its contract is bound to, which must  *)
(* be a contract that answers true.                                        *)
burnOK(r) ==
    LET l2a == at[r].l2a
    IN  /\ code[l2a] = "l2a"
        /\ SrcChain!bridgeTransferOK(balances[l2a], Deployer, payload[r].amount,
               code[verifierOf[l2a]] = "verifier" /\ payload[r].zkProof)

Burn(r) ==
    LET l2a == at[r].l2a
    IN  /\ At(r, "burn")
        /\ nonce < MaxNonce
        /\ \/ /\ code[l2a] = "none"
              /\ nonce' = nonce + 1
              /\ UNCHANGED balances
              /\ Goto(r, "mint")
           \/ /\ burnOK(r)
              /\ nonce' = nonce + 1
              /\ balances' = [balances EXCEPT ![l2a] =
                     SrcChain!bridgeTransfer(@, Deployer, payload[r].amount)]
              /\ Goto(r, "mint")
           \/ /\ code[l2a] # "none" /\ ~burnOK(r)
              /\ Revert(r)
        /\ UNCHANGED <<code, verifierOf, file, memory>>

mintOK(r) ==
    LET l2b == at[r].l2b
    IN  /\ code[l2b] = "l2b"
        /\ DstChain!receiveFromBridgeOK(balances[l2b], payload[r].to, payload[r].amount)

Mint(r) ==
    LET l2b == at[r].l2b
    IN  /\ At(r, "mint")
        /\ nonce < MaxNonce
        /\ \/ /\ code[l2b] = "none"
              /\ nonce' = nonce + 1
              /\ UNCHANGED balances
              /\ Goto(r, "finalSender")
           \/ /\ mintOK(r)
              /\ nonce' = nonce + 1
              /\ balances' = [balances EXCEPT ![l2b] =
                     DstChain!receiveFromBridge(@, payload[r].to, payload[r].amount)]
              /\ Goto(r, "finalSender")
           \/ /\ code[l2b] # "none" /\ ~mintOK(r)
              /\ Revert(r)
        /\ UNCHANGED <<code, verifierOf, file, memory>>

-----------------------------------------------------------------------------
(* The balances of the closing report. *)

FinalSender(r) ==
    /\ At(r, "finalSender")
    /\ IF hasBalances(at[r].l2a)
       THEN /\ after' = [after EXCEPT ![r].l2a = balances[at[r].l2a][Deployer]]
            /\ Goto(r, "finalReceiver")
       ELSE after' = after /\ Exit(r)
    /\ UNCHANGED <<node, file, kind, at, proof, payload, before>>

FinalReceiver(r) ==
    /\ At(r, "finalReceiver")
    /\ IF hasBalances(at[r].l2b)
       THEN /\ after' = [after EXCEPT ![r].l2b = balances[at[r].l2b][Receiver]]
            /\ Goto(r, "end")
       ELSE after' = after /\ Exit(r)
    /\ UNCHANGED <<node, file, kind, at, proof, payload, before>>

-----------------------------------------------------------------------------
(* verifyProof.js: verifyProofOnChain on a fixed address, that of the      *)
(* first contract a new node deploys.  It never reverts on a false proof.  *)

VerifierAddress == 0

SubmitProof(r) ==
    /\ At(r, "submitProof")
    /\ nonce < MaxNonce
    /\ \/ /\ code[VerifierAddress] \in {"none", "verifier"}
          /\ nonce' = nonce + 1
          /\ UNCHANGED balances
          /\ Goto(r, "end")
       \/ /\ code[VerifierAddress] \in {"l2a", "l2b"}
          /\ Revert(r)
    /\ UNCHANGED <<code, verifierOf, file, memory>>

-----------------------------------------------------------------------------
Step(r) ==
    \/ DeployVerifier(r) \/ DeployL2A(r) \/ DeployL2B(r)
    \/ TruncateFile(r) \/ WriteFile(r) \/ ShowInitial(r)
    \/ LoadAddresses(r) \/ LoadProof(r) \/ PreVerify(r)
    \/ ReadSender(r) \/ ReadReceiver(r) \/ Transmit(r)
    \/ Burn(r) \/ Mint(r) \/ FinalSender(r) \/ FinalReceiver(r)
    \/ SubmitProof(r)

Next ==
    \E r \in Run :
        \/ \E script \in Scripts : Start(r, script)
        \/ Step(r)
        \/ Kill(r)

Spec == Init /\ [][Next]_vars

(* A process that is neither killed nor cut off gets to its next await:    *)
(* the node answers every request.  Nothing obliges anyone to start one.   *)
FairSpec == Spec /\ \A r \in Run : WF_vars(Step(r))

-----------------------------------------------------------------------------
(* What the bridge promises while its node lives. *)

(* The address books in use: in the file, or in the memory of a process.   *)
Books ==
    {at[r] : r \in {s \in Run : at[s].l2b # NoAddr}}
        \cup {b \in {saved} : fileState = "written"}

Wired(b) ==
    /\ b \in [verifier : Addr, l2a : Addr, l2b : Addr]
    /\ code[b.verifier] = "verifier"
    /\ code[b.l2a] = "l2a"
    /\ verifierOf[b.l2a] = b.verifier
    /\ code[b.l2b] = "l2b"

(* Deployments that interleave on one account never cross: every book in   *)
(* use names a verifier, the L2A bound to it and an L2B, and no L2A shares *)
(* its L2B with another (deployContracts.js, demoBridge.js, the file).     *)
Wiring ==
    \A b \in Books :
        /\ Wired(b)
        /\ \A c \in Books : b.l2a = c.l2a <=> b.l2b = c.l2b

(* The transfers whose burn has no mint yet, dead processes included. *)
InFlight(l2a) == {r \in Run : pc[r] = "mint" /\ at[r].l2a = l2a}

(* No token is created or lost but in the hands of a process between its   *)
(* two transactions: what an L2A started with is on it, on its L2B, or in  *)
(* flight (bridgeTransfer and receiveFromBridge as the scripts call them). *)
Conservation ==
    \A b \in Books :
        balances[b.l2a][Deployer] + balances[b.l2b][Receiver]
            + Amount * Cardinality(InFlight(b.l2a)) = InitialBalance

(* No script exits with an error once it has burned: on a living node the  *)
(* mint and the final reads cannot fail, so only the death of the process  *)
(* strands a transfer (transferBridge.js and demoBridge.js, tx1 to end).   *)
NoFailureAfterBurn ==
    \A r \in Run : status[r] = "failed" =>
        pc[r] \notin {"mint", "finalSender", "finalReceiver"}

Transfers == {r \in Run : kind[r] \in {"transferBridge", "demoBridge"}}

(* Whatever else runs, the two differences that transferBridge.js prints   *)
(* account for at least its own transfer, on both chains.                  *)
ReportCoversTransfer ==
    \A r \in Transfers : kind[r] = "transferBridge" /\ status[r] = "done" =>
        /\ before[r].l2a - after[r].l2a >= Amount
        /\ after[r].l2b - before[r].l2b >= Amount

(* verifyProof.js prints "Proof verified successfully!" when the proof it  *)
(* submitted is one that the verifier accepts.                             *)
VerifiedMeansValid ==
    \A r \in Run : kind[r] = "verifyProof" /\ status[r] = "done" => proof[r]

(* Nobody gets past tx1 on a proof that does not verify, though only       *)
(* demoBridge looks at the answer: L2A and the payload carry it through.   *)
BurnWasProved ==
    \A r \in Transfers :
        pc[r] \in {"mint", "finalSender", "finalReceiver", "end"} => proof[r]

(* Every script ends, whatever the files hold and whatever else runs. *)
Termination ==
    \A r \in Run : status[r] = "running" ~> status[r] # "running"

(* A burn is followed by its mint, unless its process is killed. *)
BurnLeadsToMint ==
    \A r \in Run : pc[r] = "mint" ~> pc[r] # "mint" \/ status[r] = "killed"

-----------------------------------------------------------------------------
(* The inductive invariant: the properties that matter and what keeps them *)
(* true.  TLC checks it, BridgeProofs proves it.                           *)

(* What a process knows at each of its steps: nothing yet, a verifier, a   *)
(* verifier and the L2A bound to it, or a complete book.                   *)
Complete == {"truncate", "write", "showInitial", "preVerify", "readSender",
             "readReceiver", "transmit", "burn", "mint", "finalSender", "finalReceiver"}

HasVerifier(r) ==
    /\ at[r].verifier \in Addr
    /\ code[at[r].verifier] = "verifier"
    /\ at[r].l2b = NoAddr

HasL2A(r) ==
    /\ at[r].l2a \in Addr
    /\ code[at[r].l2a] = "l2a"
    /\ verifierOf[at[r].l2a] = at[r].verifier

Stage(r) ==
    /\ pc[r] \in {"idle", "deployVerifier", "loadAddresses"} => at[r].l2b = NoAddr
    /\ pc[r] = "deployL2A" => HasVerifier(r)
    /\ pc[r] = "deployL2B" => HasVerifier(r) /\ HasL2A(r)
    /\ pc[r] \in Complete => at[r].l2b # NoAddr
    /\ pc[r] = "loadProof" /\ kind[r] # "verifyProof" => at[r].l2b # NoAddr

Stages == \A r \in Run : Stage(r)

(* Addresses from the nonce on are unused, and an unused address holds no  *)
(* tokens.                                                                 *)
Unused ==
    \A a \in Addr :
        /\ a >= nonce => code[a] = "none"
        /\ code[a] = "none" => \A who \in Account : balances[a][who] = 0

(* An L2A that has no L2B yet is known to the process that deployed it and *)
(* to no other, and still has its whole supply.                            *)
Private ==
    \A r \in Run : pc[r] = "deployL2B" =>
        /\ balances[at[r].l2a][Deployer] = InitialBalance
        /\ \A b \in Books : b.l2a # at[r].l2a
        /\ \A s \in Run : pc[s] = "deployL2B" /\ at[s].l2a = at[r].l2a => s = r

(* What the receiver decrypted is what the sender encrypted. *)
Delivered ==
    \A r \in Run : pc[r] \in {"burn", "mint"} =>
        payload[r].to = Receiver /\ payload[r].amount = Amount

IInv ==
    /\ TypeOK
    /\ Stages
    /\ Unused
    /\ Private
    /\ Delivered
    /\ Wiring
    /\ Conservation
    /\ NoFailureAfterBurn

-----------------------------------------------------------------------------
(* What a process has in memory, whatever became of the node: this part    *)
(* holds across the restarts of BridgeRestart too.                         *)

FullBook == [verifier : Addr, l2a : Addr, l2b : Addr]

(* Each step belongs to the scripts that take it. *)
Itinerary(r) ==
    /\ pc[r] = "deployVerifier" =>
          kind[r] \in {"deployContracts", "demoBridge", "deployZKVerifier"}
    /\ pc[r] \in {"deployL2A", "deployL2B"} => kind[r] \in {"deployContracts", "demoBridge"}
    /\ pc[r] \in {"truncate", "write", "showInitial"} => kind[r] = "deployContracts"
    /\ pc[r] \in {"loadAddresses", "readReceiver"} => kind[r] = "transferBridge"
    /\ pc[r] = "loadProof" => kind[r] \in {"demoBridge", "transferBridge", "verifyProof"}
    /\ pc[r] = "preVerify" => kind[r] = "demoBridge"
    /\ pc[r] \in {"readSender", "transmit", "burn", "mint", "finalSender", "finalReceiver"}
          => kind[r] \in {"demoBridge", "transferBridge"}
    /\ pc[r] = "submitProof" => kind[r] = "verifyProof"

Itineraries == \A r \in Run : Itinerary(r)

(* A book is filled in field by field, and complete where it is used. *)
HasBook(r) ==
    /\ pc[r] \in {"deployL2A", "deployL2B"} => at[r].verifier \in Addr
    /\ pc[r] = "deployL2B" => at[r].l2a \in Addr
    /\ pc[r] \in Complete => at[r] \in FullBook
    /\ pc[r] = "loadProof" /\ kind[r] # "verifyProof" => at[r] \in FullBook

Known ==
    /\ \A r \in Run : HasBook(r)
    /\ fileState = "written" => saved \in FullBook

(* What the closing report will rest on.  The ledgers a process deployed   *)
(* or read are where it looks for them, and since it read them the sender's*)
(* balance has not grown and the receiver's has not shrunk.                *)
SenderRead == {"readReceiver", "transmit", "burn", "mint", "finalSender", "finalReceiver"}
ReceiverRead == SenderRead \ {"readReceiver"}

SeesSource(r) ==
    \/ pc[r] \in SenderRead
    \/ kind[r] # "transferBridge" /\ pc[r] \in {"deployL2B"} \cup Complete
    \/ kind[r] = "demoBridge" /\ pc[r] = "loadProof"

SeesDestination(r) ==
    \/ pc[r] \in ReceiverRead
    \/ kind[r] = "demoBridge" /\ pc[r] \in {"loadProof"} \cup Complete

SenderBefore(r) ==
    LET owed == IF pc[r] \in {"mint", "finalSender", "finalReceiver"} THEN Amount ELSE 0
    IN  before[r].l2a - balances[at[r].l2a][Deployer] >= owed

ReceiverBefore(r) ==
    LET owed == IF pc[r] \in {"finalSender", "finalReceiver"} THEN Amount ELSE 0
    IN  balances[at[r].l2b][Receiver] - before[r].l2b >= owed

Tracked(r) ==
    status[r] = "running" =>
        /\ SeesSource(r) => code[at[r].l2a] # "none"
        /\ SeesDestination(r) => code[at[r].l2b] # "none"
        /\ pc[r] \in SenderRead => SenderBefore(r)
        /\ kind[r] = "transferBridge" /\ pc[r] \in ReceiverRead => ReceiverBefore(r)

(* The part of the report that is already in memory. *)
Reported(r) ==
    /\ kind[r] \in {"transferBridge", "demoBridge"} /\ pc[r] \in {"finalReceiver", "end"} =>
          before[r].l2a - after[r].l2a >= Amount
    /\ kind[r] = "transferBridge" /\ pc[r] = "end" =>
          after[r].l2b - before[r].l2b >= Amount

(* A process is done at the end of its script and nowhere else. *)
DoneAtEnd == \A r \in Run : status[r] = "done" => pc[r] = "end"

(* What holds of every process and of the node, on any node.               *)
CommonInv ==
    /\ TypeOK
    /\ Unused
    /\ Itineraries
    /\ Known
    /\ Delivered
    /\ DoneAtEnd

ReportInv ==
    /\ CommonInv
    /\ \A r \in Run : Tracked(r) /\ Reported(r)

(* A payload carries the answer that the proof at hand deserves.           *)
ProvedInv ==
    /\ \A r \in Run : pc[r] = "burn" => payload[r].zkProof = proof[r]
    /\ BurnWasProved

-----------------------------------------------------------------------------
(* Executions are named for the sake of the model: any two are alike. *)
RunSymmetry == Permutations(Run)
=============================================================================
