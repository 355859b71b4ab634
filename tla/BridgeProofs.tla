---------------------------- MODULE BridgeProofs ----------------------------
(*****************************************************************************)
(* Proofs about Bridge, for any number of processes, any scripts and any     *)
(* amounts: the types, Wiring, Conservation, NoFailureAfterBurn and          *)
(* BurnWasProved; what transferBridge.js reports, on a node that lives and on *)
(* one that restarts (ReportCoversTransfer, UncrossedReportCovers,           *)
(* UncrossedTransferIsReal); and that the scripts and contracts implement    *)
(* TokenBridge.                                                              *)
(*****************************************************************************)
EXTENDS BridgeRestart, BridgeRefinement, TLAPS, FiniteSetTheorems

USE ScriptsAssumption, SignersAssumption, AmountsAssumption, AddressesAssumption

-----------------------------------------------------------------------------
(* Types.  A book in use names addresses, not the placeholder. *)

LEMMA InitTypes == Init => TypeOK
<1> SUFFICES ASSUME Init PROVE TypeOK
  OBVIOUS
<1>1. nonce \in 0 .. MaxNonce /\ code \in [Addr -> {"none", "verifier", "l2a", "l2b"}]
      /\ verifierOf \in [Addr -> Addr \cup {NoAddr}]
  BY DEF Init, FreshNode
<1>2. balances \in [Addr -> [Account -> 0 .. MaxUint]]
  BY DEF Init, FreshNode, DstChain!emptyBalances
<1>3. saved \in Book /\ at \in [Run -> Book]
  BY DEF Init, Book, NoBook
<1>4. payload \in [Run -> Payload]
  BY DEF Init, Payload, Account
<1>5. before \in [Run -> Seen] /\ after \in [Run -> Seen]
  BY DEF Init, Seen
<1> QED BY <1>1, <1>2, <1>3, <1>4, <1>5 DEF Init, TypeOK, Label, Status

(* Wherever a process reads or moves tokens, it has a complete book.       *)
LEMMA BookInUse ==
    ASSUME TypeOK, Stages, Wiring, NEW r \in Run, pc[r] \in Complete
    PROVE  /\ at[r] \in Books
           /\ Wired(at[r])
BY DEF TypeOK, Stages, Stage, Wiring, Books

LEMMA KnownInUse ==
    ASSUME TypeOK, Stages, Wiring
    PROVE  Known
<1>1. \A r \in Run : at[r].l2b # NoAddr => at[r] \in FullBook
  BY DEF Wiring, Books, Wired, FullBook
<1>2. fileState = "written" => saved \in FullBook
  BY DEF Wiring, Books, Wired, FullBook
<1> QED BY <1>1, <1>2 DEF Known, HasBook, Stages, Stage, HasVerifier, HasL2A

(* Where a process stands: Goto and Exit keep the types of pc and status.  *)
LEMMA GotoTypes ==
    ASSUME TypeOK, NEW r \in Run, NEW label \in Label, Goto(r, label)
    PROVE  pc' \in [Run -> Label] /\ status' \in [Run -> Status]
BY DEF TypeOK, Goto, Status

LEMMA ExitTypes ==
    ASSUME TypeOK, NEW r \in Run, Exit(r)
    PROVE  pc' \in [Run -> Label] /\ status' \in [Run -> Status]
BY DEF TypeOK, Exit, Status

LEMMA MoveTypes ==
    ASSUME TypeOK, NEW r \in Run, Exit(r) \/ \E label \in Label : Goto(r, label)
    PROVE  pc' \in [Run -> Label] /\ status' \in [Run -> Status]
BY GotoTypes, ExitTypes

(* Filling in one field of a book. *)
LEMMA AtTypes ==
    ASSUME TypeOK, NEW r \in Run, NEW a \in Addr
    PROVE  /\ [at EXCEPT ![r].verifier = a] \in [Run -> Book]
           /\ [at EXCEPT ![r].l2a = a] \in [Run -> Book]
           /\ [at EXCEPT ![r].l2b = a] \in [Run -> Book]
BY DEF TypeOK, Book

LEMMA CreateTypes ==
    ASSUME TypeOK, NEW contract \in {"verifier", "l2a", "l2b"}, Create(contract)
    PROVE  /\ nonce \in Addr
           /\ nonce' \in 0 .. MaxNonce
           /\ code' \in [Addr -> {"none", "verifier", "l2a", "l2b"}]
BY DEF TypeOK, Create, Addr

LEMMA DeployVerifierTypes ==
    ASSUME TypeOK, NEW r \in Run, DeployVerifier(r)
    PROVE  TypeOK'
<1>1. nonce \in Addr /\ nonce' \in 0 .. MaxNonce
      /\ code' \in [Addr -> {"none", "verifier", "l2a", "l2b"}]
  BY CreateTypes DEF DeployVerifier
<1>2. at' \in [Run -> Book]
  BY <1>1, AtTypes DEF DeployVerifier
<1>3. pc' \in [Run -> Label] /\ status' \in [Run -> Status]
  <2>1. PICK label \in Label : Goto(r, label)
    BY DEF DeployVerifier, Label
  <2> QED BY <2>1, GotoTypes
<1> QED BY <1>1, <1>2, <1>3 DEF TypeOK, DeployVerifier, file

LEMMA DeployL2ATypes ==
    ASSUME TypeOK, NEW r \in Run, DeployL2A(r)
    PROVE  TypeOK'
<1>1. nonce \in Addr /\ nonce' \in 0 .. MaxNonce
      /\ code' \in [Addr -> {"none", "verifier", "l2a", "l2b"}]
  BY CreateTypes DEF DeployL2A
<1>2. at' \in [Run -> Book]
  BY <1>1, AtTypes DEF DeployL2A
<1>3. pc' \in [Run -> Label] /\ status' \in [Run -> Status]
  BY GotoTypes DEF DeployL2A, Label
<1>4. at[r].verifier \in Addr \cup {NoAddr}
  BY DEF TypeOK, Book
<1>5. verifierOf' \in [Addr -> Addr \cup {NoAddr}]
  BY <1>1, <1>4 DEF TypeOK, DeployL2A
<1>6. SrcChain!constructor(Deployer) \in [Account -> 0 .. MaxUint]
  BY DEF SrcChain!constructor
<1>7. balances' \in [Addr -> [Account -> 0 .. MaxUint]]
  BY <1>1, <1>6 DEF TypeOK, DeployL2A
<1> QED BY <1>1, <1>2, <1>3, <1>5, <1>7 DEF TypeOK, DeployL2A, file

LEMMA DeployL2BTypes ==
    ASSUME TypeOK, NEW r \in Run, DeployL2B(r)
    PROVE  TypeOK'
<1>1. nonce \in Addr /\ nonce' \in 0 .. MaxNonce
      /\ code' \in [Addr -> {"none", "verifier", "l2a", "l2b"}]
  BY CreateTypes DEF DeployL2B
<1>2. at' \in [Run -> Book]
  BY <1>1, AtTypes DEF DeployL2B
<1>3. pc' \in [Run -> Label] /\ status' \in [Run -> Status]
  <2>1. PICK label \in Label : Goto(r, label)
    BY DEF DeployL2B, Label
  <2> QED BY <2>1, GotoTypes
<1> QED BY <1>1, <1>2, <1>3 DEF TypeOK, DeployL2B, file

LEMMA BurnTypes ==
    ASSUME TypeOK, Known, NEW r \in Run, Burn(r)
    PROVE  TypeOK'
<1>1. at[r].l2a \in Addr
  <2>1. pc[r] \in Complete
    BY DEF Burn, At, Complete
  <2> QED BY <2>1 DEF Known, HasBook, FullBook
<1>2. balances' \in [Addr -> [Account -> 0 .. MaxUint]]
  <2>1. CASE balances' = balances
    BY <2>1 DEF TypeOK
  <2>2. CASE burnOK(r) /\ balances' = [balances EXCEPT ![at[r].l2a] =
                     SrcChain!bridgeTransfer(@, Deployer, payload[r].amount)]
    <3>1. balances[at[r].l2a] \in [Account -> 0 .. MaxUint]
      BY <1>1 DEF TypeOK
    <3>2. payload[r].amount \in Nat /\ Deployer \in Account
      BY DEF TypeOK, Payload, Account
    <3>3. balances[at[r].l2a][Deployer] >= payload[r].amount
      BY <2>2 DEF burnOK, SrcChain!bridgeTransferOK
    <3>4. SrcChain!bridgeTransfer(balances[at[r].l2a], Deployer, payload[r].amount)
            \in [Account -> 0 .. MaxUint]
      BY <3>1, <3>2, <3>3 DEF SrcChain!bridgeTransfer
    <3> QED BY <1>1, <2>2, <3>4 DEF TypeOK
  <2> QED BY <2>1, <2>2 DEF Burn, Revert
<1>3. nonce' \in 0 .. MaxNonce
  BY DEF TypeOK, Burn, Revert
<1>4. pc' \in [Run -> Label] /\ status' \in [Run -> Status]
  BY GotoTypes, ExitTypes DEF Burn, Revert, Label
<1> QED BY <1>2, <1>3, <1>4 DEF TypeOK, Burn, file, memory

LEMMA MintTypes ==
    ASSUME TypeOK, Known, NEW r \in Run, Mint(r)
    PROVE  TypeOK'
<1>1. at[r].l2b \in Addr
  <2>1. pc[r] \in Complete
    BY DEF Mint, At, Complete
  <2> QED BY <2>1 DEF Known, HasBook, FullBook
<1>2. balances' \in [Addr -> [Account -> 0 .. MaxUint]]
  <2>1. CASE balances' = balances
    BY <2>1 DEF TypeOK
  <2>2. CASE mintOK(r) /\ balances' = [balances EXCEPT ![at[r].l2b] =
                     DstChain!receiveFromBridge(@, payload[r].to, payload[r].amount)]
    <3>1. balances[at[r].l2b] \in [Account -> 0 .. MaxUint]
      BY <1>1 DEF TypeOK
    <3>2. payload[r].amount \in Nat /\ payload[r].to \in Account
      BY DEF TypeOK, Payload
    <3>3. balances[at[r].l2b][payload[r].to] + payload[r].amount <= MaxUint
      BY <2>2 DEF mintOK, DstChain!receiveFromBridgeOK
    <3>4. DstChain!receiveFromBridge(balances[at[r].l2b], payload[r].to, payload[r].amount)
            \in [Account -> 0 .. MaxUint]
      BY <3>1, <3>2, <3>3 DEF DstChain!receiveFromBridge
    <3> QED BY <1>1, <2>2, <3>4 DEF TypeOK
  <2> QED BY <2>1, <2>2 DEF Mint, Revert
<1>3. nonce' \in 0 .. MaxNonce
  BY DEF TypeOK, Mint, Revert
<1>4. pc' \in [Run -> Label] /\ status' \in [Run -> Status]
  BY GotoTypes, ExitTypes DEF Mint, Revert, Label
<1> QED BY <1>2, <1>3, <1>4 DEF TypeOK, Mint, file, memory

LEMMA ReadTypes ==
    ASSUME TypeOK, Known, NEW r \in Run, pc[r] \in Complete
    PROVE  /\ balances[at[r].l2a][Deployer] \in 0 .. MaxUint
           /\ balances[at[r].l2b][Receiver] \in 0 .. MaxUint
<1>1. at[r].l2a \in Addr /\ at[r].l2b \in Addr
  BY DEF Known, HasBook, FullBook
<1> QED BY <1>1 DEF TypeOK, Account

LEMMA SeenTypes ==
    ASSUME NEW seen \in [Run -> Seen], NEW r \in Run, NEW n \in 0 .. MaxUint
    PROVE  /\ [seen EXCEPT ![r].l2a = n] \in [Run -> Seen]
           /\ [seen EXCEPT ![r].l2b = n] \in [Run -> Seen]
BY DEF Seen

LEMMA ReadSenderTypes ==
    ASSUME TypeOK, Known, NEW r \in Run, ReadSender(r)
    PROVE  TypeOK'
<1>1. pc[r] \in Complete
  BY DEF ReadSender, At, Complete
<1>2. before \in [Run -> Seen]
  BY DEF TypeOK
<1>3. before' \in [Run -> Seen]
  <2>1. [before EXCEPT ![r].l2a = balances[at[r].l2a][Deployer]] \in [Run -> Seen]
    BY <1>1, <1>2, ReadTypes, SeenTypes
  <2> QED BY <1>2, <2>1 DEF ReadSender
<1>4. pc' \in [Run -> Label] /\ status' \in [Run -> Status]
  <2>1. Exit(r) \/ \E label \in Label : Goto(r, label)
    BY DEF ReadSender, Label
  <2> QED BY <2>1, MoveTypes
<1> QED BY <1>3, <1>4 DEF TypeOK, ReadSender, node, file

LEMMA ReadReceiverTypes ==
    ASSUME TypeOK, Known, NEW r \in Run, ReadReceiver(r)
    PROVE  TypeOK'
<1>1. pc[r] \in Complete
  BY DEF ReadReceiver, At, Complete
<1>2. before \in [Run -> Seen]
  BY DEF TypeOK
<1>3. before' \in [Run -> Seen]
  <2>1. [before EXCEPT ![r].l2b = balances[at[r].l2b][Receiver]] \in [Run -> Seen]
    BY <1>1, <1>2, ReadTypes, SeenTypes
  <2> QED BY <1>2, <2>1 DEF ReadReceiver
<1>4. pc' \in [Run -> Label] /\ status' \in [Run -> Status]
  <2>1. Exit(r) \/ \E label \in Label : Goto(r, label)
    BY DEF ReadReceiver, Label
  <2> QED BY <2>1, MoveTypes
<1> QED BY <1>3, <1>4 DEF TypeOK, ReadReceiver, node, file

LEMMA FinalSenderTypes ==
    ASSUME TypeOK, Known, NEW r \in Run, FinalSender(r)
    PROVE  TypeOK'
<1>1. pc[r] \in Complete
  BY DEF FinalSender, At, Complete
<1>2. after \in [Run -> Seen]
  BY DEF TypeOK
<1>3. after' \in [Run -> Seen]
  <2>1. [after EXCEPT ![r].l2a = balances[at[r].l2a][Deployer]] \in [Run -> Seen]
    BY <1>1, <1>2, ReadTypes, SeenTypes
  <2> QED BY <1>2, <2>1 DEF FinalSender
<1>4. pc' \in [Run -> Label] /\ status' \in [Run -> Status]
  <2>1. Exit(r) \/ \E label \in Label : Goto(r, label)
    BY DEF FinalSender, Label
  <2> QED BY <2>1, MoveTypes
<1> QED BY <1>3, <1>4 DEF TypeOK, FinalSender, node, file

LEMMA FinalReceiverTypes ==
    ASSUME TypeOK, Known, NEW r \in Run, FinalReceiver(r)
    PROVE  TypeOK'
<1>1. pc[r] \in Complete
  BY DEF FinalReceiver, At, Complete
<1>2. after \in [Run -> Seen]
  BY DEF TypeOK
<1>3. after' \in [Run -> Seen]
  <2>1. [after EXCEPT ![r].l2b = balances[at[r].l2b][Receiver]] \in [Run -> Seen]
    BY <1>1, <1>2, ReadTypes, SeenTypes
  <2> QED BY <1>2, <2>1 DEF FinalReceiver
<1>4. pc' \in [Run -> Label] /\ status' \in [Run -> Status]
  <2>1. Exit(r) \/ \E label \in Label : Goto(r, label)
    BY DEF FinalReceiver, Label
  <2> QED BY <2>1, MoveTypes
<1> QED BY <1>3, <1>4 DEF TypeOK, FinalReceiver, node, file

(* ML-KEM with the right key and AES-GCM with the right secret give back   *)
(* what was encrypted: kemDecapsulate after kemEncapsulate, decryptAes     *)
(* after encryptAes.                                                       *)
LEMMA RoundTrip ==
    ASSUME NEW seed, NEW coins, NEW iv, NEW plaintext
    PROVE  LET keys == Crypto!generateKeys(seed)
               kem == Crypto!kemEncapsulate(keys.publicKey, coins)
               aes == Crypto!encryptAes(kem.sharedSecret, plaintext, iv)
               secret == Crypto!kemDecapsulate(keys.privateKey, kem.ciphertext)
           IN  /\ Crypto!decryptAesOK(secret, aes.iv, aes.authTag, aes.ciphertext)
               /\ Crypto!decryptAes(secret, aes.iv, aes.authTag, aes.ciphertext)
                    = plaintext
BY DEF Crypto!generateKeys, Crypto!kemEncapsulate, Crypto!encryptAes,
       Crypto!kemDecapsulate, Crypto!decryptAesOK, Crypto!decryptAes

LEMMA TransmitDelivers ==
    ASSUME NEW r \in Run, Transmit(r)
    PROVE  /\ payload' = [payload EXCEPT ![r] =
                 [from |-> Deployer, to |-> Receiver, amount |-> Amount,
                  zkProof |-> proof[r]]]
           /\ Goto(r, "burn")
BY RoundTrip DEF Transmit

LEMMA TransmitTypes ==
    ASSUME TypeOK, NEW r \in Run, Transmit(r)
    PROVE  TypeOK'
<1>1. payload' \in [Run -> Payload]
  BY TransmitDelivers DEF TypeOK, Payload, Account
<1>2. pc' \in [Run -> Label] /\ status' \in [Run -> Status]
  BY TransmitDelivers, GotoTypes DEF Label
<1> QED BY <1>1, <1>2 DEF TypeOK, Transmit, node, file

(* The steps that only move on, or fill in a word of memory or the file.   *)
LEMMA OtherTypes ==
    ASSUME TypeOK, NEW r \in Run,
           \/ TruncateFile(r) \/ WriteFile(r) \/ ShowInitial(r)
           \/ LoadAddresses(r) \/ LoadProof(r) \/ PreVerify(r) \/ SubmitProof(r)
    PROVE  TypeOK'
<1>1. pc' \in [Run -> Label] /\ status' \in [Run -> Status]
  BY MoveTypes DEF TruncateFile, WriteFile, ShowInitial, LoadAddresses, LoadProof,
                   PreVerify, SubmitProof, Revert, Label
<1>2. CASE TruncateFile(r) \/ ShowInitial(r) \/ PreVerify(r)
  BY <1>1, <1>2 DEF TypeOK, TruncateFile, ShowInitial, PreVerify, node, file, memory
<1>3. CASE WriteFile(r)
  BY <1>1, <1>3 DEF TypeOK, WriteFile, addresses, node, memory
<1>4. CASE LoadAddresses(r)
  BY <1>1, <1>4 DEF TypeOK, LoadAddresses, node, file
<1>5. CASE LoadProof(r)
  BY <1>1, <1>5 DEF TypeOK, LoadProof, node, file
<1>6. CASE SubmitProof(r)
  BY <1>1, <1>6 DEF TypeOK, SubmitProof, Revert, file, memory
<1> QED BY <1>2, <1>3, <1>4, <1>5, <1>6

LEMMA StartTypes ==
    ASSUME TypeOK, NEW r \in Run, NEW script \in Scripts, Start(r, script)
    PROVE  TypeOK'
<1>1. pc' \in [Run -> Label] /\ status' \in [Run -> Status]
  BY DEF TypeOK, Start, Label, Status
<1>2. kind' \in [Run -> AllScripts \cup {"none"}]
  BY DEF TypeOK, Start
<1> QED BY <1>1, <1>2 DEF TypeOK, Start, node, file

LEMMA KillTypes ==
    ASSUME TypeOK, NEW r \in Run, Kill(r)
    PROVE  TypeOK'
BY DEF TypeOK, Kill, Status, node, file, memory

LEMMA StepTypes ==
    ASSUME TypeOK, Known, NEW r \in Run, Step(r)
    PROVE  TypeOK'
BY DeployVerifierTypes, DeployL2ATypes, DeployL2BTypes, OtherTypes, ReadSenderTypes,
   ReadReceiverTypes, TransmitTypes, BurnTypes, MintTypes, FinalSenderTypes,
   FinalReceiverTypes DEF Step

-----------------------------------------------------------------------------
(* What a step leaves alone. *)

(* The other processes. *)
Others(r) ==
    \A s \in Run \ {r} :
        /\ pc'[s] = pc[s] /\ status'[s] = status[s] /\ kind'[s] = kind[s]
        /\ at'[s] = at[s] /\ payload'[s] = payload[s]
        /\ proof'[s] = proof[s] /\ before'[s] = before[s] /\ after'[s] = after[s]

LEMMA StepOthers ==
    ASSUME TypeOK, NEW r \in Run, Step(r)
    PROVE  Others(r)
<1> USE DEF Others, Goto, Exit, Revert, memory
<1>1. ASSUME DeployVerifier(r) \/ DeployL2A(r) \/ DeployL2B(r) PROVE Others(r)
  BY <1>1 DEF TypeOK, DeployVerifier, DeployL2A, DeployL2B
<1>2. ASSUME TruncateFile(r) \/ WriteFile(r) \/ ShowInitial(r) \/ PreVerify(r)
      PROVE Others(r)
  BY <1>2 DEF TypeOK, TruncateFile, WriteFile, ShowInitial, PreVerify
<1>3. ASSUME LoadAddresses(r) \/ LoadProof(r) PROVE Others(r)
  BY <1>3 DEF TypeOK, LoadAddresses, LoadProof
<1>4. ASSUME ReadSender(r) \/ ReadReceiver(r) \/ FinalSender(r) \/ FinalReceiver(r)
      PROVE Others(r)
  BY <1>4 DEF TypeOK, ReadSender, ReadReceiver, FinalSender, FinalReceiver
<1>5. ASSUME Transmit(r) PROVE Others(r)
  BY <1>5, TransmitDelivers DEF TypeOK, Transmit
<1>6. ASSUME Burn(r) \/ Mint(r) \/ SubmitProof(r) PROVE Others(r)
  BY <1>6 DEF TypeOK, Burn, Mint, SubmitProof
<1> QED BY <1>1, <1>2, <1>3, <1>4, <1>5, <1>6 DEF Step

(* A step moves on or ends with an error. *)
LEMMA StepMoves ==
    ASSUME NEW r \in Run, Step(r)
    PROVE  Exit(r) \/ \E label \in Label : Goto(r, label)
<1> USE DEF Label
<1>1. ASSUME DeployVerifier(r) \/ DeployL2A(r) \/ DeployL2B(r)
      PROVE  \E label \in Label : Goto(r, label)
  BY <1>1 DEF DeployVerifier, DeployL2A, DeployL2B
<1>2. ASSUME TruncateFile(r) \/ WriteFile(r) \/ ShowInitial(r) \/ PreVerify(r)
      PROVE  Exit(r) \/ \E label \in Label : Goto(r, label)
  BY <1>2 DEF TruncateFile, WriteFile, ShowInitial, PreVerify
<1>3. ASSUME LoadAddresses(r) \/ LoadProof(r) \/ SubmitProof(r)
      PROVE  Exit(r) \/ \E label \in Label : Goto(r, label)
  BY <1>3 DEF LoadAddresses, LoadProof, SubmitProof, Revert
<1>4. ASSUME ReadSender(r) \/ ReadReceiver(r) \/ FinalSender(r) \/ FinalReceiver(r)
      PROVE  Exit(r) \/ \E label \in Label : Goto(r, label)
  BY <1>4 DEF ReadSender, ReadReceiver, FinalSender, FinalReceiver
<1>5. ASSUME Transmit(r) \/ Burn(r) \/ Mint(r)
      PROVE  Exit(r) \/ \E label \in Label : Goto(r, label)
  BY <1>5, TransmitDelivers DEF Burn, Mint, Revert
<1> QED BY <1>1, <1>2, <1>3, <1>4, <1>5 DEF Step

(* No step takes away or replaces a contract. *)
CodeKept ==
    \A a \in Addr : code[a] # "none" =>
        code'[a] = code[a] /\ verifierOf'[a] = verifierOf[a]

LEMMA StepKeepsCode ==
    ASSUME TypeOK, Unused, NEW r \in Run, Step(r)
    PROVE  CodeKept
<1>1. CASE UNCHANGED <<code, verifierOf>>
  BY <1>1 DEF CodeKept
<1>2. CASE DeployVerifier(r) \/ DeployL2A(r) \/ DeployL2B(r)
  <2>1. nonce \in Addr /\ code[nonce] = "none"
    BY <1>2, CreateTypes DEF DeployVerifier, DeployL2A, DeployL2B, Create, Unused, TypeOK, Addr
  <2> QED BY <1>2, <2>1 DEF CodeKept, DeployVerifier, DeployL2A, DeployL2B, Create, TypeOK
<1> QED BY <1>1, <1>2 DEF Step, TruncateFile, WriteFile, ShowInitial, PreVerify,
           LoadAddresses, LoadProof, ReadSender, ReadReceiver, FinalSender,
           FinalReceiver, Transmit, Burn, Mint, SubmitProof, node

LEMMA StagesKept ==
    ASSUME TypeOK, Stages, CodeKept, NEW r \in Run, Others(r), Stage(r)'
    PROVE  Stages'
<1> SUFFICES ASSUME NEW s \in Run, s # r PROVE Stage(s)'
  BY DEF Stages
<1>1. pc'[s] = pc[s] /\ kind'[s] = kind[s] /\ at'[s] = at[s]
  BY DEF Others
<1>2. Stage(s)
  BY DEF Stages
<1> QED BY <1>1, <1>2 DEF Stage, HasVerifier, HasL2A, CodeKept

LEMMA WiringKept ==
    ASSUME Wiring, CodeKept, Books' \subseteq Books
    PROVE  Wiring'
<1> SUFFICES ASSUME NEW b \in Books' PROVE Wired(b)'
  BY DEF Wiring
<1>1. Wired(b)
  BY DEF Wiring
<1> QED BY <1>1 DEF Wired, CodeKept

(* A step that neither burns nor mints: who is in flight stays so.         *)
LEMMA InFlightKept ==
    ASSUME \A s \in Run : /\ pc'[s] = "mint" <=> pc[s] = "mint"
                          /\ pc[s] = "mint" => at'[s] = at[s],
           NEW a
    PROVE  InFlight(a)' = InFlight(a)
BY DEF InFlight

LEMMA ConservationKept ==
    ASSUME Conservation, Wiring, Books' \subseteq Books,
           \A a \in Addr : code[a] # "none" => balances'[a] = balances[a],
           \A s \in Run : /\ pc'[s] = "mint" <=> pc[s] = "mint"
                          /\ pc[s] = "mint" => at'[s] = at[s]
    PROVE  Conservation'
<1> SUFFICES ASSUME NEW b \in Books'
             PROVE  (balances[b.l2a][Deployer] + balances[b.l2b][Receiver]
                       + Amount * Cardinality(InFlight(b.l2a)) = InitialBalance)'
  BY DEF Conservation
<1>1. InFlight(b.l2a)' = InFlight(b.l2a)
  BY InFlightKept
<1>2. balances'[b.l2a] = balances[b.l2a] /\ balances'[b.l2b] = balances[b.l2b]
  BY DEF Wiring, Wired
<1> QED BY <1>1, <1>2 DEF Conservation

(* Only a process that deploys its L2B puts a new book together; loading   *)
(* and saving pass books on.                                               *)
LEMMA StepBooks ==
    ASSUME TypeOK, Stages, NEW r \in Run, Step(r), ~DeployL2B(r)
    PROVE  Books' \subseteq Books
<1>1. CASE UNCHANGED <<at, fileState, saved>>
  BY <1>1 DEF Books
<1>2. CASE DeployVerifier(r) \/ DeployL2A(r)
  <2>1. at[r].l2b = NoAddr
    BY <1>2 DEF DeployVerifier, DeployL2A, At, Stages, Stage, HasVerifier
  <2>2. at'[r].l2b = NoAddr /\ \A s \in Run \ {r} : at'[s] = at[s]
    BY <1>2, <2>1 DEF TypeOK, Book, DeployVerifier, DeployL2A
  <2>3. UNCHANGED <<fileState, saved>>
    BY <1>2 DEF DeployVerifier, DeployL2A, file
  <2> QED BY <2>2, <2>3 DEF Books
<1>3. CASE LoadAddresses(r)
  <2>1. UNCHANGED <<fileState, saved>>
    BY <1>3 DEF LoadAddresses, file
  <2>2. at' = at \/ (fileState = "written" /\ at' = [at EXCEPT ![r] = saved])
    BY <1>3 DEF LoadAddresses
  <2> QED BY <2>1, <2>2 DEF Books, TypeOK
<1>4. CASE TruncateFile(r)
  BY <1>4 DEF TruncateFile, Books, memory
<1>5. CASE WriteFile(r)
  <2>1. at[r].l2b # NoAddr
    BY <1>5 DEF WriteFile, At, Stages, Stage, Complete
  <2>2. at' = at /\ saved' = at[r]
    BY <1>5 DEF WriteFile, addresses, memory
  <2> QED BY <2>1, <2>2 DEF Books
<1> QED BY <1>1, <1>2, <1>3, <1>4, <1>5 DEF Step, ShowInitial, PreVerify, LoadProof,
           ReadSender, ReadReceiver, FinalSender, FinalReceiver, Transmit, Burn, Mint,
           SubmitProof, file, memory

-----------------------------------------------------------------------------
(* Stages: where a process gets to, it knows what it needs there. *)

LEMMA DeployStage ==
    ASSUME TypeOK, Stages, Unused, NEW r \in Run,
           DeployVerifier(r) \/ DeployL2A(r) \/ DeployL2B(r)
    PROVE  Stage(r)'
<1>1. nonce \in Addr /\ NoAddr # nonce /\ code'[nonce] \in {"verifier", "l2a", "l2b"}
  BY CreateTypes DEF DeployVerifier, DeployL2A, DeployL2B, Create, TypeOK
<1>2. CASE DeployVerifier(r)
  <2>1. at[r].l2b = NoAddr
    BY <1>2 DEF DeployVerifier, At, Stages, Stage
  <2>2. at'[r].verifier = nonce /\ at'[r].l2b = NoAddr
    BY <1>2, <2>1 DEF TypeOK, Book, DeployVerifier
  <2>3. code'[nonce] = "verifier"
    BY <1>1, <1>2 DEF DeployVerifier, Create, TypeOK
  <2>4. pc'[r] \in {"end", "deployL2A"}
    BY <1>2 DEF DeployVerifier, Goto, TypeOK
  <2> QED BY <1>1, <2>2, <2>3, <2>4 DEF Stage, HasVerifier, Complete
<1>3. CASE DeployL2A(r)
  <2>1. HasVerifier(r)
    BY <1>3 DEF DeployL2A, At, Stages, Stage
  <2>2. at'[r].verifier = at[r].verifier /\ at'[r].l2a = nonce /\ at'[r].l2b = NoAddr
    BY <1>3, <2>1 DEF TypeOK, Book, DeployL2A, HasVerifier
  <2>3. code'[nonce] = "l2a" /\ verifierOf'[nonce] = at[r].verifier
    BY <1>1, <1>3 DEF DeployL2A, Create, TypeOK
  <2>4. code'[at[r].verifier] = "verifier"
    <3>1. CodeKept
      BY <1>3, StepKeepsCode DEF Step
    <3> QED BY <2>1, <3>1 DEF HasVerifier, CodeKept
  <2>5. pc'[r] = "deployL2B"
    BY <1>3 DEF DeployL2A, Goto, TypeOK
  <2> QED BY <1>1, <2>1, <2>2, <2>3, <2>4, <2>5 DEF Stage, HasVerifier, HasL2A, Complete
<1>4. CASE DeployL2B(r)
  <2>1. at'[r].l2b = nonce
    BY <1>4 DEF TypeOK, Book, DeployL2B
  <2>2. pc'[r] \in {"loadProof", "truncate"}
    BY <1>4 DEF DeployL2B, Goto, TypeOK
  <2> QED BY <1>1, <2>1, <2>2 DEF Stage, Complete
<1> QED BY <1>2, <1>3, <1>4

(* Every other step starts from a complete book, gets one from the file,   *)
(* or belongs to a script that needs none.                                 *)
LEMMA OtherStage ==
    ASSUME TypeOK, Stages, Wiring, CodeKept, NEW r \in Run, Step(r),
           ~DeployVerifier(r), ~DeployL2A(r), ~DeployL2B(r)
    PROVE  Stage(r)'
<1>1. CASE pc[r] \in Complete /\ at' = at /\ pc'[r] \in Complete \cup {"end"}
  BY <1>1 DEF Stages, Stage, Complete
<1>2. CASE LoadAddresses(r)
  <2>1. CASE Exit(r) /\ at' = at
    <3>1. pc'[r] = "loadAddresses" /\ at'[r] = at[r]
      BY <1>2, <2>1 DEF Exit, LoadAddresses, At
    <3> QED BY <1>2, <3>1 DEF Stages, Stage, LoadAddresses, At, Complete
  <2>2. CASE fileState = "written" /\ at' = [at EXCEPT ![r] = saved] /\ Goto(r, "loadProof")
    <3>1. saved.l2b # NoAddr
      BY <2>2 DEF Wiring, Books, Wired
    <3>2. at'[r] = saved /\ pc'[r] = "loadProof"
      BY <2>2 DEF TypeOK, Goto
    <3> QED BY <3>1, <3>2 DEF Stage, Complete
  <2> QED BY <1>2, <2>1, <2>2 DEF LoadAddresses
<1>3. CASE LoadProof(r)
  <2>1. at'[r] = at[r] /\ kind'[r] = kind[r] /\ pc[r] = "loadProof"
    BY <1>3 DEF LoadProof, At
  <2>2. pc'[r] = "loadProof" \/ pc'[r] = "submitProof"
        \/ (pc'[r] \in Complete /\ kind[r] \in {"demoBridge", "transferBridge"})
    BY <1>3, <2>1 DEF LoadProof, Goto, Exit, TypeOK, Complete
  <2> QED BY <2>1, <2>2 DEF Stages, Stage, Complete
<1>4. CASE SubmitProof(r)
  <2>1. pc'[r] \in {"submitProof", "end"}
    BY <1>4 DEF SubmitProof, At, Goto, Exit, Revert, TypeOK
  <2> QED BY <2>1 DEF Stage, Complete
<1>5. CASE TruncateFile(r) \/ WriteFile(r) \/ ShowInitial(r) \/ PreVerify(r)
  <2>1. pc[r] \in Complete /\ at' = at /\ pc'[r] \in Complete \cup {"end"}
    BY <1>5 DEF TruncateFile, WriteFile, ShowInitial, PreVerify, At, Goto, Exit,
                TypeOK, Complete, memory
  <2> QED BY <1>1, <2>1
<1>6. CASE ReadSender(r) \/ ReadReceiver(r) \/ FinalSender(r) \/ FinalReceiver(r)
  <2>1. pc[r] \in Complete /\ at' = at /\ pc'[r] \in Complete \cup {"end"}
    BY <1>6 DEF ReadSender, ReadReceiver, FinalSender, FinalReceiver, At, Goto, Exit,
                TypeOK, Complete
  <2> QED BY <1>1, <2>1
<1>7. CASE Transmit(r)
  <2>1. pc[r] \in Complete /\ at' = at /\ pc'[r] \in Complete
    BY <1>7, TransmitDelivers DEF Transmit, At, Goto, TypeOK, Complete
  <2> QED BY <1>1, <2>1
<1>8. CASE Burn(r) \/ Mint(r)
  <2>1. pc[r] \in Complete /\ at' = at /\ pc'[r] \in Complete
    BY <1>8 DEF Burn, Mint, At, Goto, Exit, Revert, TypeOK, Complete, memory
  <2> QED BY <1>1, <2>1
<1> QED BY <1>2, <1>3, <1>4, <1>5, <1>6, <1>7, <1>8 DEF Step

LEMMA StepStages ==
    ASSUME TypeOK, Stages, Unused, Wiring, NEW r \in Run, Step(r)
    PROVE  Stages'
<1>1. CodeKept
  BY StepKeepsCode
<1>2. Others(r)
  BY StepOthers
<1>3. Stage(r)'
  BY <1>1, DeployStage, OtherStage
<1> QED BY <1>1, <1>2, <1>3, StagesKept

-----------------------------------------------------------------------------
(* Unused, Delivered and NoFailureAfterBurn. *)

LEMMA StepUnused ==
    ASSUME TypeOK, Known, Unused, NEW r \in Run, Step(r)
    PROVE  Unused'
<1>1. CASE UNCHANGED <<code, balances>> /\ nonce' \in {nonce, nonce + 1}
  BY <1>1 DEF Unused, TypeOK, Addr
<1>2. CASE DeployVerifier(r) \/ DeployL2A(r) \/ DeployL2B(r)
  <2>1. PICK contract \in {"verifier", "l2a", "l2b"} : Create(contract)
    BY <1>2 DEF DeployVerifier, DeployL2A, DeployL2B
  <2>2. nonce \in Addr
    BY <2>1, CreateTypes
  <2>3. \A a \in Addr \ {nonce} : code'[a] = code[a] /\ balances'[a] = balances[a]
    BY <1>2, <2>2 DEF TypeOK, DeployVerifier, DeployL2A, DeployL2B, Create
  <2>4. code'[nonce] # "none" /\ nonce' = nonce + 1
    BY <2>1, <2>2 DEF TypeOK, Create
  <2> QED BY <2>2, <2>3, <2>4 DEF Unused, TypeOK, Addr
<1>3. CASE Burn(r) \/ Mint(r)
  <2>1. pc[r] \in Complete
    BY <1>3 DEF Burn, Mint, At, Complete
  <2>2. at[r].l2a \in Addr /\ at[r].l2b \in Addr
    BY <2>1 DEF Known, HasBook, FullBook
  <2>3. \A a \in Addr : code[a] = "none" => balances'[a] = balances[a]
    BY <1>3, <2>2 DEF burnOK, mintOK, Burn, Mint, Revert, TypeOK
  <2>4. code' = code /\ nonce' \in {nonce, nonce + 1}
    BY <1>3 DEF Burn, Mint, Revert
  <2> QED BY <2>3, <2>4 DEF Unused, TypeOK, Addr
<1>4. CASE SubmitProof(r)
  BY <1>1, <1>4 DEF SubmitProof, Revert
<1> QED BY <1>1, <1>2, <1>3, <1>4 DEF Step, TruncateFile, WriteFile, ShowInitial,
           PreVerify, LoadAddresses, LoadProof, ReadSender, ReadReceiver, FinalSender,
           FinalReceiver, Transmit, node

(* How a process gets to its two transactions. *)
LEMMA ToBurnOrMint ==
    ASSUME TypeOK, NEW r \in Run, Step(r), pc'[r] \in {"burn", "mint"}
    PROVE  \/ Transmit(r)
           \/ /\ Burn(r) \/ Mint(r)
              /\ pc[r] \in {"burn", "mint"}
<1> USE DEF TypeOK, Goto, Exit, Revert, At
<1>1. ~DeployVerifier(r) /\ ~DeployL2A(r) /\ ~DeployL2B(r)
  BY DEF DeployVerifier, DeployL2A, DeployL2B
<1>2. ~TruncateFile(r) /\ ~WriteFile(r) /\ ~ShowInitial(r) /\ ~PreVerify(r)
  BY DEF TruncateFile, WriteFile, ShowInitial, PreVerify
<1>3. ~LoadAddresses(r) /\ ~LoadProof(r) /\ ~SubmitProof(r)
  BY DEF LoadAddresses, LoadProof, SubmitProof
<1>4. ~ReadSender(r) /\ ~ReadReceiver(r) /\ ~FinalSender(r) /\ ~FinalReceiver(r)
  BY DEF ReadSender, ReadReceiver, FinalSender, FinalReceiver
<1> QED BY <1>1, <1>2, <1>3, <1>4 DEF Step, Burn, Mint

LEMMA StepDelivered ==
    ASSUME TypeOK, Delivered, NEW r \in Run, Step(r)
    PROVE  Delivered'
<1>1. Others(r)
  BY StepOthers
<1>2. ASSUME pc'[r] \in {"burn", "mint"}
      PROVE  payload'[r].to = Receiver /\ payload'[r].amount = Amount
  <2>1. CASE Transmit(r)
    BY <2>1, TransmitDelivers DEF TypeOK
  <2>2. CASE (Burn(r) \/ Mint(r)) /\ pc[r] \in {"burn", "mint"}
    BY <2>2 DEF Delivered, Burn, Mint, memory
  <2> QED BY <1>2, <2>1, <2>2, ToBurnOrMint
<1> QED BY <1>1, <1>2 DEF Delivered, Others

(* On a living node, a balance on a complete book can be read, and a       *)
(* transfer that burned can mint: what it mints is part of the supply.     *)
LEMMA MintFits ==
    ASSUME IInv, NEW r \in Run, pc[r] = "mint"
    PROVE  mintOK(r)
<1>1. pc[r] \in Complete
  BY DEF Complete
<1>2. at[r] \in Books /\ Wired(at[r])
  BY <1>1, BookInUse DEF IInv
<1> DEFINE underway == Cardinality(InFlight(at[r].l2a))
<1>3. underway \in Nat /\ underway >= 1
  <2>1. IsFiniteSet(InFlight(at[r].l2a))
    BY RunsAssumption, FS_Subset DEF InFlight
  <2>2. r \in InFlight(at[r].l2a)
    BY DEF InFlight
  <2> QED BY <2>1, <2>2, FS_CardinalityType, FS_EmptySet
<1>4. balances[at[r].l2a][Deployer] \in Nat /\ balances[at[r].l2b][Receiver] \in Nat
  BY <1>2 DEF IInv, TypeOK, Wired, Account
<1>5. balances[at[r].l2a][Deployer] + balances[at[r].l2b][Receiver] + Amount * underway
        = InitialBalance
  BY <1>2 DEF IInv, Conservation
<1>6. Amount * underway >= Amount
  BY <1>3
<1>7. balances[at[r].l2b][Receiver] + Amount <= MaxUint
  <2> DEFINE left == balances[at[r].l2a][Deployer]
             there == balances[at[r].l2b][Receiver]
             moving == Amount * underway
  <2>1. moving \in Nat
    BY <1>3
  <2> HIDE DEF left, there, moving
  <2> QED BY <1>4, <1>5, <1>6, <2>1 DEF left, there, moving
<1>8. payload[r].to = Receiver /\ payload[r].amount = Amount
  BY DEF IInv, Delivered
<1> QED BY <1>2, <1>7, <1>8 DEF mintOK, Wired, DstChain!receiveFromBridgeOK

LEMMA StepNoFailureAfterBurn ==
    ASSUME IInv, NEW r \in Run, Step(r)
    PROVE  NoFailureAfterBurn'
<1> DEFINE late == {"mint", "finalSender", "finalReceiver"}
<1>1. TypeOK /\ Stages /\ Wiring /\ NoFailureAfterBurn
  BY DEF IInv
<1>2. Others(r)
  BY <1>1, StepOthers
<1>3. ASSUME pc[r] \in late
      PROVE  status'[r] # "failed"
  <2>1. Wired(at[r])
    <3>1. pc[r] \in Complete
      BY <1>3 DEF Complete
    <3> QED BY <1>1, <3>1, BookInUse
  <2>2. hasBalances(at[r].l2a) /\ hasBalances(at[r].l2b) /\ code[at[r].l2b] # "none"
    BY <2>1 DEF Wired, hasBalances
  <2>3. CASE Mint(r)
    <3>1. mintOK(r)
      BY <2>3, MintFits DEF Mint, At
    <3>2. Goto(r, "finalSender") /\ status[r] = "running"
      BY <2>2, <2>3, <3>1 DEF Mint, At
    <3> QED BY <1>1, <3>2 DEF Goto, TypeOK
  <2>4. CASE FinalSender(r) \/ FinalReceiver(r)
    <3>1. \E label \in {"finalReceiver", "end"} : Goto(r, label)
      BY <2>2, <2>4 DEF FinalSender, FinalReceiver
    <3>2. status[r] = "running"
      BY <2>4 DEF FinalSender, FinalReceiver, At
    <3> QED BY <1>1, <3>1, <3>2 DEF Goto, TypeOK
  <2> QED BY <1>3, <2>3, <2>4 DEF Step, At, DeployVerifier, DeployL2A, DeployL2B,
             TruncateFile, WriteFile, ShowInitial, PreVerify, LoadAddresses, LoadProof,
             ReadSender, ReadReceiver, Transmit, Burn, SubmitProof
<1>4. ASSUME pc[r] \notin late, status'[r] = "failed"
      PROVE  pc'[r] \notin late
  <2>1. CASE pc'[r] = pc[r]
    BY <1>4, <2>1
  <2>2. CASE \E label \in Label : Goto(r, label)
    <3>1. status[r] = "running"
      BY DEF Step, At, DeployVerifier, DeployL2A, DeployL2B, TruncateFile, WriteFile,
             ShowInitial, PreVerify, LoadAddresses, LoadProof, ReadSender, ReadReceiver,
             Transmit, Burn, Mint, FinalSender, FinalReceiver, SubmitProof
    <3> QED BY <1>1, <1>4, <2>2, <3>1 DEF Goto, TypeOK
  <2>3. Exit(r) \/ \E label \in Label : Goto(r, label)
    BY StepMoves
  <2> QED BY <2>1, <2>2, <2>3 DEF Exit
<1> QED BY <1>1, <1>2, <1>3, <1>4 DEF NoFailureAfterBurn, Others

-----------------------------------------------------------------------------
(* Private and Wiring: an L2A passes from one process to one book. *)

LEMMA DeployL2BBooks ==
    ASSUME TypeOK, NEW r \in Run, DeployL2B(r)
    PROVE  /\ Books' \subseteq Books \cup {at'[r]}
           /\ at'[r].verifier = at[r].verifier
           /\ at'[r].l2a = at[r].l2a
           /\ at'[r].l2b = nonce
<1>1. \A s \in Run \ {r} : at'[s] = at[s]
  BY DEF TypeOK, DeployL2B
<1>2. UNCHANGED <<fileState, saved>>
  BY DEF DeployL2B, file
<1>3. Books' \subseteq Books \cup {at'[r]}
  BY <1>1, <1>2 DEF Books
<1> QED BY <1>3 DEF TypeOK, Book, DeployL2B

(* A process has a new L2A and no L2B only by deploying the L2A. *)
LEMMA ToDeployL2B ==
    ASSUME TypeOK, NEW r \in Run, Step(r), pc'[r] = "deployL2B"
    PROVE  DeployL2A(r)
<1> USE DEF TypeOK, Goto, Exit, Revert, At
<1>1. ~DeployVerifier(r) /\ ~DeployL2B(r)
  BY DEF DeployVerifier, DeployL2B
<1>2. ~TruncateFile(r) /\ ~WriteFile(r) /\ ~ShowInitial(r) /\ ~PreVerify(r)
  BY DEF TruncateFile, WriteFile, ShowInitial, PreVerify
<1>3. ~LoadAddresses(r) /\ ~LoadProof(r) /\ ~SubmitProof(r)
  BY DEF LoadAddresses, LoadProof, SubmitProof
<1>4. ~ReadSender(r) /\ ~ReadReceiver(r) /\ ~FinalSender(r) /\ ~FinalReceiver(r)
  BY DEF ReadSender, ReadReceiver, FinalSender, FinalReceiver
<1>5. ~Burn(r) /\ ~Mint(r)
  BY DEF Burn, Mint
<1>6. ~Transmit(r)
  BY TransmitDelivers DEF Transmit
<1> QED BY <1>1, <1>2, <1>3, <1>4, <1>5, <1>6 DEF Step

(* Tokens move only on the L2A and the L2B of the process that moves them. *)
LEMMA StepBalances ==
    ASSUME TypeOK, NEW r \in Run, Step(r), NEW a \in Addr, balances'[a] # balances[a]
    PROVE  \/ DeployL2A(r) /\ a = nonce
           \/ Burn(r) /\ a = at[r].l2a
           \/ Mint(r) /\ a = at[r].l2b
BY TransmitDelivers DEF TypeOK, Step, DeployVerifier, DeployL2A, DeployL2B, TruncateFile,
       WriteFile, ShowInitial, PreVerify, LoadAddresses, LoadProof, ReadSender,
       ReadReceiver, FinalSender, FinalReceiver, Transmit, Burn, Mint, SubmitProof,
       Revert, node

LEMMA StepPrivate ==
    ASSUME TypeOK, Stages, Unused, Private, Wiring, NEW r \in Run, Step(r)
    PROVE  Private'
<1>1. Others(r)
  BY StepOthers
<1>2. \A s \in Run : pc[s] = "deployL2B" => at[s].l2a \in Addr /\ code[at[s].l2a] = "l2a"
  BY DEF Stages, Stage, HasL2A
<1>3. ASSUME DeployL2A(r)
      PROVE  /\ at'[r].l2a = nonce /\ nonce \in Addr /\ code[nonce] = "none"
             /\ balances'[nonce][Deployer] = InitialBalance
             /\ Books' \subseteq Books
             /\ pc[r] # "deployL2B"
  <2>1. nonce \in Addr
    BY <1>3, CreateTypes DEF DeployL2A
  <2>2. code[nonce] = "none"
    BY <2>1 DEF Unused, TypeOK, Addr
  <2>3. balances'[nonce] = SrcChain!constructor(Deployer)
    BY <1>3, <2>1 DEF DeployL2A, TypeOK
  <2>4. balances'[nonce][Deployer] = InitialBalance
    BY <2>3 DEF SrcChain!constructor, Account
  <2>5. at'[r].l2a = nonce
    BY <1>3 DEF TypeOK, Book, DeployL2A
  <2>6. ~DeployL2B(r) /\ pc[r] # "deployL2B"
    BY <1>3 DEF DeployL2A, DeployL2B, At
  <2> QED BY <2>1, <2>2, <2>4, <2>5, <2>6, StepBooks
<1> SUFFICES ASSUME NEW s \in Run, pc'[s] = "deployL2B"
             PROVE  /\ balances'[at'[s].l2a][Deployer] = InitialBalance
                    /\ \A b \in Books' : b.l2a # at'[s].l2a
                    /\ \A t \in Run : pc'[t] = "deployL2B" /\ at'[t].l2a = at'[s].l2a
                                        => t = s
  BY DEF Private
<1>4. CASE s = r
  <2>1. DeployL2A(r)
    BY <1>4, ToDeployL2B
  <2>2. \A b \in Books' : b.l2a # nonce
    BY <1>3, <2>1 DEF Wiring, Wired
  <2>3. \A t \in Run \ {r} : pc'[t] = "deployL2B" => at'[t].l2a # nonce
    BY <1>1, <1>2, <1>3, <2>1 DEF Others
  <2> QED BY <1>3, <1>4, <2>1, <2>2, <2>3
<1>5. CASE s # r
  <2>1. pc[s] = "deployL2B" /\ at'[s] = at[s]
    BY <1>1, <1>5 DEF Others
  <2>2. balances'[at[s].l2a] = balances[at[s].l2a]
    <3>1. ~(DeployL2A(r) /\ at[s].l2a = nonce)
      BY <1>2, <1>3, <2>1
    <3>2. ASSUME Burn(r) \/ Mint(r)
          PROVE  at[r] \in Books /\ Wired(at[r])
      <4>1. pc[r] \in Complete
        BY <3>2 DEF Burn, Mint, At, Complete
      <4> QED BY <4>1, BookInUse
    <3>3. ~(Burn(r) /\ at[s].l2a = at[r].l2a)
      BY <2>1, <3>2 DEF Private
    <3>4. ~(Mint(r) /\ at[s].l2a = at[r].l2b)
      BY <1>2, <2>1, <3>2 DEF Wired
    <3> QED BY <1>2, <2>1, <3>1, <3>3, <3>4, StepBalances
  <2>3. \A b \in Books' : b.l2a # at[s].l2a
    <3>1. CASE ~DeployL2B(r)
      BY <2>1, <3>1, StepBooks DEF Private
    <3>2. CASE DeployL2B(r)
      <4>1. pc[r] = "deployL2B"
        BY <3>2 DEF DeployL2B, At
      <4>2. at[r].l2a # at[s].l2a
        BY <1>5, <2>1, <4>1 DEF Private
      <4> QED BY <2>1, <3>2, <4>2, DeployL2BBooks DEF Private
    <3> QED BY <3>1, <3>2
  <2>4. ASSUME NEW t \in Run, pc'[t] = "deployL2B", at'[t].l2a = at[s].l2a
        PROVE  t = s
    <3>1. CASE t = r
      BY <1>2, <1>3, <2>1, <2>4, <3>1, ToDeployL2B
    <3>2. CASE t # r
      <4>1. pc[t] = "deployL2B" /\ at'[t] = at[t]
        BY <1>1, <2>4, <3>2 DEF Others
      <4> QED BY <2>1, <2>4, <4>1 DEF Private
    <3> QED BY <3>1, <3>2
  <2> QED BY <2>1, <2>2, <2>3, <2>4 DEF Private
<1> QED BY <1>4, <1>5

LEMMA StepWiring ==
    ASSUME TypeOK, Stages, Unused, Private, Wiring, NEW r \in Run, Step(r)
    PROVE  Wiring'
<1>1. CodeKept
  BY StepKeepsCode
<1>2. CASE ~DeployL2B(r)
  BY <1>1, <1>2, StepBooks, WiringKept
<1>3. CASE DeployL2B(r)
  <2> DEFINE new == at'[r]
  <2>1. pc[r] = "deployL2B" /\ HasVerifier(r) /\ HasL2A(r)
    BY <1>3 DEF DeployL2B, At, Stages, Stage
  <2>2. nonce \in Addr /\ code[nonce] = "none" /\ code'[nonce] = "l2b"
    <3>1. nonce \in Addr
      BY <1>3, CreateTypes DEF DeployL2B
    <3> QED BY <1>3, <3>1 DEF DeployL2B, Create, Unused, TypeOK, Addr
  <2>3. new \in Book /\ new.verifier = at[r].verifier /\ new.l2a = at[r].l2a
          /\ new.l2b = nonce
    <3>1. new \in Book
      BY <1>3, DeployL2BTypes DEF TypeOK
    <3> QED BY <1>3, <3>1, DeployL2BBooks
  <2>4. ASSUME NEW b, b = new
        PROVE  Wired(b)'
    <3>1. code'[new.verifier] = "verifier" /\ code'[new.l2a] = "l2a"
            /\ verifierOf'[new.l2a] = new.verifier
      BY <1>1, <2>1, <2>3 DEF CodeKept, HasVerifier, HasL2A
    <3>2. new \in [verifier : Addr, l2a : Addr, l2b : Addr]
      BY <2>1, <2>2, <2>3 DEF Book, HasVerifier, HasL2A
    <3> QED BY <2>2, <2>3, <2>4, <3>1, <3>2 DEF Wired
  <2>5. \A b \in Books : Wired(b)'
    BY <1>1 DEF Wiring, Wired, CodeKept
  <2>6. \A b \in Books : b.l2a # new.l2a /\ b.l2b # new.l2b
    BY <2>1, <2>2, <2>3 DEF Private, Wiring, Wired
  <2>7. \A b \in Books' : b = new \/ b \in Books
    BY <1>3, DeployL2BBooks
  <2> SUFFICES ASSUME NEW b \in Books'
               PROVE  Wired(b)' /\ \A c \in Books' : b.l2a = c.l2a <=> b.l2b = c.l2b
    BY DEF Wiring
  <2>8. Wired(b)'
    BY <2>4, <2>5, <2>7
  <2>9. ASSUME NEW c \in Books'
        PROVE  b.l2a = c.l2a <=> b.l2b = c.l2b
    <3> HIDE DEF new
    <3> QED BY <2>6, <2>7 DEF Wiring
  <2> QED BY <2>8, <2>9
<1> QED BY <1>2, <1>3

-----------------------------------------------------------------------------
(* Conservation. *)

(* Steps other than the two transactions and the last deployment.          *)
LEMMA StillConserved ==
    ASSUME TypeOK, Stages, Unused, Wiring, Conservation, NEW r \in Run, Step(r),
           ~DeployL2B(r), ~Burn(r), ~Mint(r)
    PROVE  Conservation'
<1>1. Others(r)
  BY StepOthers
<1>2. Books' \subseteq Books
  BY StepBooks
<1>3. \A a \in Addr : code[a] # "none" => balances'[a] = balances[a]
  <2>1. DeployL2A(r) => nonce \in Addr /\ code[nonce] = "none"
    BY CreateTypes DEF DeployL2A, Unused, TypeOK, Addr
  <2> QED BY <2>1, StepBalances
<1>4. pc'[r] # "mint"
  BY TransmitDelivers, ToBurnOrMint DEF Goto, TypeOK
<1>5. pc[r] # "mint"
  BY DEF Step, At, DeployVerifier, DeployL2A, TruncateFile, WriteFile, ShowInitial,
         PreVerify, LoadAddresses, LoadProof, ReadSender, ReadReceiver, Transmit,
         FinalSender, FinalReceiver, SubmitProof
<1>6. \A s \in Run : /\ pc'[s] = "mint" <=> pc[s] = "mint"
                     /\ pc[s] = "mint" => at'[s] = at[s]
  BY <1>1, <1>4, <1>5 DEF Others
<1> QED BY <1>2, <1>3, <1>6, ConservationKept

(* A new book: the whole supply is on its L2A, and nothing is on its L2B.  *)
LEMMA DeployL2BConserves ==
    ASSUME IInv, NEW r \in Run, DeployL2B(r)
    PROVE  Conservation'
<1>1. TypeOK /\ Stages /\ Unused /\ Private /\ Wiring /\ Conservation
  BY DEF IInv
<1>2. pc[r] = "deployL2B" /\ HasL2A(r) /\ balances[at[r].l2a][Deployer] = InitialBalance
  BY <1>1 DEF DeployL2B, At, Stages, Stage, Private
<1>3. nonce \in Addr /\ balances[nonce][Receiver] = 0
  <2>1. nonce \in Addr
    BY <1>1, CreateTypes DEF DeployL2B
  <2> QED BY <1>1, <2>1 DEF Unused, Account, TypeOK, Addr
<1>4. balances' = balances
  BY DEF DeployL2B
<1>5. pc'[r] # "mint" /\ Others(r)
  <2>1. pc'[r] # "mint"
    BY <1>1 DEF DeployL2B, Goto, TypeOK
  <2> QED BY <1>1, <2>1, StepOthers DEF Step
<1>6. \A a : InFlight(a)' = InFlight(a)
  <2>1. \A s \in Run : /\ pc'[s] = "mint" <=> pc[s] = "mint"
                       /\ pc[s] = "mint" => at'[s] = at[s]
    BY <1>2, <1>5 DEF Others
  <2> QED BY <2>1, InFlightKept
<1>7. InFlight(at[r].l2a) = {}
  <2>1. ASSUME NEW s \in Run, pc[s] = "mint", at[s].l2a = at[r].l2a PROVE FALSE
    <3>1. at[s] \in Books
      BY <1>1, <2>1, BookInUse DEF Complete
    <3> QED BY <1>1, <1>2, <2>1, <3>1 DEF Private
  <2> QED BY <2>1 DEF InFlight
<1> SUFFICES ASSUME NEW b \in Books'
             PROVE  (balances[b.l2a][Deployer] + balances[b.l2b][Receiver]
                       + Amount * Cardinality(InFlight(b.l2a)) = InitialBalance)'
  BY DEF Conservation
<1>8. CASE b \in Books
  BY <1>1, <1>4, <1>6, <1>8 DEF Conservation
<1>9. CASE b = at'[r]
  <2>1. b.l2a = at[r].l2a /\ b.l2b = nonce
    BY <1>1, <1>9, DeployL2BBooks
  <2>2. InFlight(b.l2a)' = {}
    BY <1>6, <1>7, <2>1
  <2>3. Cardinality(InFlight(b.l2a)') = 0
    BY <2>2, FS_EmptySet
  <2> QED BY <1>2, <1>3, <1>4, <2>1, <2>3
<1> QED BY <1>1, <1>8, <1>9, DeployL2BBooks

(* An amount that leaves one of three summands for another.                *)
LEMMA Moved ==
    ASSUME NEW x \in Int, NEW y \in Int, NEW z \in Int, NEW n \in Int
    PROVE  /\ (x - n) + y + (z + n) = x + y + z
           /\ x + (y + n) + z = x + y + (z + n)
OBVIOUS

LEMMA Times ==
    ASSUME NEW m \in Nat, NEW n \in Nat
    PROVE  m * (n + 1) = m * n + m /\ m * n \in Nat
OBVIOUS

LEMMA BurnConserves ==
    ASSUME IInv, NEW r \in Run, Burn(r)
    PROVE  Conservation'
<1> DEFINE l2a == at[r].l2a
<1>1. TypeOK /\ Stages /\ Unused /\ Wiring /\ Conservation /\ Delivered
  BY DEF IInv
<1>2. Step(r) /\ ~DeployL2B(r) /\ pc[r] = "burn"
  BY DEF Step, Burn, DeployL2B, At
<1>3. at[r] \in Books /\ Wired(at[r])
  BY <1>1, <1>2, BookInUse DEF Complete
<1>4. Others(r) /\ Books' \subseteq Books /\ at' = at
  BY <1>1, <1>2, StepOthers, StepBooks DEF Burn, memory
<1>5. CASE Exit(r) /\ balances' = balances
  <2>1. pc' = pc
    BY <1>5 DEF Exit
  <2> QED BY <1>1, <1>4, <1>5, <2>1, ConservationKept
<1>6. CASE /\ burnOK(r)
           /\ balances' = [balances EXCEPT ![at[r].l2a] =
                     SrcChain!bridgeTransfer(@, Deployer, payload[r].amount)]
           /\ Goto(r, "mint")
  <2>1. payload[r].amount = Amount
    BY <1>1, <1>2 DEF Delivered
  <2>2. pc'[r] = "mint"
    BY <1>1, <1>6 DEF Goto, TypeOK
  <2>3. balances'[l2a][Deployer] = balances[l2a][Deployer] - Amount
    BY <1>1, <1>3, <1>6, <2>1 DEF TypeOK, Wired, Account, SrcChain!bridgeTransfer
  <2>4. \A a \in Addr \ {l2a} : balances'[a] = balances[a]
    BY <1>1, <1>6 DEF TypeOK
  <2>5. \A a : a = l2a => InFlight(a)' = InFlight(a) \cup {r} /\ r \notin InFlight(a)
    BY <1>2, <1>4, <2>2 DEF InFlight, Others
  <2>6. \A a : a # l2a => InFlight(a)' = InFlight(a)
    BY <1>2, <1>4, <2>2 DEF InFlight, Others
  <2> SUFFICES ASSUME NEW b \in Books'
               PROVE  (balances[b.l2a][Deployer] + balances[b.l2b][Receiver]
                         + Amount * Cardinality(InFlight(b.l2a)) = InitialBalance)'
    BY DEF Conservation
  <2>7. b \in Books /\ Wired(b)
    BY <1>1, <1>4 DEF Wiring
  <2>8. balances'[b.l2b] = balances[b.l2b]
    BY <1>3, <2>4, <2>7 DEF Wired
  <2>9. balances[b.l2a][Deployer] + balances[b.l2b][Receiver]
          + Amount * Cardinality(InFlight(b.l2a)) = InitialBalance
    BY <1>1, <2>7 DEF Conservation
  <2>10. CASE b.l2a # l2a
    <3>1. balances'[b.l2a] = balances[b.l2a]
      BY <2>4, <2>7, <2>10 DEF Wired
    <3> QED BY <2>6, <2>8, <2>9, <2>10, <3>1
  <2>11. CASE b.l2a = l2a
    <3>1. IsFiniteSet(InFlight(b.l2a))
      BY RunsAssumption, FS_Subset DEF InFlight
    <3>2. Cardinality(InFlight(b.l2a)') = Cardinality(InFlight(b.l2a)) + 1
          /\ Cardinality(InFlight(b.l2a)) \in Nat
      BY <2>5, <2>11, <3>1, FS_AddElement, FS_CardinalityType
    <3>3. Amount * Cardinality(InFlight(b.l2a)')
            = Amount * Cardinality(InFlight(b.l2a)) + Amount
          /\ Amount * Cardinality(InFlight(b.l2a)) \in Nat
      BY <3>2, Times
    <3>4. balances[b.l2a][Deployer] \in Nat /\ balances[b.l2b][Receiver] \in Nat
      BY <1>1, <2>7 DEF TypeOK, Wired, Account
    <3>5. balances'[b.l2a][Deployer] = balances[b.l2a][Deployer] - Amount
      BY <2>3, <2>11
    <3>6. balances'[b.l2a][Deployer] + balances'[b.l2b][Receiver]
            + Amount * Cardinality(InFlight(b.l2a)')
            = balances[b.l2a][Deployer] + balances[b.l2b][Receiver]
                + Amount * Cardinality(InFlight(b.l2a))
      BY <2>8, <3>3, <3>4, <3>5, Moved
    <3> QED BY <2>9, <3>6
  <2> QED BY <2>10, <2>11
<1>7. code[at[r].l2a] # "none"
  BY <1>3 DEF Wired
<1> QED BY <1>5, <1>6, <1>7 DEF Burn, Revert

LEMMA MintConserves ==
    ASSUME IInv, NEW r \in Run, Mint(r)
    PROVE  Conservation'
<1> DEFINE l2a == at[r].l2a
           l2b == at[r].l2b
<1>1. TypeOK /\ Stages /\ Unused /\ Wiring /\ Conservation /\ Delivered
  BY DEF IInv
<1>2. Step(r) /\ ~DeployL2B(r) /\ pc[r] = "mint"
  BY DEF Step, Mint, DeployL2B, At
<1>3. at[r] \in Books /\ Wired(at[r])
  BY <1>1, <1>2, BookInUse DEF Complete
<1>4. Others(r) /\ Books' \subseteq Books /\ at' = at
  BY <1>1, <1>2, StepOthers, StepBooks DEF Mint, memory
<1>5. /\ balances' = [balances EXCEPT ![l2b] =
            DstChain!receiveFromBridge(@, payload[r].to, payload[r].amount)]
      /\ Goto(r, "finalSender")
  <2>1. mintOK(r) /\ code[l2b] # "none"
    BY <1>2, <1>3, MintFits DEF Wired
  <2> QED BY <2>1 DEF Mint
<1>6. payload[r].to = Receiver /\ payload[r].amount = Amount
  BY <1>1, <1>2 DEF Delivered
<1>7. pc'[r] # "mint"
  BY <1>1, <1>5 DEF Goto, TypeOK
<1>8. balances'[l2b][Receiver] = balances[l2b][Receiver] + Amount
  BY <1>1, <1>3, <1>5, <1>6 DEF TypeOK, Wired, Account, DstChain!receiveFromBridge
<1>9. \A a \in Addr \ {l2b} : balances'[a] = balances[a]
  BY <1>1, <1>5 DEF TypeOK
<1>10. \A a : a = l2a => InFlight(a)' = InFlight(a) \ {r} /\ r \in InFlight(a)
  BY <1>2, <1>4, <1>7 DEF InFlight, Others
<1>11. \A a : a # l2a => InFlight(a)' = InFlight(a)
  BY <1>2, <1>4, <1>7 DEF InFlight, Others
<1> SUFFICES ASSUME NEW b \in Books'
             PROVE  (balances[b.l2a][Deployer] + balances[b.l2b][Receiver]
                       + Amount * Cardinality(InFlight(b.l2a)) = InitialBalance)'
  BY DEF Conservation
<1>12. b \in Books /\ Wired(b) /\ (b.l2a = l2a <=> b.l2b = l2b)
  BY <1>1, <1>3, <1>4 DEF Wiring
<1>13. balances'[b.l2a] = balances[b.l2a]
  BY <1>3, <1>9, <1>12 DEF Wired
<1>14. balances[b.l2a][Deployer] + balances[b.l2b][Receiver]
          + Amount * Cardinality(InFlight(b.l2a)) = InitialBalance
  BY <1>1, <1>12 DEF Conservation
<1>15. CASE b.l2a # l2a
  <2>1. balances'[b.l2b] = balances[b.l2b]
    BY <1>9, <1>12, <1>15 DEF Wired
  <2> QED BY <1>11, <1>13, <1>14, <1>15, <2>1
<1>16. CASE b.l2a = l2a
  <2>1. IsFiniteSet(InFlight(b.l2a)) /\ IsFiniteSet(InFlight(b.l2a)')
    BY RunsAssumption, FS_Subset DEF InFlight
  <2>2. Cardinality(InFlight(b.l2a)) = Cardinality(InFlight(b.l2a)') + 1
        /\ Cardinality(InFlight(b.l2a)') \in Nat
    BY <1>10, <1>16, <2>1, FS_RemoveElement, FS_CardinalityType
  <2>3. Amount * Cardinality(InFlight(b.l2a))
          = Amount * Cardinality(InFlight(b.l2a)') + Amount
        /\ Amount * Cardinality(InFlight(b.l2a)') \in Nat
    BY <2>2, Times
  <2>4. balances[b.l2a][Deployer] \in Nat /\ balances[b.l2b][Receiver] \in Nat
    BY <1>1, <1>12 DEF TypeOK, Wired, Account
  <2>5. balances'[b.l2b][Receiver] = balances[b.l2b][Receiver] + Amount
    BY <1>8, <1>12, <1>16
  <2>6. balances[b.l2a][Deployer] + balances'[b.l2b][Receiver]
          + Amount * Cardinality(InFlight(b.l2a)')
          = balances[b.l2a][Deployer] + balances[b.l2b][Receiver]
              + Amount * Cardinality(InFlight(b.l2a))
    BY <2>3, <2>4, <2>5, Moved
  <2> QED BY <1>13, <1>14, <2>6
<1> QED BY <1>15, <1>16

LEMMA StepConservation ==
    ASSUME IInv, NEW r \in Run, Step(r)
    PROVE  Conservation'
BY StillConserved, DeployL2BConserves, BurnConserves, MintConserves DEF IInv

-----------------------------------------------------------------------------
(* Where a step of a script leads. *)

LEMMA StepKind ==
    ASSUME TypeOK, NEW r \in Run, Step(r)
    PROVE  kind' = kind /\ status[r] = "running"
BY DEF Step, At, DeployVerifier, DeployL2A, DeployL2B, TruncateFile, WriteFile,
       ShowInitial, LoadAddresses, LoadProof, PreVerify, ReadSender, ReadReceiver,
       Transmit, Burn, Mint, FinalSender, FinalReceiver, SubmitProof, memory

(* A step keeps the place and fails, or goes on along the itinerary.       *)
LEMMA StepItinerary ==
    ASSUME TypeOK, Itineraries, NEW r \in Run, Step(r)
    PROVE  Itinerary(r)'
<1>1. Itinerary(r) /\ kind'[r] = kind[r]
  BY StepKind DEF Itineraries
<1>2. CASE Exit(r)
  BY <1>1, <1>2 DEF Exit, Itinerary
<1> USE DEF TypeOK, At, Goto, Itinerary
<1>3. CASE DeployVerifier(r) \/ DeployL2A(r) \/ DeployL2B(r)
  BY <1>1, <1>3 DEF DeployVerifier, DeployL2A, DeployL2B
<1>4. CASE TruncateFile(r) \/ WriteFile(r) \/ ShowInitial(r) \/ PreVerify(r)
  BY <1>1, <1>2, <1>4 DEF TruncateFile, WriteFile, ShowInitial, PreVerify
<1>5. CASE LoadAddresses(r) \/ LoadProof(r) \/ SubmitProof(r)
  BY <1>1, <1>2, <1>5 DEF LoadAddresses, LoadProof, SubmitProof, Revert
<1>6. CASE ReadSender(r) \/ ReadReceiver(r)
  BY <1>1, <1>2, <1>6 DEF ReadSender, ReadReceiver
<1>7. CASE FinalSender(r) \/ FinalReceiver(r)
  BY <1>1, <1>2, <1>7 DEF FinalSender, FinalReceiver
<1>8. CASE Transmit(r) \/ Burn(r) \/ Mint(r)
  BY <1>1, <1>2, <1>8, TransmitDelivers DEF Transmit, Burn, Mint, Revert
<1> QED BY <1>3, <1>4, <1>5, <1>6, <1>7, <1>8 DEF Step

LEMMA StepItineraries ==
    ASSUME TypeOK, Itineraries, NEW r \in Run, Step(r)
    PROVE  Itineraries'
<1>1. Itinerary(r)'
  BY StepItinerary
<1> QED BY <1>1, StepOthers DEF Itineraries, Itinerary, Others

-----------------------------------------------------------------------------
(* The invariant. *)

LEMMA InitInv == Init => IInv
<1> SUFFICES ASSUME Init PROVE IInv
  OBVIOUS
<1>1. TypeOK
  BY InitTypes
<1>2. Books = {}
  BY DEF Init, Books, NoBook
<1>3. Stages /\ Private /\ Delivered
  BY DEF Init, Stages, Stage, Private, Delivered, NoBook, Complete
<1>4. Unused
  BY DEF Init, FreshNode, Unused, DstChain!emptyBalances
<1>5. Wiring /\ Conservation
  BY <1>2 DEF Wiring, Conservation
<1>6. NoFailureAfterBurn
  BY DEF Init, NoFailureAfterBurn
<1> QED BY <1>1, <1>3, <1>4, <1>5, <1>6 DEF IInv

LEMMA StepInv ==
    ASSUME IInv, NEW r \in Run, Step(r)
    PROVE  IInv'
BY KnownInUse, StepTypes, StepStages, StepUnused, StepPrivate, StepDelivered, StepWiring,
   StepConservation, StepNoFailureAfterBurn DEF IInv

(* Starting a process leaves all but its script and its place alone.       *)
LEMMA StartInv ==
    ASSUME IInv, NEW r \in Run, NEW script \in Scripts, Start(r, script)
    PROVE  IInv'
<1>1. TypeOK /\ Stages /\ Unused /\ Private /\ Delivered /\ Wiring /\ Conservation
        /\ NoFailureAfterBurn
  BY DEF IInv
<1>2. TypeOK'
  BY <1>1, StartTypes
<1>3. UNCHANGED <<nonce, code, verifierOf, balances, fileState, saved, at, payload,
                  proof, before, after>>
  BY DEF Start, node, file
<1>4. pc[r] = "idle" /\ pc'[r] \in {"deployVerifier", "loadAddresses", "loadProof"}
        /\ (pc'[r] = "loadProof" => kind'[r] = "verifyProof") /\ status'[r] = "running"
  BY <1>1 DEF Start, TypeOK
<1>5. \A s \in Run \ {r} : pc'[s] = pc[s] /\ kind'[s] = kind[s] /\ status'[s] = status[s]
  BY <1>1 DEF Start, TypeOK
<1>6. Books' = Books
  BY <1>3 DEF Books
<1>7. Stages'
  <2>1. Stage(r)'
    BY <1>1, <1>3, <1>4 DEF Stages, Stage, Complete
  <2>2. CodeKept
    BY <1>3 DEF CodeKept
  <2>3. Others(r)
    BY <1>3, <1>5 DEF Others
  <2> QED BY <1>1, <2>1, <2>2, <2>3, StagesKept
<1>8. Unused'
  BY <1>1, <1>3 DEF Unused
<1>9. Private' /\ Delivered'
  <2>1. Private'
    BY <1>1, <1>3, <1>4, <1>5, <1>6 DEF Private
  <2>2. Delivered'
    BY <1>1, <1>3, <1>4, <1>5 DEF Delivered
  <2> QED BY <2>1, <2>2
<1>10. Wiring'
  BY <1>1, <1>3, <1>6, WiringKept DEF CodeKept
<1>11. Conservation'
  <2>1. \A s \in Run : /\ pc'[s] = "mint" <=> pc[s] = "mint"
                       /\ pc[s] = "mint" => at'[s] = at[s]
    BY <1>3, <1>4, <1>5
  <2> QED BY <1>1, <1>3, <1>6, <2>1, ConservationKept
<1>12. NoFailureAfterBurn'
  BY <1>1, <1>4, <1>5 DEF NoFailureAfterBurn
<1> QED BY <1>2, <1>7, <1>8, <1>9, <1>10, <1>11, <1>12 DEF IInv

(* What every step that touches no pc and no node, file or memory keeps.   *)
LEMMA StillInv ==
    ASSUME IInv, TypeOK', NoFailureAfterBurn', UNCHANGED <<node, file, memory, pc>>
    PROVE  IInv'
<1>1. Stages' /\ Unused' /\ Delivered'
  BY DEF IInv, Stages, Stage, HasVerifier, HasL2A, Unused, Delivered, node, memory
<1>2. Books' = Books /\ (\A b : Wired(b)' = Wired(b)) /\ \A a : InFlight(a)' = InFlight(a)
  BY DEF Books, Wired, InFlight, node, file, memory
<1>3. Private'
  BY <1>2 DEF IInv, Private, node, memory
<1>4. Wiring' /\ Conservation'
  BY <1>2 DEF IInv, Wiring, Conservation, node
<1> QED BY <1>1, <1>3, <1>4 DEF IInv

LEMMA KillInv ==
    ASSUME IInv, NEW r \in Run, Kill(r)
    PROVE  IInv'
<1>1. TypeOK'
  BY KillTypes DEF IInv
<1>2. NoFailureAfterBurn'
  BY DEF IInv, TypeOK, NoFailureAfterBurn, Kill
<1> QED BY <1>1, <1>2, StillInv DEF Kill

LEMMA StutterInv == IInv /\ UNCHANGED vars => IInv'
<1> SUFFICES ASSUME IInv, UNCHANGED vars PROVE IInv'
  OBVIOUS
<1>1. TypeOK'
  BY DEF IInv, TypeOK, vars, node, file, memory
<1>2. NoFailureAfterBurn'
  BY DEF IInv, NoFailureAfterBurn, vars
<1> QED BY <1>1, <1>2, StillInv DEF vars

LEMMA NextInv == IInv /\ [Next]_vars => IInv'
<1> SUFFICES ASSUME IInv, [Next]_vars PROVE IInv'
  OBVIOUS
<1>1. CASE Next
  BY <1>1, StepInv, StartInv, KillInv DEF Next
<1>2. CASE UNCHANGED vars
  BY <1>2, StutterInv
<1> QED BY <1>1, <1>2

(* The inductive invariant holds in every state of every behaviour.        *)
THEOREM Invariance == Spec => []IInv
BY InitInv, NextInv, PTL DEF Spec

(* The variables keep their types; in particular no balance of any L2A or  *)
(* L2B ever leaves the range of uint256.                                   *)
THEOREM TypeCorrectness == Spec => []TypeOK
<1>1. IInv => TypeOK
  BY DEF IInv
<1> QED BY <1>1, Invariance, PTL

(* Deployments that interleave never cross: every book in use names an L2A *)
(* bound to its verifier, and no two books share one side of a pair.       *)
THEOREM WiringHolds == Spec => []Wiring
<1>1. IInv => Wiring
  BY DEF IInv
<1> QED BY <1>1, Invariance, PTL

(* Between an L2A, its L2B and the transfers in flight, the supply of the  *)
(* L2A is kept, whatever processes run and wherever they die.              *)
THEOREM ConservationHolds == Spec => []Conservation
<1>1. IInv => Conservation
  BY DEF IInv
<1> QED BY <1>1, Invariance, PTL

(* No script fails by itself between its burn and its end.                 *)
THEOREM NoFailureAfterBurnHolds == Spec => []NoFailureAfterBurn
<1>1. IInv => NoFailureAfterBurn
  BY DEF IInv
<1> QED BY <1>1, Invariance, PTL

-----------------------------------------------------------------------------
(* Nobody gets past tx1 on a proof that does not verify. *)

(* A process that burns has a payload that tells the truth, and its L2A    *)
(* asks the verifier: with IInv its book is wired, so it cannot burn on an *)
(* empty address.                                                          *)
LEMMA BurnNeedsProof ==
    ASSUME IInv, NEW r \in Run, Burn(r), pc'[r] = "mint"
    PROVE  payload[r].zkProof
<1>1. pc[r] = "burn" /\ Stage(r)
  BY DEF IInv, Stages, Burn, At
<1>2. Wired(at[r])
  BY <1>1 DEF IInv, Wiring, Books, Stage, Complete
<1>3. burnOK(r)
  BY <1>1, <1>2 DEF Burn, Wired, Revert, Exit
<1> QED BY <1>3 DEF burnOK, SrcChain!bridgeTransferOK

LEMMA StepProved ==
    ASSUME IInv, Itineraries, ProvedInv, NEW r \in Run, Step(r)
    PROVE  ProvedInv'
<1>1. TypeOK /\ Itinerary(r) /\ kind'[r] = kind[r] /\ Others(r)
  BY StepKind, StepOthers DEF IInv, Itineraries
<1>2. SUFFICES /\ pc'[r] = "burn" => payload'[r].zkProof = proof'[r]
               /\ r \in Transfers
                    /\ pc'[r] \in {"mint", "finalSender", "finalReceiver", "end"} => proof'[r]
  BY <1>1 DEF ProvedInv, BurnWasProved, Transfers, Others
<1>3. CASE UNCHANGED <<proof, payload>> /\ pc'[r] = pc[r]
  BY <1>3 DEF ProvedInv, BurnWasProved
<1>4. CASE LoadProof(r)
  BY <1>1, <1>4 DEF LoadProof, At, Goto, Exit, TypeOK, ProvedInv, BurnWasProved
<1>5. CASE Transmit(r)
  BY <1>1, <1>5, TransmitDelivers DEF Transmit, Goto, TypeOK
<1>6. CASE Burn(r)
  <2>1. pc[r] = "burn" /\ UNCHANGED <<proof, payload>> /\ pc'[r] \in {"burn", "mint"}
    BY <1>1, <1>6 DEF Burn, At, Goto, Revert, Exit, memory, TypeOK
  <2>2. pc'[r] = "mint" => payload[r].zkProof
    BY <1>6, BurnNeedsProof
  <2> QED BY <2>1, <2>2 DEF ProvedInv
<1> USE DEF TypeOK, At, Goto, Exit, Itinerary, Transfers
<1>7. CASE Mint(r)
  BY <1>1, <1>3, <1>7 DEF Mint, Revert, memory, ProvedInv, BurnWasProved
<1>8. CASE FinalSender(r) \/ FinalReceiver(r)
  BY <1>1, <1>3, <1>8 DEF FinalSender, FinalReceiver, ProvedInv, BurnWasProved
<1>9. CASE DeployVerifier(r) \/ DeployL2A(r) \/ DeployL2B(r)
  BY <1>1, <1>9 DEF DeployVerifier, DeployL2A, DeployL2B
<1>10. CASE TruncateFile(r) \/ WriteFile(r) \/ ShowInitial(r) \/ PreVerify(r)
  BY <1>1, <1>3, <1>10 DEF TruncateFile, WriteFile, ShowInitial, PreVerify, memory
<1>11. CASE LoadAddresses(r) \/ ReadSender(r) \/ ReadReceiver(r)
  BY <1>1, <1>3, <1>11 DEF LoadAddresses, ReadSender, ReadReceiver
<1>12. CASE SubmitProof(r)
  BY <1>1, <1>3, <1>12 DEF SubmitProof, Revert, memory
<1> QED BY <1>4, <1>5, <1>6, <1>7, <1>8, <1>9, <1>10, <1>11, <1>12 DEF Step

LEMMA StartItineraries ==
    ASSUME TypeOK, Itineraries, NEW r \in Run, NEW script \in Scripts, Start(r, script)
    PROVE  Itineraries'
<1>1. /\ kind'[r] = script /\ script \in AllScripts
      /\ pc'[r] = IF script = "transferBridge" THEN "loadAddresses"
                  ELSE IF script = "verifyProof" THEN "loadProof" ELSE "deployVerifier"
  BY DEF Start, TypeOK
<1>2. Itinerary(r)'
  BY <1>1 DEF Itinerary, AllScripts
<1>3. \A s \in Run \ {r} : pc'[s] = pc[s] /\ kind'[s] = kind[s]
  BY DEF Start, TypeOK
<1> QED BY <1>2, <1>3 DEF Itineraries, Itinerary

LEMMA NextProved ==
    ASSUME IInv, Itineraries, ProvedInv, [Next]_vars
    PROVE  Itineraries' /\ ProvedInv'
<1>1. TypeOK
  BY DEF IInv
<1>2. ASSUME NEW r \in Run, Step(r) PROVE Itineraries' /\ ProvedInv'
  BY <1>1, <1>2, StepItineraries, StepProved
<1>3. ASSUME NEW r \in Run, NEW script \in Scripts, Start(r, script)
      PROVE  Itineraries' /\ ProvedInv'
  <2>1. Itineraries'
    BY <1>1, <1>3, StartItineraries
  <2>2. pc'[r] \notin {"burn", "mint", "finalSender", "finalReceiver", "end"}
    BY <1>1, <1>3 DEF Start, TypeOK
  <2>3. \A s \in Run \ {r} : pc'[s] = pc[s] /\ kind'[s] = kind[s]
    BY <1>1, <1>3 DEF Start, TypeOK
  <2>4. UNCHANGED <<proof, payload>>
    BY <1>3 DEF Start
  <2>5. ProvedInv'
    BY <2>2, <2>3, <2>4 DEF ProvedInv, BurnWasProved, Transfers
  <2> QED BY <2>1, <2>5
<1>4. CASE UNCHANGED <<pc, kind, proof, payload>>
  BY <1>4 DEF Itineraries, Itinerary, ProvedInv, BurnWasProved, Transfers
<1> QED BY <1>2, <1>3, <1>4 DEF Next, Kill, vars, memory

(* Whoever is past tx1 had a proof that the verifier accepts: L2A and the  *)
(* payload carry the answer through, whatever else runs.                   *)
THEOREM BurnWasProvedHolds == Spec => []BurnWasProved
<1>1. Init => Itineraries /\ ProvedInv
  BY DEF Init, Itineraries, Itinerary, ProvedInv, BurnWasProved, Transfers
<1>2. IInv /\ Itineraries /\ ProvedInv /\ [Next]_vars => Itineraries' /\ ProvedInv'
  BY NextProved
<1>3. ProvedInv => BurnWasProved
  BY DEF ProvedInv
<1> QED BY <1>1, <1>2, <1>3, Invariance, PTL DEF Spec

-----------------------------------------------------------------------------
(* What a step leaves in the memory of the processes. *)

LEMMA StepDoneAtEnd ==
    ASSUME TypeOK, DoneAtEnd, NEW r \in Run, Step(r)
    PROVE  DoneAtEnd'
<1>1. status'[r] = "done" => pc'[r] = "end"
  <2>1. status[r] = "running"
    BY StepKind
  <2> QED BY <2>1, StepMoves DEF TypeOK, Exit, Goto
<1> QED BY <1>1, StepOthers DEF DoneAtEnd, Others

(* The addresses that a process needs next are in its book.                *)
LEMMA StepKnown ==
    ASSUME TypeOK, Known, NEW r \in Run, Step(r)
    PROVE  Known'
<1>1. HasBook(r) /\ kind'[r] = kind[r] /\ at[r] \in Book
  BY StepKind DEF Known, TypeOK
<1>2. CASE DeployVerifier(r) \/ DeployL2A(r) \/ DeployL2B(r)
  <2>1. nonce \in Addr
    BY <1>2, CreateTypes DEF DeployVerifier, DeployL2A, DeployL2B
  <2>2. UNCHANGED <<fileState, saved>>
    BY <1>2 DEF DeployVerifier, DeployL2A, DeployL2B, file
  <2>3. ASSUME DeployVerifier(r) PROVE HasBook(r)'
    <3>1. at'[r].verifier = nonce /\ pc'[r] \in {"deployL2A", "end"}
      BY <1>1, <2>3 DEF TypeOK, Book, DeployVerifier, Goto
    <3> QED BY <2>1, <3>1 DEF HasBook, Complete
  <2>4. ASSUME DeployL2A(r) PROVE HasBook(r)'
    <3>1. at[r].verifier \in Addr
      BY <1>1, <2>4 DEF HasBook, DeployL2A, At
    <3>2. at'[r].verifier = at[r].verifier /\ at'[r].l2a = nonce /\ pc'[r] = "deployL2B"
      BY <1>1, <2>4 DEF TypeOK, Book, DeployL2A, Goto
    <3> QED BY <2>1, <3>1, <3>2 DEF HasBook, Complete
  <2>5. ASSUME DeployL2B(r) PROVE HasBook(r)'
    <3>1. at[r].verifier \in Addr /\ at[r].l2a \in Addr
      BY <1>1, <2>5 DEF HasBook, DeployL2B, At
    <3>2. at'[r] = [at[r] EXCEPT !.l2b = nonce] /\ pc'[r] \in {"loadProof", "truncate"}
      BY <2>5 DEF TypeOK, DeployL2B, Goto
    <3>3. at'[r] \in FullBook
      BY <1>1, <2>1, <3>1, <3>2 DEF Book, FullBook
    <3> QED BY <3>2, <3>3 DEF HasBook
  <2>6. HasBook(r)'
    BY <1>2, <2>3, <2>4, <2>5
  <2> QED BY <2>2, <2>6, StepOthers DEF Known, HasBook, Others
<1>3. CASE LoadAddresses(r)
  <2>1. UNCHANGED <<fileState, saved>>
    BY <1>3 DEF LoadAddresses, file
  <2>2. \/ at'[r] = at[r] /\ pc'[r] = "loadAddresses"
        \/ at'[r] = saved /\ saved \in FullBook /\ pc'[r] = "loadProof"
    BY <1>3 DEF LoadAddresses, Known, TypeOK, Goto, Exit, At
  <2>3. HasBook(r)'
    BY <2>2 DEF HasBook, Complete
  <2> QED BY <2>1, <2>3, StepOthers DEF Known, HasBook, Others
<1>4. CASE UNCHANGED at /\ (pc'[r] \in Complete => at[r] \in FullBook)
           /\ pc'[r] \notin {"deployL2A", "deployL2B"}
           /\ (pc'[r] = "loadProof" => pc[r] = "loadProof")
           /\ (fileState' = "written" => saved' \in FullBook)
  <2>1. HasBook(r)'
    BY <1>1, <1>4 DEF HasBook
  <2> QED BY <1>4, <2>1, StepOthers DEF Known, HasBook, Others
<1> USE DEF HasBook, TypeOK, At, Goto, Exit, Complete, file, memory
<1>5. CASE TruncateFile(r) \/ WriteFile(r)
  BY <1>1, <1>4, <1>5 DEF TruncateFile, WriteFile, addresses
<1>6. CASE ShowInitial(r) \/ PreVerify(r)
  BY <1>1, <1>4, <1>6 DEF ShowInitial, PreVerify, Known
<1>7. CASE LoadProof(r)
  <2>1. pc'[r] \in {"loadProof", "submitProof"}
        \/ (pc'[r] \in Complete /\ kind[r] \in {"demoBridge", "transferBridge"})
    BY <1>7 DEF LoadProof
  <2> QED BY <1>1, <1>4, <1>7, <2>1 DEF LoadProof, Known
<1>8. CASE ReadSender(r) \/ ReadReceiver(r)
  BY <1>1, <1>4, <1>8 DEF ReadSender, ReadReceiver, Known
<1>9. CASE FinalSender(r) \/ FinalReceiver(r)
  BY <1>1, <1>4, <1>9 DEF FinalSender, FinalReceiver, Known
<1>10. CASE Transmit(r)
  BY <1>1, <1>4, <1>10, TransmitDelivers DEF Transmit, Known
<1>11. CASE Burn(r) \/ Mint(r) \/ SubmitProof(r)
  BY <1>1, <1>4, <1>11 DEF Burn, Mint, SubmitProof, Revert, Known
<1> QED BY <1>2, <1>3, <1>5, <1>6, <1>7, <1>8, <1>9, <1>10, <1>11 DEF Step

LEMMA StepCommon ==
    ASSUME CommonInv, NEW r \in Run, Step(r)
    PROVE  CommonInv'
<1>1. TypeOK /\ Unused /\ Itineraries /\ Known /\ Delivered /\ DoneAtEnd
  BY DEF CommonInv
<1>2. TypeOK' /\ Unused'
  BY <1>1, StepTypes, StepUnused
<1>3. Itineraries' /\ Known'
  BY <1>1, StepItineraries, StepKnown
<1>4. Delivered' /\ DoneAtEnd'
  BY <1>1, StepDelivered, StepDoneAtEnd
<1> QED BY <1>2, <1>3, <1>4 DEF CommonInv

-----------------------------------------------------------------------------
(* The ledgers: on a contract that is there, the sender's balance never    *)
(* grows and the receiver's never shrinks, whoever moves (bridgeTransfer   *)
(* takes from the first signer, receiveFromBridge gives to the second).    *)

LEMMA LedgersMove ==
    ASSUME CommonInv, NEW r \in Run, Step(r), NEW a \in Addr, code[a] # "none"
    PROVE  /\ code'[a] # "none"
           /\ balances'[a][Deployer] <= balances[a][Deployer]
           /\ balances'[a][Receiver] >= balances[a][Receiver]
<1>1. TypeOK /\ Unused /\ Known /\ Delivered
  BY DEF CommonInv
<1>2. code'[a] # "none"
  BY <1>1, StepKeepsCode DEF CodeKept
<1>3. balances[a] \in [Account -> 0 .. MaxUint] /\ Deployer \in Account /\ Receiver \in Account
  BY <1>1 DEF TypeOK, Account
<1>4. CASE balances'[a] = balances[a]
  BY <1>2, <1>3, <1>4
<1>5. CASE DeployL2A(r) /\ a = nonce
  <2>1. code[nonce] = "none"
    BY <1>1, <1>5 DEF Unused, TypeOK, Addr
  <2> QED BY <1>5, <2>1
<1>6. CASE Burn(r) /\ a = at[r].l2a /\ balances'[a] # balances[a]
  <2>1. balances'[a] = SrcChain!bridgeTransfer(balances[a], Deployer, payload[r].amount)
    BY <1>1, <1>6 DEF Burn, Revert, TypeOK
  <2>2. payload[r].amount = Amount
    BY <1>1, <1>6 DEF Burn, At, Delivered
  <2> QED BY <1>2, <1>3, <2>1, <2>2 DEF SrcChain!bridgeTransfer
<1>7. CASE Mint(r) /\ a = at[r].l2b /\ balances'[a] # balances[a]
  <2>1. balances'[a] = DstChain!receiveFromBridge(balances[a], payload[r].to, payload[r].amount)
    BY <1>1, <1>7 DEF Mint, Revert, TypeOK
  <2>2. payload[r].amount = Amount /\ payload[r].to = Receiver
    BY <1>1, <1>7 DEF Mint, At, Delivered
  <2> QED BY <1>2, <1>3, <2>1, <2>2 DEF DstChain!receiveFromBridge
<1> QED BY <1>1, <1>4, <1>5, <1>6, <1>7, StepBalances

(* What the two transactions of a transfer do on contracts that are there. *)
LEMMA BurnIsReal ==
    ASSUME CommonInv, NEW r \in Run, Burn(r), code[at[r].l2a] # "none", pc'[r] = "mint"
    PROVE  burned(r)
<1>1. pc[r] = "burn" /\ payload[r].amount = Amount /\ at[r] \in FullBook
  BY DEF CommonInv, Burn, At, Delivered, Known, HasBook, Complete
<1>2. at[r].l2a \in Addr /\ balances[at[r].l2a] \in [Account -> 0 .. MaxUint]
  BY <1>1 DEF FullBook, CommonInv, TypeOK
<1>3. ~Revert(r)
  BY <1>1 DEF Revert, Exit
<1>4. balances' = [balances EXCEPT ![at[r].l2a] =
          SrcChain!bridgeTransfer(@, Deployer, payload[r].amount)]
  BY <1>3 DEF Burn
<1>5. balances'[at[r].l2a] = SrcChain!bridgeTransfer(balances[at[r].l2a], Deployer, Amount)
  BY <1>1, <1>2, <1>4 DEF CommonInv, TypeOK
<1> QED BY <1>2, <1>5 DEF burned, SrcChain!bridgeTransfer, Account

LEMMA MintIsReal ==
    ASSUME CommonInv, NEW r \in Run, Mint(r), code[at[r].l2b] # "none",
           pc'[r] = "finalSender"
    PROVE  minted(r)
<1>1. /\ pc[r] = "mint" /\ at[r] \in FullBook
      /\ payload[r].amount = Amount /\ payload[r].to = Receiver
  BY DEF CommonInv, Mint, At, Delivered, Known, HasBook, Complete
<1>2. at[r].l2b \in Addr /\ balances[at[r].l2b] \in [Account -> 0 .. MaxUint]
  BY <1>1 DEF FullBook, CommonInv, TypeOK
<1>3. ~Revert(r)
  BY <1>1 DEF Revert, Exit
<1>4. balances' = [balances EXCEPT ![at[r].l2b] =
          DstChain!receiveFromBridge(@, payload[r].to, payload[r].amount)]
  BY <1>3 DEF Mint
<1>5. balances'[at[r].l2b] = DstChain!receiveFromBridge(balances[at[r].l2b], Receiver, Amount)
  BY <1>1, <1>2, <1>4 DEF CommonInv, TypeOK
<1> QED BY <1>2, <1>5 DEF minted, DstChain!receiveFromBridge, Account

-----------------------------------------------------------------------------
(* Tracked and Reported: a process keeps what it saw. *)

(* Another process does not disturb it. *)
LEMMA TrackedByOthers ==
    ASSUME CommonInv, NEW r \in Run, Step(r), NEW s \in Run, s # r, Tracked(s), Reported(s)
    PROVE  Tracked(s)' /\ Reported(s)'
<1>1. /\ pc'[s] = pc[s] /\ status'[s] = status[s] /\ kind'[s] = kind[s]
      /\ at'[s] = at[s] /\ before'[s] = before[s] /\ after'[s] = after[s]
  BY StepOthers DEF CommonInv, Others
<1>2. Reported(s)'
  BY <1>1 DEF Reported
<1>3. SUFFICES ASSUME status[s] = "running" PROVE Tracked(s)'
  BY <1>1, <1>2 DEF Tracked
<1>4. HasBook(s) /\ Itinerary(s)
  BY DEF CommonInv, Known, Itineraries
<1>5. ASSUME SeesSource(s)
      PROVE  /\ at[s].l2a \in Addr /\ code'[at[s].l2a] # "none"
             /\ balances'[at[s].l2a][Deployer] <= balances[at[s].l2a][Deployer]
  <2>1. at[s].l2a \in Addr
    BY <1>4, <1>5 DEF HasBook, FullBook, SeesSource, SenderRead, Complete
  <2>2. code[at[s].l2a] # "none"
    BY <1>3, <1>5 DEF Tracked
  <2> QED BY <2>1, <2>2, LedgersMove
<1>6. ASSUME SeesDestination(s)
      PROVE  /\ at[s].l2b \in Addr /\ code'[at[s].l2b] # "none"
             /\ balances'[at[s].l2b][Receiver] >= balances[at[s].l2b][Receiver]
  <2>1. at[s].l2b \in Addr
    BY <1>4, <1>6 DEF HasBook, FullBook, SeesDestination, ReceiverRead, SenderRead, Complete
  <2>2. code[at[s].l2b] # "none"
    BY <1>3, <1>6 DEF Tracked
  <2> QED BY <2>1, <2>2, LedgersMove
<1>7. balances \in [Addr -> [Account -> 0 .. MaxUint]] /\ before \in [Run -> Seen]
      /\ balances' \in [Addr -> [Account -> 0 .. MaxUint]]
      /\ Deployer \in Account /\ Receiver \in Account
  BY StepCommon DEF CommonInv, TypeOK, Account
<1>8. ASSUME pc[s] \in SenderRead PROVE SenderBefore(s)'
  <2>1. SeesSource(s) /\ SenderBefore(s)
    BY <1>3, <1>8 DEF Tracked, SeesSource
  <2>2. before[s].l2a \in Int
    BY <1>7 DEF Seen
  <2>3. balances[at[s].l2a][Deployer] \in Int /\ balances'[at[s].l2a][Deployer] \in Int
    BY <1>5, <1>7, <2>1
  <2> QED BY <1>1, <1>5, <2>1, <2>2, <2>3 DEF SenderBefore
<1>9. ASSUME kind[s] = "transferBridge", pc[s] \in ReceiverRead PROVE ReceiverBefore(s)'
  <2>1. SeesDestination(s) /\ ReceiverBefore(s)
    BY <1>3, <1>9 DEF Tracked, SeesDestination
  <2>2. before[s].l2b \in Int
    BY <1>7 DEF Seen
  <2>3. balances[at[s].l2b][Receiver] \in Int /\ balances'[at[s].l2b][Receiver] \in Int
    BY <1>6, <1>7, <2>1
  <2> QED BY <1>1, <1>6, <2>1, <2>2, <2>3 DEF ReceiverBefore
<1>10. SeesSource(s)' = SeesSource(s) /\ SeesDestination(s)' = SeesDestination(s)
  BY <1>1 DEF SeesSource, SeesDestination
<1> QED BY <1>1, <1>5, <1>6, <1>8, <1>9, <1>10 DEF Tracked

(* Its own steps before it reads. *)
LEMMA TrackedWhenDeployed ==
    ASSUME CommonInv, NEW r \in Run, Tracked(r),
           DeployVerifier(r) \/ DeployL2A(r) \/ DeployL2B(r)
    PROVE  Tracked(r)'
<1>1. TypeOK /\ Itinerary(r) /\ status[r] = "running" /\ kind' = kind
  BY DEF CommonInv, Itineraries, At, DeployVerifier, DeployL2A, DeployL2B
<1>2. nonce \in Addr /\ code'[nonce] # "none"
  BY <1>1, CreateTypes DEF DeployVerifier, DeployL2A, DeployL2B, Create, TypeOK
<1>3. CASE DeployVerifier(r)
  <2>1. pc'[r] \in {"deployL2A", "end"}
    BY <1>1, <1>3 DEF DeployVerifier, Goto, TypeOK
  <2> QED BY <2>1 DEF Tracked, SeesSource, SeesDestination, SenderRead, ReceiverRead, Complete
<1>4. CASE DeployL2A(r)
  <2>1. pc'[r] = "deployL2B" /\ at'[r].l2a = nonce
    BY <1>1, <1>4 DEF DeployL2A, Goto, TypeOK, Book
  <2> QED BY <1>2, <2>1
       DEF Tracked, SeesSource, SeesDestination, SenderRead, ReceiverRead, Complete
<1>5. CASE DeployL2B(r)
  <2>1. pc[r] = "deployL2B" /\ pc'[r] \in {"loadProof", "truncate"}
    BY <1>1, <1>5 DEF DeployL2B, At, Goto, TypeOK
  <2>2. at'[r].l2a = at[r].l2a /\ at'[r].l2b = nonce
    BY <1>1, <1>5 DEF DeployL2B, TypeOK, Book
  <2>3. kind[r] \in {"deployContracts", "demoBridge"}
    BY <1>1, <2>1 DEF Itinerary
  <2>4. at[r].l2a \in Addr /\ code[at[r].l2a] # "none"
    BY <1>1, <2>1, <2>3 DEF CommonInv, Known, HasBook, Tracked, SeesSource
  <2>5. code'[at[r].l2a] # "none"
    BY <1>5, <2>4, LedgersMove DEF Step
  <2> QED BY <1>2, <2>1, <2>2, <2>5
       DEF Tracked, SeesSource, SeesDestination, SenderRead, ReceiverRead, Complete
<1> QED BY <1>3, <1>4, <1>5

LEMMA TrackedBefore ==
    ASSUME CommonInv, NEW r \in Run, Tracked(r),
           \/ TruncateFile(r) \/ WriteFile(r) \/ ShowInitial(r)
           \/ LoadAddresses(r) \/ LoadProof(r) \/ PreVerify(r) \/ SubmitProof(r)
    PROVE  Tracked(r)'
<1>1. TypeOK /\ Itinerary(r) /\ status[r] = "running" /\ kind' = kind
  BY StepKind DEF CommonInv, Itineraries, Step
<1>2. CASE Exit(r)
  BY <1>1, <1>2 DEF Exit, Tracked, TypeOK
<1>3. UNCHANGED code
  BY DEF TruncateFile, WriteFile, ShowInitial, LoadAddresses, LoadProof, PreVerify,
         SubmitProof, node
<1> USE DEF TypeOK, At, Goto, Itinerary, memory
<1>4. CASE TruncateFile(r) \/ WriteFile(r) \/ ShowInitial(r)
  <2>1. /\ at'[r] = at[r] /\ kind[r] = "deployContracts"
        /\ pc[r] \in {"truncate", "write", "showInitial"}
        /\ Exit(r) \/ pc'[r] \in {"write", "showInitial", "end"}
    BY <1>1, <1>4 DEF TruncateFile, WriteFile, ShowInitial
  <2> QED BY <1>1, <1>2, <1>3, <2>1
       DEF Tracked, SeesSource, SeesDestination, SenderRead, ReceiverRead, Complete
<1>5. CASE LoadAddresses(r)
  <2>1. kind[r] = "transferBridge" /\ (Exit(r) \/ pc'[r] = "loadProof")
    BY <1>1, <1>5 DEF LoadAddresses
  <2> QED BY <1>1, <1>2, <2>1
       DEF Tracked, SeesSource, SeesDestination, SenderRead, ReceiverRead, Complete
<1>6. CASE LoadProof(r) \/ PreVerify(r)
  <2>1. /\ at'[r] = at[r] /\ pc[r] \in {"loadProof", "preVerify"}
        /\ \/ Exit(r)
           \/ kind[r] = "demoBridge" /\ pc'[r] \in {"preVerify", "readSender"}
           \/ kind[r] = "transferBridge" /\ pc'[r] = "readSender"
           \/ kind[r] = "verifyProof" /\ pc'[r] = "submitProof"
    BY <1>1, <1>6 DEF LoadProof, PreVerify
  <2> QED BY <1>1, <1>2, <1>3, <2>1
       DEF Tracked, SeesSource, SeesDestination, SenderRead, ReceiverRead, Complete
<1>7. CASE SubmitProof(r)
  <2>1. Exit(r) \/ pc'[r] = "end"
    BY <1>1, <1>7 DEF SubmitProof, Revert
  <2> QED BY <1>1, <1>2, <2>1
       DEF Tracked, SeesSource, SeesDestination, SenderRead, ReceiverRead, Complete
<1> QED BY <1>4, <1>5, <1>6, <1>7

(* What a process sees of its ledgers stays there while it moves on.       *)
LEMMA SourceStays ==
    ASSUME CommonInv, NEW r \in Run, Step(r), Tracked(r), SeesSource(r)
    PROVE  /\ at[r].l2a \in Addr /\ code[at[r].l2a] # "none" /\ code'[at[r].l2a] # "none"
           /\ balances[at[r].l2a][Deployer] \in Nat
           /\ balances'[at[r].l2a][Deployer] \in Nat
           /\ balances'[at[r].l2a][Deployer] <= balances[at[r].l2a][Deployer]
<1>1. at[r].l2a \in Addr
  BY DEF CommonInv, Known, HasBook, FullBook, SeesSource, SenderRead, Complete, Itineraries,
         Itinerary
<1>2. code[at[r].l2a] # "none"
  BY StepKind DEF CommonInv, Tracked
<1>3. TypeOK /\ TypeOK'
  BY StepCommon DEF CommonInv
<1> QED BY <1>1, <1>2, <1>3, LedgersMove DEF TypeOK, Account

LEMMA DestinationStays ==
    ASSUME CommonInv, NEW r \in Run, Step(r), Tracked(r), SeesDestination(r)
    PROVE  /\ at[r].l2b \in Addr /\ code[at[r].l2b] # "none" /\ code'[at[r].l2b] # "none"
           /\ balances[at[r].l2b][Receiver] \in Nat
           /\ balances'[at[r].l2b][Receiver] \in Nat
           /\ balances'[at[r].l2b][Receiver] >= balances[at[r].l2b][Receiver]
<1>1. at[r].l2b \in Addr
  BY DEF CommonInv, Known, HasBook, FullBook, SeesDestination, ReceiverRead, SenderRead,
         Complete, Itineraries, Itinerary
<1>2. code[at[r].l2b] # "none"
  BY StepKind DEF CommonInv, Tracked
<1>3. TypeOK /\ TypeOK'
  BY StepCommon DEF CommonInv
<1> QED BY <1>1, <1>2, <1>3, LedgersMove DEF TypeOK, Account

(* Reading the sender's balance finds the ledger and starts the account.   *)
LEMMA TrackedReadSender ==
    ASSUME CommonInv, NEW r \in Run, Tracked(r), ReadSender(r)
    PROVE  Tracked(r)'
<1>1. TypeOK /\ status[r] = "running" /\ pc[r] = "readSender" /\ UNCHANGED <<kind, at, code, balances>>
      /\ kind[r] \in {"demoBridge", "transferBridge"} /\ at[r] \in FullBook
  BY DEF CommonInv, Itineraries, Itinerary, Known, HasBook, Complete, ReadSender, At, node
<1>2. CASE Exit(r)
  BY <1>1, <1>2 DEF Exit, Tracked, TypeOK
<1>3. CASE ~Exit(r)
  <2>1. /\ hasBalances(at[r].l2a)
        /\ before'[r] = [before[r] EXCEPT !.l2a = balances[at[r].l2a][Deployer]]
        /\ pc'[r] = IF kind[r] = "demoBridge" THEN "transmit" ELSE "readReceiver"
    BY <1>1, <1>3 DEF ReadSender, Goto, TypeOK
  <2>2. code[at[r].l2a] # "none"
    BY <2>1 DEF hasBalances
  <2>3. before'[r].l2a = balances[at[r].l2a][Deployer]
        /\ balances[at[r].l2a][Deployer] \in Nat
    BY <1>1, <2>1 DEF TypeOK, Seen, FullBook, Account
  <2>4. SenderBefore(r)'
    BY <1>1, <2>1, <2>3 DEF SenderBefore
  <2>5. kind[r] = "demoBridge" => code[at[r].l2b] # "none"
    BY <1>1 DEF Tracked, SeesDestination, Complete
  <2>6. kind'[r] = "transferBridge" => pc'[r] \notin ReceiverRead
    BY <1>1, <2>1 DEF ReceiverRead
  <2>7. SeesDestination(r)' => kind[r] = "demoBridge"
    BY <1>1, <2>6 DEF SeesDestination
  <2> QED BY <1>1, <2>2, <2>4, <2>5, <2>6, <2>7 DEF Tracked
<1> QED BY <1>2, <1>3

LEMMA TrackedReadReceiver ==
    ASSUME CommonInv, NEW r \in Run, Tracked(r), ReadReceiver(r)
    PROVE  Tracked(r)'
<1>1. TypeOK /\ status[r] = "running" /\ pc[r] = "readReceiver" /\ UNCHANGED <<kind, at, code, balances>>
      /\ at[r] \in FullBook
  BY DEF CommonInv, Known, HasBook, Complete, ReadReceiver, At, node
<1>2. CASE Exit(r)
  BY <1>1, <1>2 DEF Exit, Tracked, TypeOK
<1>3. CASE ~Exit(r)
  <2>1. /\ hasBalances(at[r].l2b)
        /\ before'[r] = [before[r] EXCEPT !.l2b = balances[at[r].l2b][Receiver]]
        /\ pc'[r] = "transmit"
    BY <1>1, <1>3 DEF ReadReceiver, Goto, TypeOK
  <2>2. code[at[r].l2b] # "none" /\ code[at[r].l2a] # "none" /\ SenderBefore(r)
    BY <1>1, <2>1 DEF hasBalances, Tracked, SeesSource, SenderRead
  <2>3. /\ before'[r].l2b = balances[at[r].l2b][Receiver]
        /\ before'[r].l2a = before[r].l2a
        /\ balances[at[r].l2b][Receiver] \in Nat
    BY <1>1, <2>1 DEF TypeOK, Seen, FullBook, Account
  <2>4. SenderBefore(r)' /\ ReceiverBefore(r)'
    BY <1>1, <2>1, <2>2, <2>3 DEF SenderBefore, ReceiverBefore
  <2> QED BY <1>1, <2>2, <2>4 DEF Tracked
<1> QED BY <1>2, <1>3

(* The channel and the two transactions.  The burn takes Amount from what  *)
(* the sender had, and the mint gives it to what the receiver had.         *)
LEMMA TrackedTransfer ==
    ASSUME CommonInv, NEW r \in Run, Tracked(r), Transmit(r) \/ Burn(r) \/ Mint(r)
    PROVE  Tracked(r)'
<1>1. /\ TypeOK /\ TypeOK' /\ Step(r) /\ status[r] = "running"
      /\ UNCHANGED <<kind, at, before>> /\ pc[r] \in {"transmit", "burn", "mint"}
  BY StepCommon DEF CommonInv, Step, Transmit, Burn, Mint, At, memory
<1>2. CASE Exit(r)
  BY <1>1, <1>2 DEF Exit, Tracked, TypeOK
<1>3. /\ code[at[r].l2a] # "none" /\ code'[at[r].l2a] # "none" /\ SenderBefore(r)
      /\ balances[at[r].l2a][Deployer] \in Nat /\ balances'[at[r].l2a][Deployer] \in Nat
      /\ balances'[at[r].l2a][Deployer] <= balances[at[r].l2a][Deployer]
  BY <1>1, SourceStays DEF Tracked, SeesSource, SenderRead
<1>4. /\ code[at[r].l2b] # "none" /\ code'[at[r].l2b] # "none"
      /\ kind[r] = "transferBridge" => ReceiverBefore(r)
      /\ balances[at[r].l2b][Receiver] \in Nat /\ balances'[at[r].l2b][Receiver] \in Nat
      /\ balances'[at[r].l2b][Receiver] >= balances[at[r].l2b][Receiver]
  BY <1>1, DestinationStays DEF Tracked, SeesDestination, ReceiverRead, SenderRead
<1>5. before[r].l2a \in Nat /\ before[r].l2b \in Nat
  BY <1>1 DEF TypeOK, Seen
<1>6. ASSUME SenderBefore(r)', kind[r] = "transferBridge" => ReceiverBefore(r)'
      PROVE  Tracked(r)'
  BY <1>1, <1>3, <1>4, <1>6 DEF Tracked
<1>7. CASE Transmit(r)
  <2>1. pc'[r] = "burn" /\ pc[r] = "transmit"
    BY <1>1, <1>7, TransmitDelivers DEF Transmit, At, Goto, TypeOK
  <2>2. SenderBefore(r)'
    BY <1>1, <1>3, <1>5, <2>1 DEF SenderBefore
  <2>3. kind[r] = "transferBridge" => ReceiverBefore(r)'
    BY <1>1, <1>4, <1>5, <2>1 DEF ReceiverBefore
  <2> QED BY <1>6, <2>2, <2>3
<1>8. CASE Burn(r) /\ ~Exit(r)
  <2>1. pc'[r] = "mint" /\ pc[r] = "burn"
    BY <1>1, <1>8 DEF Burn, Revert, At, Goto, TypeOK
  <2>2. balances'[at[r].l2a][Deployer] = balances[at[r].l2a][Deployer] - Amount
    BY <1>3, <1>8, <2>1, BurnIsReal DEF burned
  <2>3. SenderBefore(r)'
    BY <1>1, <1>3, <1>5, <2>1, <2>2 DEF SenderBefore
  <2>4. kind[r] = "transferBridge" => ReceiverBefore(r)'
    BY <1>1, <1>4, <1>5, <2>1 DEF ReceiverBefore
  <2> QED BY <1>6, <2>3, <2>4
<1>9. CASE Mint(r) /\ ~Exit(r)
  <2>1. pc'[r] = "finalSender" /\ pc[r] = "mint"
    BY <1>1, <1>9 DEF Mint, Revert, At, Goto, TypeOK
  <2>2. balances'[at[r].l2b][Receiver] = balances[at[r].l2b][Receiver] + Amount
    BY <1>4, <1>9, <2>1, MintIsReal DEF minted
  <2>3. SenderBefore(r)'
    BY <1>1, <1>3, <1>5, <2>1 DEF SenderBefore
  <2>4. kind[r] = "transferBridge" => ReceiverBefore(r)'
    BY <1>1, <1>4, <1>5, <2>1, <2>2 DEF ReceiverBefore
  <2> QED BY <1>6, <2>3, <2>4
<1> QED BY <1>2, <1>7, <1>8, <1>9

(* The closing reads find what the account promised.                       *)
LEMMA TrackedFinal ==
    ASSUME CommonInv, NEW r \in Run, Tracked(r), Reported(r), FinalSender(r) \/ FinalReceiver(r)
    PROVE  Tracked(r)' /\ Reported(r)'
<1>1. /\ TypeOK /\ Step(r) /\ status[r] = "running" /\ at[r] \in FullBook
      /\ UNCHANGED <<kind, at, before, code, balances>>
      /\ pc[r] \in {"finalSender", "finalReceiver"}
  BY DEF CommonInv, Known, HasBook, Complete, Step, FinalSender, FinalReceiver, At, node
<1>2. CASE Exit(r) /\ UNCHANGED after
  BY <1>1, <1>2 DEF Exit, Tracked, Reported, TypeOK
<1>3. /\ code[at[r].l2a] # "none" /\ code[at[r].l2b] # "none" /\ SenderBefore(r)
      /\ kind[r] = "transferBridge" => ReceiverBefore(r)
  BY <1>1 DEF Tracked, SeesSource, SeesDestination, SenderRead, ReceiverRead
<1>4. /\ balances[at[r].l2a][Deployer] \in Nat /\ balances[at[r].l2b][Receiver] \in Nat
      /\ before[r].l2a \in Nat /\ before[r].l2b \in Nat
  BY <1>1 DEF TypeOK, FullBook, Account, Seen
<1>5. CASE FinalSender(r) /\ ~(Exit(r) /\ UNCHANGED after)
  <2>1. /\ pc[r] = "finalSender" /\ pc'[r] = "finalReceiver"
        /\ after'[r].l2a = balances[at[r].l2a][Deployer]
    BY <1>1, <1>5 DEF FinalSender, At, Goto, TypeOK, Seen
  <2>2. SenderBefore(r)' /\ (kind[r] = "transferBridge" => ReceiverBefore(r)')
    BY <1>1, <1>3, <2>1 DEF SenderBefore, ReceiverBefore
  <2>3. before'[r].l2a - after'[r].l2a >= Amount
    BY <1>1, <1>3, <1>4, <2>1 DEF SenderBefore
  <2> QED BY <1>1, <1>3, <2>1, <2>2, <2>3 DEF Tracked, Reported
<1>6. CASE FinalReceiver(r) /\ ~(Exit(r) /\ UNCHANGED after)
  <2>1. /\ pc[r] = "finalReceiver" /\ pc'[r] = "end"
        /\ after'[r].l2b = balances[at[r].l2b][Receiver] /\ after'[r].l2a = after[r].l2a
    BY <1>1, <1>6 DEF FinalReceiver, At, Goto, TypeOK, Seen
  <2>2. kind[r] = "transferBridge" => after'[r].l2b - before'[r].l2b >= Amount
    BY <1>1, <1>3, <1>4, <2>1 DEF ReceiverBefore
  <2>3. Reported(r)'
    BY <1>1, <2>1, <2>2 DEF Reported
  <2>4. ~(SeesSource(r)' \/ SeesDestination(r)' \/ (pc[r] \in SenderRead)')
    BY <2>1 DEF SeesSource, SeesDestination, SenderRead, ReceiverRead, Complete
  <2> QED BY <2>1, <2>3, <2>4 DEF Tracked, SenderRead, ReceiverRead
<1> QED BY <1>2, <1>5, <1>6

(* The steps before the closing reads report nothing.                      *)
LEMMA ReportedBefore ==
    ASSUME CommonInv, NEW r \in Run, Step(r), Reported(r),
           ~FinalSender(r), ~FinalReceiver(r)
    PROVE  Reported(r)'
<1>1. /\ TypeOK /\ kind'[r] = kind[r] /\ status[r] = "running" /\ UNCHANGED after
      /\ Itinerary(r) /\ Itinerary(r)'
  BY StepKind, StepItinerary
     DEF CommonInv, Itineraries, Step, DeployVerifier, DeployL2A, DeployL2B, TruncateFile,
         WriteFile, ShowInitial, LoadAddresses, LoadProof, PreVerify, ReadSender,
         ReadReceiver, Transmit, Burn, Mint, SubmitProof, memory
<1>2. CASE Exit(r)
  <2>1. pc'[r] = pc[r] /\ pc[r] \notin {"end", "finalReceiver"}
    BY <1>1, <1>2 DEF Exit, Step, At, DeployVerifier, DeployL2A, DeployL2B, TruncateFile,
         WriteFile, ShowInitial, LoadAddresses, LoadProof, PreVerify, ReadSender,
         ReadReceiver, Transmit, Burn, Mint, SubmitProof
  <2> QED BY <1>1, <2>1 DEF Reported
<1> USE DEF TypeOK, At, Goto, Itinerary, Reported
<1>3. CASE DeployVerifier(r) \/ DeployL2A(r) \/ DeployL2B(r)
  BY <1>1, <1>3 DEF DeployVerifier, DeployL2A, DeployL2B
<1>4. CASE TruncateFile(r) \/ WriteFile(r) \/ ShowInitial(r) \/ PreVerify(r)
  BY <1>1, <1>2, <1>4 DEF TruncateFile, WriteFile, ShowInitial, PreVerify
<1>5. CASE LoadAddresses(r) \/ LoadProof(r) \/ SubmitProof(r)
  BY <1>1, <1>2, <1>5 DEF LoadAddresses, LoadProof, SubmitProof, Revert
<1>6. CASE ReadSender(r) \/ ReadReceiver(r)
  BY <1>1, <1>2, <1>6 DEF ReadSender, ReadReceiver
<1>7. CASE Transmit(r) \/ Burn(r) \/ Mint(r)
  BY <1>1, <1>2, <1>7, TransmitDelivers DEF Transmit, Burn, Mint, Revert
<1> QED BY <1>3, <1>4, <1>5, <1>6, <1>7 DEF Step

LEMMA TrackedByItself ==
    ASSUME CommonInv, NEW r \in Run, Step(r), Tracked(r), Reported(r)
    PROVE  Tracked(r)' /\ Reported(r)'
<1>1. CASE FinalSender(r) \/ FinalReceiver(r)
  BY <1>1, TrackedFinal
<1>2. CASE ~FinalSender(r) /\ ~FinalReceiver(r)
  <2>1. Reported(r)'
    BY <1>2, ReportedBefore
  <2>2. Tracked(r)'
    BY <1>2, TrackedWhenDeployed, TrackedBefore, TrackedReadSender, TrackedReadReceiver,
       TrackedTransfer DEF Step
  <2> QED BY <2>1, <2>2
<1> QED BY <1>1, <1>2

-----------------------------------------------------------------------------
(* The invariant on one node. *)

LEMMA InitCommon == Init => CommonInv /\ \A r \in Run : Tracked(r) /\ Reported(r)
<1> SUFFICES ASSUME Init PROVE CommonInv /\ \A r \in Run : Tracked(r) /\ Reported(r)
  OBVIOUS
<1>1. TypeOK
  BY InitTypes
<1>2. Unused
  BY DEF Init, FreshNode, Unused, DstChain!emptyBalances
<1>3. Itineraries /\ Known /\ Delivered /\ DoneAtEnd
  BY DEF Init, Itineraries, Itinerary, Known, HasBook, Complete, Delivered, DoneAtEnd
<1>4. \A r \in Run : Tracked(r) /\ Reported(r)
  BY DEF Init, Tracked, Reported
<1> QED BY <1>1, <1>2, <1>3, <1>4 DEF CommonInv

(* A process starts with nothing seen and nothing to report.               *)
LEMMA StartCommon ==
    ASSUME CommonInv, NEW r \in Run, NEW script \in Scripts, Start(r, script)
    PROVE  CommonInv' /\ Tracked(r)' /\ Reported(r)' /\ Others(r) /\ UNCHANGED node
<1>1. TypeOK /\ Unused /\ Itineraries /\ Known /\ Delivered /\ DoneAtEnd
  BY DEF CommonInv
<1>2. UNCHANGED <<nonce, code, verifierOf, balances, fileState, saved, at, payload, proof,
                  before, after>>
  BY DEF Start, node, file
<1>3. /\ kind'[r] = script /\ status'[r] = "running"
      /\ pc'[r] = IF script = "transferBridge" THEN "loadAddresses"
                  ELSE IF script = "verifyProof" THEN "loadProof" ELSE "deployVerifier"
  BY <1>1 DEF Start, TypeOK
<1>4. Others(r)
  BY <1>1, <1>2 DEF Start, TypeOK, Others
<1>5. script \in AllScripts
  OBVIOUS
<1>6. Itinerary(r)' /\ HasBook(r)'
  BY <1>3, <1>5 DEF Itinerary, HasBook, Complete, AllScripts
<1>7. Itineraries' /\ Known'
  BY <1>1, <1>2, <1>4, <1>6 DEF Itineraries, Itinerary, Known, HasBook, Others
<1>8. Unused' /\ Delivered' /\ DoneAtEnd'
  BY <1>1, <1>2, <1>3, <1>4 DEF Unused, Delivered, DoneAtEnd, Others
<1>9. Tracked(r)' /\ Reported(r)'
  BY <1>3 DEF Tracked, Reported, SeesSource, SeesDestination, SenderRead, ReceiverRead,
              Complete
<1> QED BY <1>1, <1>2, <1>4, <1>7, <1>8, <1>9, StartTypes DEF CommonInv, node

(* What a step keeps that touches no process but for the status of some.   *)
LEMMA StillCommon ==
    ASSUME CommonInv, TypeOK', UNCHANGED <<file, memory, pc>>, Unused',
           \A s \in Run : status'[s] = "done" => status[s] = "done"
    PROVE  CommonInv'
BY DEF CommonInv, Itineraries, Itinerary, Known, HasBook, Delivered, DoneAtEnd, file, memory

LEMMA KillCommon ==
    ASSUME CommonInv, NEW r \in Run, Kill(r)
    PROVE  CommonInv' /\ \A s \in Run : status'[s] \in {status[s], "killed"}
<1>1. TypeOK' /\ \A s \in Run : status'[s] \in {status[s], "killed"}
  BY KillTypes DEF CommonInv, Kill, TypeOK
<1>2. Unused'
  BY DEF CommonInv, Unused, Kill, node
<1> QED BY <1>1, <1>2, StillCommon DEF Kill

(* A process keeps its account when nothing of its own and nothing of the  *)
(* node changes.                                                           *)
LEMMA TrackedStill ==
    ASSUME NEW s \in Run, Tracked(s), Reported(s), UNCHANGED node,
           pc'[s] = pc[s], kind'[s] = kind[s], status'[s] = status[s] \/ status'[s] # "running",
           at'[s] = at[s], before'[s] = before[s], after'[s] = after[s]
    PROVE  Tracked(s)' /\ Reported(s)'
BY DEF Tracked, Reported, SeesSource, SeesDestination, SenderBefore, ReceiverBefore, node

(* Any step of Bridge keeps what all processes have, and the account of    *)
(* each process that has one: BridgeRestart needs the two apart.           *)
LEMMA NextTracked ==
    ASSUME CommonInv, [Next]_vars
    PROVE  CommonInv' /\ \A s \in Run : Tracked(s) /\ Reported(s) => Tracked(s)' /\ Reported(s)'
<1>1. ASSUME NEW r \in Run, Step(r)
      PROVE  CommonInv' /\ \A s \in Run : Tracked(s) /\ Reported(s) => Tracked(s)' /\ Reported(s)'
  BY <1>1, StepCommon, TrackedByItself, TrackedByOthers
<1>2. ASSUME NEW r \in Run, NEW script \in Scripts, Start(r, script)
      PROVE  CommonInv' /\ \A s \in Run : Tracked(s) /\ Reported(s) => Tracked(s)' /\ Reported(s)'
  <2>1. CommonInv' /\ Tracked(r)' /\ Reported(r)' /\ Others(r) /\ UNCHANGED node
    BY <1>2, StartCommon
  <2> QED BY <2>1, TrackedStill DEF Others
<1>3. ASSUME NEW r \in Run, Kill(r)
      PROVE  CommonInv' /\ \A s \in Run : Tracked(s) /\ Reported(s) => Tracked(s)' /\ Reported(s)'
  <2>1. CommonInv' /\ \A s \in Run : status'[s] \in {status[s], "killed"}
    BY <1>3, KillCommon
  <2>2. UNCHANGED <<node, pc, kind, at, before, after>>
    BY <1>3 DEF Kill, memory
  <2> QED BY <2>1, <2>2, TrackedStill
<1>4. ASSUME UNCHANGED vars
      PROVE  CommonInv' /\ \A s \in Run : Tracked(s) /\ Reported(s) => Tracked(s)' /\ Reported(s)'
  <2>1. UNCHANGED <<node, file, memory, pc, status>>
    BY <1>4 DEF vars
  <2>2. TypeOK' /\ Unused'
    BY <2>1 DEF CommonInv, TypeOK, Unused, node, file, memory
  <2>3. CommonInv'
    BY <2>1, <2>2, StillCommon
  <2> QED BY <2>1, <2>3, TrackedStill DEF memory
<1> QED BY <1>1, <1>2, <1>3, <1>4 DEF Next

(* On a node that lives, every process keeps a true account.               *)
THEOREM ReportInvariance == Spec => []ReportInv
<1>1. Init => ReportInv
  BY InitCommon DEF ReportInv
<1>2. ReportInv /\ [Next]_vars => ReportInv'
  BY NextTracked DEF ReportInv
<1> QED BY <1>1, <1>2, PTL DEF Spec

(* The differences that transferBridge.js prints account for at least its  *)
(* own transfer on both chains, whatever other processes did in between.   *)
THEOREM ReportCoversTransferHolds == Spec => []ReportCoversTransfer
<1>1. ReportInv => ReportCoversTransfer
  BY DEF ReportInv, CommonInv, DoneAtEnd, Reported, ReportCoversTransfer, Transfers
<1> QED BY <1>1, ReportInvariance, PTL

-----------------------------------------------------------------------------
(* The invariant across restarts. *)

(* The new node has no contract and no token.                              *)
LEMMA RestartCommon ==
    ASSUME CommonInv, Restart
    PROVE  CommonInv'
<1>1. TypeOK'
  <2>1. nonce' \in 0 .. MaxNonce /\ code' \in [Addr -> {"none", "verifier", "l2a", "l2b"}]
        /\ verifierOf' \in [Addr -> Addr \cup {NoAddr}]
        /\ balances' \in [Addr -> [Account -> 0 .. MaxUint]]
    BY DEF Restart, emptyNode, DstChain!emptyBalances
  <2> QED BY <2>1 DEF CommonInv, TypeOK, Restart, file, memory
<1>2. Unused'
  BY DEF Restart, emptyNode, Unused, DstChain!emptyBalances
<1> QED BY <1>1, <1>2, StillCommon DEF Restart

LEMMA RestartNextInv ==
    ASSUME RestartInv, [RestartNext]_restartVars
    PROVE  RestartInv'
<1>1. CASE Restart
  <2>1. CommonInv'
    BY <1>1, RestartCommon DEF RestartInv
  <2>2. ASSUME NEW s \in Run \ crossed' PROVE Tracked(s)' /\ Reported(s)'
    <3>1. s \in Run \ crossed /\ status[s] # "running"
      BY <1>1, <2>2 DEF Restart
    <3> QED BY <1>1, <3>1 DEF RestartInv, Restart, Tracked, Reported, memory
  <2>3. restarts' \in Nat /\ restarts' # 0
    BY <1>1 DEF RestartInv, Restart
  <2> QED BY <2>1, <2>2, <2>3 DEF RestartInv
<1>2. CASE [Next]_vars /\ UNCHANGED <<restarts, crossed>>
  <2>1. CommonInv' /\ \A s \in Run : Tracked(s) /\ Reported(s) => Tracked(s)' /\ Reported(s)'
    BY <1>2, NextTracked DEF RestartInv
  <2>2. restarts = 0 => IInv' /\ ProvedInv'
    BY <1>2, NextInv, NextProved DEF RestartInv, CommonInv
  <2> QED BY <1>2, <2>1, <2>2 DEF RestartInv
<1> QED BY <1>1, <1>2 DEF RestartNext, restartVars

(* However often the node restarts, a process that saw no restart keeps a  *)
(* true account; before the first, the invariant of the proofs above holds.*)
THEOREM RestartInvariance == RestartSpec => []RestartInv
<1>1. RestartInit => RestartInv
  <2>1. Init => ProvedInv
    BY DEF Init, ProvedInv, BurnWasProved, Transfers
  <2> QED BY <2>1, InitInv, InitCommon DEF RestartInit, RestartInv
<1>2. RestartInv /\ [RestartNext]_restartVars => RestartInv'
  BY RestartNextInv
<1> QED BY <1>1, <1>2, PTL DEF RestartSpec

(* Its report accounts for its own transfer.                               *)
THEOREM UncrossedReportCoversHolds == RestartSpec => []UncrossedReportCovers
<1>1. RestartInv => UncrossedReportCovers
  BY DEF RestartInv, CommonInv, DoneAtEnd, Reported, UncrossedReportCovers, Transfers
<1> QED BY <1>1, RestartInvariance, PTL

(* Only its own step gets a process past its burn or its mint.             *)
LEMMA OwnTransaction ==
    ASSUME CommonInv, [RestartNext]_restartVars, NEW r \in Run,
           pc[r] \in {"burn", "mint"}, pc'[r] # pc[r]
    PROVE  IF pc[r] = "burn" THEN Burn(r) ELSE Mint(r)
<1>1. Next
  BY DEF RestartNext, restartVars, vars, Restart
<1>2. PICK s \in Run : (\E script \in Scripts : Start(s, script)) \/ Step(s) \/ Kill(s)
  BY <1>1 DEF Next
<1>3. TypeOK
  BY DEF CommonInv
<1>4. Step(s)
  BY <1>2, <1>3 DEF Start, Kill, TypeOK
<1>5. s = r
  BY <1>3, <1>4, StepOthers DEF Others
<1> QED BY <1>4, <1>5
     DEF Step, At, DeployVerifier, DeployL2A, DeployL2B, TruncateFile, WriteFile,
         ShowInitial, LoadAddresses, LoadProof, PreVerify, ReadSender, ReadReceiver,
         Transmit, Burn, Mint, FinalSender, FinalReceiver, SubmitProof

LEMMA UncrossedIsReal ==
    ASSUME RestartInv, [RestartNext]_restartVars, NEW r \in Run \ crossed
    PROVE  /\ At(r, "burn") /\ pc'[r] = "mint" => burned(r)
           /\ At(r, "mint") /\ pc'[r] = "finalSender" => minted(r)
<1>1. CommonInv /\ Tracked(r)
  BY DEF RestartInv
<1>2. ASSUME At(r, "burn"), pc'[r] = "mint" PROVE burned(r)
  <2>1. Burn(r) /\ code[at[r].l2a] # "none"
    BY <1>1, <1>2, OwnTransaction DEF At, Tracked, SeesSource, SenderRead
  <2> QED BY <1>1, <1>2, <2>1, BurnIsReal
<1>3. ASSUME At(r, "mint"), pc'[r] = "finalSender" PROVE minted(r)
  <2>1. Mint(r) /\ code[at[r].l2b] # "none"
    BY <1>1, <1>3, OwnTransaction DEF At, Tracked, SeesDestination, ReceiverRead, SenderRead
  <2> QED BY <1>1, <1>3, <2>1, MintIsReal
<1> QED BY <1>2, <1>3

(* Its two transactions move real tokens: neither goes to an address that  *)
(* the restart left empty (an action property).                            *)
THEOREM UncrossedTransferIsRealHolds == RestartSpec => UncrossedTransferIsReal
<1>1. RestartInv /\ [RestartNext]_restartVars =>
        [\A r \in Run \ crossed :
           /\ At(r, "burn") /\ pc'[r] = "mint" => burned(r)
           /\ At(r, "mint") /\ pc'[r] = "finalSender" => minted(r)]_restartVars
  BY UncrossedIsReal
<1> QED BY <1>1, RestartInvariance, PTL DEF RestartSpec, UncrossedTransferIsReal

-----------------------------------------------------------------------------
(* Open pairs: an L2A has one L2B. *)

LEMMA OpenBook ==
    ASSUME IInv, NEW b \in OpenBooks
    PROVE  /\ b \in Books /\ Wired(b)
           /\ b.l2a \in OpenPairs
           /\ l2bOf(b.l2a) = b.l2b
<1>1. b \in Books /\ OpenBooks \subseteq Books
  BY DEF OpenBooks, Books
<1>2. Wired(b) /\ \A c \in OpenBooks : b.l2a = c.l2a => b.l2b = c.l2b
  BY <1>1 DEF IInv, Wiring
<1>3. l2bOf(b.l2a) = b.l2b
  <2> DEFINE c == CHOOSE d \in OpenBooks : d.l2a = b.l2a
  <2>1. c \in OpenBooks /\ c.l2a = b.l2a
    OBVIOUS
  <2> QED BY <1>2, <2>1 DEF l2bOf
<1> QED BY <1>1, <1>2, <1>3 DEF OpenPairs

(* The process that a burning or minting process took its book from.       *)
LEMMA BookOpen ==
    ASSUME IInv, BooksDeployed, NEW r \in Run, pc[r] \in Complete
    PROVE  at[r] \in OpenBooks /\ Wired(at[r])
BY BookInUse DEF IInv, BooksDeployed

(* A process that deploys keeps its book once it is complete.              *)
LEMMA OpenBooksKept ==
    ASSUME IInv, Itineraries, BooksDeployed, NEW r \in Run, Step(r), ~DeployL2B(r)
    PROVE  OpenBooks' = OpenBooks /\ BooksDeployed'
<1>1. TypeOK /\ Stages /\ kind' = kind
  BY StepKind DEF IInv
<1>2. OpenBooks' = OpenBooks
  <2>1. CASE UNCHANGED at
    BY <1>1, <2>1 DEF OpenBooks
  <2>2. CASE DeployVerifier(r) \/ DeployL2A(r)
    <3>1. at[r].l2b = NoAddr
      BY <1>1, <2>2 DEF DeployVerifier, DeployL2A, At, Stages, Stage, HasVerifier
    <3>2. at'[r].l2b = NoAddr /\ \A s \in Run \ {r} : at'[s] = at[s]
      BY <1>1, <2>2, <3>1 DEF TypeOK, Book, DeployVerifier, DeployL2A
    <3> QED BY <1>1, <3>1, <3>2 DEF OpenBooks
  <2>3. CASE LoadAddresses(r)
    <3>1. kind[r] = "transferBridge"
      BY <2>3 DEF LoadAddresses, At, Itineraries, Itinerary
    <3>2. \A s \in Run \ {r} : at'[s] = at[s]
      BY <1>1, <2>3 DEF TypeOK, LoadAddresses
    <3> QED BY <1>1, <3>1, <3>2 DEF OpenBooks
  <2> QED BY <2>1, <2>2, <2>3 DEF Step, TruncateFile, WriteFile, ShowInitial, PreVerify,
             LoadProof, ReadSender, ReadReceiver, FinalSender, FinalReceiver, Transmit,
             Burn, Mint, SubmitProof, memory
<1>3. OpenBooks' \subseteq Books' /\ Books' \subseteq Books
  BY <1>1, StepBooks DEF OpenBooks, Books
<1> QED BY <1>2, <1>3 DEF BooksDeployed

LEMMA OpenBooksGrow ==
    ASSUME IInv, Itineraries, BooksDeployed, NEW r \in Run, DeployL2B(r)
    PROVE  OpenBooks' = OpenBooks \cup {at'[r]} /\ BooksDeployed'
<1>1. TypeOK /\ Stages /\ kind' = kind
  BY DEF IInv, DeployL2B
<1>2. /\ at[r].l2b = NoAddr /\ at'[r].l2b = nonce /\ nonce \in Addr
      /\ kind[r] \in {"deployContracts", "demoBridge"}
  <2>1. pc[r] = "deployL2B"
    BY DEF DeployL2B, At
  <2>2. nonce \in Addr
    BY <1>1, CreateTypes DEF DeployL2B
  <2> QED BY <1>1, <2>1, <2>2, DeployL2BBooks DEF Stages, Stage, HasVerifier, Itineraries, Itinerary
<1>3. \A s \in Run \ {r} : at'[s] = at[s]
  BY <1>1 DEF TypeOK, DeployL2B
<1>4. OpenBooks' = OpenBooks \cup {at'[r]}
  BY <1>1, <1>2, <1>3 DEF OpenBooks
<1>5. Books' \subseteq Books \cup {at'[r]} /\ OpenBooks' \subseteq Books'
  BY <1>1, DeployL2BBooks DEF OpenBooks, Books
<1> QED BY <1>4, <1>5 DEF BooksDeployed

-----------------------------------------------------------------------------
(* Steps that leave the abstract bridge alone. *)

(* The ledgers of the open pairs are those of contracts, and only a burn   *)
(* or a mint moves tokens on a contract.                                   *)
LEMMA LedgersStay ==
    ASSUME IInv, OpenBooks' = OpenBooks,
           \A a \in Addr : code[a] # "none" => balances'[a] = balances[a]
    PROVE  UNCHANGED <<sourceSide, destinationSide>>
<1>1. OpenPairs' = OpenPairs
  BY DEF OpenPairs
<1>2. ASSUME NEW p \in OpenPairs
      PROVE  /\ balances'[p] = balances[p] /\ l2bOf(p)' = l2bOf(p)
             /\ balances'[l2bOf(p)] = balances[l2bOf(p)]
  <2>1. PICK b \in OpenBooks : b.l2a = p
    BY <1>2 DEF OpenPairs
  <2>2. Wired(b) /\ l2bOf(p) = b.l2b
    BY <2>1, OpenBook
  <2>3. l2bOf(p)' = l2bOf(p)
    BY DEF l2bOf
  <2> QED BY <2>1, <2>2, <2>3 DEF Wired
<1> QED BY <1>1, <1>2 DEF sourceSide, destinationSide

(* A process that neither burns nor mints stays where it was.              *)
LEMMA PhasesStay ==
    ASSUME TypeOK, NEW r \in Run, Others(r),
           PhaseOf(r)' = PhaseOf(r), PhaseOf(r) # "waiting" => at'[r] = at[r]
    PROVE  UNCHANGED <<phases, routes>>
<1>1. \A s \in Run : PhaseOf(s)' = PhaseOf(s) /\ (PhaseOf(s) # "waiting" => at'[s] = at[s])
  BY DEF Others, PhaseOf, Transfers
<1> QED BY <1>1 DEF phases, routes

LEMMA QuietStep ==
    ASSUME RefinementInv, NEW r \in Run, Step(r), ~DeployL2B(r), ~Burn(r), ~Mint(r)
    PROVE  UNCHANGED <<sourceSide, destinationSide, phases, routes>>
<1>1. TypeOK /\ Unused /\ Itinerary(r) /\ kind' = kind /\ Others(r)
  BY StepKind, StepOthers DEF RefinementInv, IInv, Itineraries
<1>2. \A a \in Addr : code[a] # "none" => balances'[a] = balances[a]
  BY <1>1, StepBalances DEF DeployL2A, Create, Unused, TypeOK, Addr
<1>3. UNCHANGED <<sourceSide, destinationSide>>
  BY <1>2, OpenBooksKept, LedgersStay DEF RefinementInv
<1>4. PhaseOf(r)' = PhaseOf(r) /\ (PhaseOf(r) # "waiting" => at'[r] = at[r])
  <2> USE DEF TypeOK, At, Goto, Exit, Itinerary, PhaseOf, Transfers
  <2>1. CASE DeployVerifier(r) \/ DeployL2A(r)
    BY <1>1, <2>1 DEF DeployVerifier, DeployL2A
  <2>2. CASE TruncateFile(r) \/ WriteFile(r) \/ ShowInitial(r) \/ PreVerify(r)
    BY <1>1, <2>2 DEF TruncateFile, WriteFile, ShowInitial, PreVerify
  <2>3. CASE LoadAddresses(r) \/ LoadProof(r) \/ SubmitProof(r)
    BY <1>1, <2>3 DEF LoadAddresses, LoadProof, SubmitProof, Revert
  <2>4. CASE ReadSender(r) \/ ReadReceiver(r)
    BY <1>1, <2>4 DEF ReadSender, ReadReceiver
  <2>5. CASE FinalSender(r) \/ FinalReceiver(r)
    BY <1>1, <2>5 DEF FinalSender, FinalReceiver
  <2>6. CASE Transmit(r)
    BY <1>1, <2>6, TransmitDelivers DEF Transmit
  <2> QED BY <2>1, <2>2, <2>3, <2>4, <2>5, <2>6 DEF Step
<1> QED BY <1>1, <1>3, <1>4, PhasesStay

-----------------------------------------------------------------------------
(* The three steps that the abstract bridge sees. *)

(* Deploying the L2B opens the pair of an L2A that still has its supply.   *)
LEMMA DeployOpens ==
    ASSUME RefinementInv, NEW r \in Run, DeployL2B(r)
    PROVE  Abstract!OpenPair(at[r].l2a)
<1> DEFINE p == at[r].l2a
<1>1. /\ TypeOK /\ Unused /\ Private /\ Wiring /\ Others(r) /\ UNCHANGED balances
      /\ pc[r] = "deployL2B" /\ Stage(r)
  BY StepOthers DEF RefinementInv, IInv, Stages, Step, DeployL2B, At
<1>2. OpenBooks \subseteq Books /\ OpenBooks' = OpenBooks \cup {at'[r]}
  BY OpenBooksGrow DEF RefinementInv, OpenBooks, Books
<1>3. p \in Addr /\ nonce \in Addr /\ at'[r].l2a = p /\ at'[r].l2b = nonce
  BY <1>1, CreateTypes, DeployL2BBooks DEF DeployL2B, Stage, HasL2A
<1>4. p \notin OpenPairs /\ OpenPairs' = OpenPairs \cup {p}
  BY <1>1, <1>2, <1>3 DEF Private, OpenPairs
<1>5. balances[p][Deployer] = InitialBalance /\ balances[nonce][Receiver] = 0
  BY <1>1, <1>3 DEF Private, Unused, Addr, Account
<1>6. l2bOf(p)' = nonce
  <2>1. \A c \in OpenBooks' : c.l2a = p <=> c = at'[r]
    BY <1>2, <1>3, <1>4 DEF OpenPairs
  <2>2. (CHOOSE c \in OpenBooks' : c.l2a = p) = at'[r]
    BY <1>2, <2>1
  <2> QED BY <1>3, <2>2 DEF l2bOf
<1>7. ASSUME NEW q \in OpenPairs PROVE l2bOf(q)' = l2bOf(q)
  <2>1. q # p /\ \A c : c \in OpenBooks' /\ c.l2a = q <=> c \in OpenBooks /\ c.l2a = q
    BY <1>2, <1>3, <1>4, <1>7
  <2> QED BY <2>1 DEF l2bOf
<1>8. sourceSide' = [q \in OpenPairs \cup {p} |->
                       IF q = p THEN InitialBalance ELSE sourceSide[q]]
  BY <1>1, <1>4, <1>5 DEF sourceSide
<1>9. destinationSide' = [q \in OpenPairs \cup {p} |->
                            IF q = p THEN 0 ELSE destinationSide[q]]
  <2>1. balances'[l2bOf(p)'][Receiver] = 0
    BY <1>1, <1>5, <1>6
  <2>2. \A q \in OpenPairs : q # p /\ balances'[l2bOf(q)'][Receiver] = destinationSide[q]
    BY <1>1, <1>4, <1>7 DEF destinationSide
  <2> QED BY <1>3, <1>4, <2>1, <2>2 DEF destinationSide
<1>10. UNCHANGED <<phases, routes>>
  <2>1. PhaseOf(r) = "waiting" /\ PhaseOf(r)' = "waiting"
    BY <1>1 DEF PhaseOf, DeployL2B, Goto, TypeOK
  <2> QED BY <1>1, <2>1, PhasesStay
<1> QED BY <1>4, <1>8, <1>9, <1>10 DEF Abstract!OpenPair, Abstract!Open, sourceSide

(* A burn that is mined is the burn of its transfer on its pair; one that  *)
(* reverts is nothing.                                                     *)
LEMMA BurnBurns ==
    ASSUME RefinementInv, NEW r \in Run, Burn(r)
    PROVE  \/ Abstract!BurnOn(r, at[r].l2a)
           \/ UNCHANGED <<sourceSide, destinationSide, phases, routes>>
<1> DEFINE p == at[r].l2a
<1>1. /\ TypeOK /\ Others(r) /\ UNCHANGED <<at, kind>> /\ pc[r] = "burn"
      /\ status[r] = "running" /\ OpenBooks' = OpenBooks
      /\ payload[r].amount = Amount
  BY StepOthers, OpenBooksKept
     DEF RefinementInv, IInv, Delivered, Step, Burn, At, memory, DeployL2B
<1>2. at[r] \in OpenBooks /\ Wired(at[r]) /\ p \in OpenPairs
  BY <1>1, BookOpen DEF RefinementInv, Complete, OpenPairs
<1>3. CASE Revert(r)
  <2>1. UNCHANGED <<sourceSide, destinationSide>>
    BY <1>1, <1>3, LedgersStay DEF RefinementInv, Revert
  <2>2. PhaseOf(r)' = PhaseOf(r)
    BY <1>1, <1>3 DEF Revert, Exit, PhaseOf, Transfers
  <2> QED BY <1>1, <2>1, <2>2, PhasesStay
<1>4. CASE ~Revert(r)
  <2>1. /\ burnOK(r) /\ Goto(r, "mint")
        /\ balances' = [balances EXCEPT ![p] = SrcChain!bridgeTransfer(@, Deployer, Amount)]
    BY <1>1, <1>2, <1>4 DEF Burn, Wired
  <2>2. balances[p][Deployer] >= Amount
    BY <1>1, <2>1 DEF burnOK, SrcChain!bridgeTransferOK
  <2>3. /\ p \in Addr /\ balances[p] \in [Account -> 0 .. MaxUint]
        /\ balances'[p] = [balances[p] EXCEPT ![Deployer] = @ - Amount]
        /\ \A q \in Addr \ {p} : balances'[q] = balances[q]
    BY <1>1, <1>2, <2>1 DEF TypeOK, Wired, SrcChain!bridgeTransfer
  <2>4. \A q \in Addr : balances'[q][Deployer] = IF q = p THEN balances[p][Deployer] - Amount
                                                        ELSE balances[q][Deployer]
    BY <1>1, <2>3 DEF TypeOK, Account
  <2>5. \A q \in Addr : balances'[q][Receiver] = balances[q][Receiver]
    BY <1>1, <2>3 DEF TypeOK, Account
  <2>6. OpenPairs' = OpenPairs /\ (\A q \in OpenPairs : l2bOf(q)' = l2bOf(q))
        /\ \A q \in OpenPairs : q \in Addr /\ l2bOf(q) \in Addr
    <3>1. \A b \in OpenBooks : b.l2a \in Addr /\ l2bOf(b.l2a) \in Addr
      BY OpenBook DEF RefinementInv, Wired
    <3> QED BY <1>1, <3>1 DEF OpenPairs, l2bOf
  <2>7. sourceSide' = [sourceSide EXCEPT ![p] = @ - Amount]
    BY <1>2, <2>4, <2>6 DEF sourceSide
  <2>8. UNCHANGED destinationSide
    BY <2>5, <2>6 DEF destinationSide
  <2>9. PhaseOf(r) = "waiting" /\ PhaseOf(r)' = "burned"
    BY <1>1, <2>1 DEF PhaseOf, Goto, TypeOK
  <2>10. \A s \in Run \ {r} : PhaseOf(s)' = PhaseOf(s)
    BY <1>1 DEF Others, PhaseOf, Transfers
  <2>11. phases' = [phases EXCEPT ![r] = "burned"] /\ phases[r] = "waiting"
    BY <2>9, <2>10 DEF phases
  <2>12. routes' = [routes EXCEPT ![r] = p]
    BY <1>1, <2>9, <2>10 DEF routes
  <2>13. p \in DOMAIN sourceSide /\ sourceSide[p] >= Amount
    BY <1>2, <2>2 DEF sourceSide
  <2> QED BY <2>7, <2>8, <2>11, <2>12, <2>13 DEF Abstract!BurnOn, Abstract!Open
<1> QED BY <1>3, <1>4

(* A mint is mined, and gives the receiver of the same pair the amount.    *)
LEMMA MintMints ==
    ASSUME RefinementInv, NEW r \in Run, Mint(r)
    PROVE  Abstract!MintFor(r)
<1> DEFINE p == at[r].l2a
           d == at[r].l2b
<1>1. /\ TypeOK /\ Others(r) /\ UNCHANGED <<at, kind>> /\ pc[r] = "mint" /\ Itinerary(r)
      /\ status[r] = "running" /\ OpenBooks' = OpenBooks
      /\ payload[r].amount = Amount /\ payload[r].to = Receiver
  BY StepOthers, OpenBooksKept
     DEF RefinementInv, IInv, Delivered, Itineraries, Step, Mint, At, memory, DeployL2B
<1>2. at[r] \in OpenBooks /\ Wired(at[r]) /\ p \in OpenPairs /\ l2bOf(p) = d
  BY <1>1, BookOpen, OpenBook DEF RefinementInv, Complete
<1>3. /\ Goto(r, "finalSender")
      /\ balances' = [balances EXCEPT ![d] = DstChain!receiveFromBridge(@, Receiver, Amount)]
  <2>1. mintOK(r)
    BY <1>1, MintFits DEF RefinementInv
  <2> QED BY <1>1, <1>2, <2>1 DEF Mint, Wired
<1>4. /\ d \in Addr /\ balances[d] \in [Account -> 0 .. MaxUint]
      /\ balances'[d] = [balances[d] EXCEPT ![Receiver] = @ + Amount]
      /\ \A q \in Addr \ {d} : balances'[q] = balances[q]
  BY <1>1, <1>2, <1>3 DEF TypeOK, Wired, DstChain!receiveFromBridge
<1>5. \A q \in Addr : balances'[q][Deployer] = balances[q][Deployer]
  BY <1>1, <1>4 DEF TypeOK, Account
<1>6. \A q \in Addr : balances'[q][Receiver] = IF q = d THEN balances[d][Receiver] + Amount
                                                      ELSE balances[q][Receiver]
  BY <1>1, <1>4 DEF TypeOK, Account
<1>7. /\ OpenPairs' = OpenPairs /\ \A q \in OpenPairs : l2bOf(q)' = l2bOf(q)
      /\ \A q \in OpenPairs : q \in Addr /\ l2bOf(q) \in Addr /\ (l2bOf(q) = d => q = p)
  <2>1. ASSUME NEW b \in OpenBooks
        PROVE  b.l2a \in Addr /\ l2bOf(b.l2a) \in Addr /\ (l2bOf(b.l2a) = d => b.l2a = p)
    <3>1. Wired(b) /\ l2bOf(b.l2a) = b.l2b /\ b \in Books /\ at[r] \in Books
      BY <1>2, <2>1, OpenBook DEF RefinementInv
    <3> QED BY <3>1 DEF RefinementInv, IInv, Wiring, Wired
  <2> QED BY <1>1, <2>1 DEF OpenPairs, l2bOf
<1>8. UNCHANGED sourceSide
  BY <1>5, <1>7 DEF sourceSide
<1>9. PhaseOf(r) = "burned" /\ PhaseOf(r)' = "minted"
  BY <1>1, <1>3 DEF PhaseOf, Goto, TypeOK, Itinerary, Transfers
<1>10. \A s \in Run \ {r} : PhaseOf(s)' = PhaseOf(s)
  BY <1>1 DEF Others, PhaseOf, Transfers
<1>11. phases' = [phases EXCEPT ![r] = "minted"] /\ phases[r] = "burned"
  BY <1>9, <1>10 DEF phases
<1>12. UNCHANGED routes /\ routes[r] = p
  BY <1>1, <1>9, <1>10 DEF routes
<1>13. destinationSide' = [destinationSide EXCEPT ![p] = @ + Amount]
  BY <1>2, <1>6, <1>7 DEF destinationSide
<1> QED BY <1>8, <1>11, <1>12, <1>13 DEF Abstract!MintFor

-----------------------------------------------------------------------------
(* The invariant and the refinement. *)

LEMMA NextRefinementInv == RefinementInv /\ [Next]_vars => RefinementInv'
<1> SUFFICES ASSUME RefinementInv, [Next]_vars PROVE RefinementInv'
  OBVIOUS
<1>1. IInv'
  BY NextInv DEF RefinementInv
<1>2. ASSUME NEW r \in Run, Step(r) PROVE Itineraries' /\ BooksDeployed'
  BY <1>2, StepItineraries, OpenBooksKept, OpenBooksGrow DEF RefinementInv, IInv
<1>3. ASSUME NEW r \in Run, NEW script \in Scripts, Start(r, script)
      PROVE  Itineraries' /\ BooksDeployed'
  <2>1. Itineraries'
    BY <1>3, StartItineraries DEF RefinementInv, IInv
  <2>2. UNCHANGED <<at, fileState, saved>> /\ at[r].l2b = NoAddr
    BY <1>3 DEF Start, file, RefinementInv, IInv, Stages, Stage
  <2>3. \A s \in Run \ {r} : kind'[s] = kind[s]
    BY <1>3 DEF Start, RefinementInv, IInv, TypeOK
  <2>4. OpenBooks' = OpenBooks /\ Books' = Books
    BY <2>2, <2>3 DEF OpenBooks, Books
  <2> QED BY <2>1, <2>4 DEF RefinementInv, BooksDeployed
<1>4. ASSUME UNCHANGED <<pc, kind, at, fileState, saved>>
      PROVE  Itineraries' /\ BooksDeployed'
  BY <1>4 DEF RefinementInv, Itineraries, Itinerary, BooksDeployed, OpenBooks, Books
<1> QED BY <1>1, <1>2, <1>3, <1>4
     DEF Next, Kill, vars, memory, file, RefinementInv

LEMMA InitRefines == Init => RefinementInv /\ Abstract!Init
<1> SUFFICES ASSUME Init PROVE RefinementInv /\ Abstract!Init
  OBVIOUS
<1>1. Books = {} /\ OpenBooks = {} /\ OpenPairs = {}
  BY DEF Init, Books, OpenBooks, OpenPairs, NoBook
<1>2. RefinementInv
  BY <1>1, InitInv DEF RefinementInv, BooksDeployed, Init, Itineraries, Itinerary
<1>3. \A r \in Run : PhaseOf(r) = "waiting"
  BY DEF Init, PhaseOf, Transfers
<1> QED BY <1>1, <1>2, <1>3 DEF Abstract!Init, sourceSide, destinationSide, phases, routes

LEMMA NextRefines ==
    ASSUME RefinementInv, [Next]_vars
    PROVE  [Abstract!Next]_(Abstract!vars)
<1>1. ASSUME NEW r \in Run, Step(r) PROVE [Abstract!Next]_(Abstract!vars)
  <2>1. CASE DeployL2B(r)
    <3>1. at[r].l2a \in Addr
      BY <2>1 DEF RefinementInv, IInv, Stages, Stage, HasL2A, DeployL2B, At
    <3> QED BY <2>1, <3>1, DeployOpens DEF Abstract!Next
  <2>2. CASE Burn(r)
    <3>1. at[r].l2a \in Addr
      BY <2>2, BookOpen DEF RefinementInv, Burn, At, Complete, Wired
    <3> QED BY <2>2, <3>1, BurnBurns DEF Abstract!Next, Abstract!vars
  <2>3. CASE Mint(r)
    BY <2>3, MintMints DEF Abstract!Next
  <2> QED BY <1>1, <2>1, <2>2, <2>3, QuietStep DEF Abstract!vars
<1>2. ASSUME NEW r \in Run, NEW script \in Scripts, Start(r, script)
      PROVE  UNCHANGED <<sourceSide, destinationSide, phases, routes>>
  <2>1. /\ UNCHANGED <<at, balances>> /\ Others(r) /\ at[r].l2b = NoAddr /\ TypeOK
        /\ pc[r] = "idle" /\ pc'[r] \in {"deployVerifier", "loadAddresses", "loadProof"}
    BY <1>2 DEF Start, node, Others, RefinementInv, IInv, TypeOK, Stages, Stage
  <2>2. OpenBooks' = OpenBooks
    BY <2>1 DEF OpenBooks, Others
  <2>3. PhaseOf(r) = "waiting" /\ PhaseOf(r)' = "waiting"
    BY <2>1 DEF PhaseOf
  <2> QED BY <2>1, <2>2, <2>3, LedgersStay, PhasesStay DEF RefinementInv
<1>3. ASSUME UNCHANGED <<pc, kind, at, balances>>
      PROVE  UNCHANGED <<sourceSide, destinationSide, phases, routes>>
  BY <1>3 DEF sourceSide, destinationSide, phases, routes, OpenPairs, OpenBooks, l2bOf,
              PhaseOf, Transfers
<1> QED BY <1>1, <1>2, <1>3 DEF Next, Kill, vars, node, memory, Abstract!vars

(* The invariant of the refinement: IInv, the itineraries of the scripts,  *)
(* and that every book in use is one that a deployment put together.       *)
THEOREM RefinementInvariance == Spec => []RefinementInv
BY InitRefines, NextRefinementInv, PTL DEF Spec

(* The scripts and contracts implement the abstract bridge: one burn and   *)
(* one mint per transfer, in this order, of one amount and on one pair.    *)
THEOREM Refinement == Spec => RefinesTokenBridge
<1>1. Init => RefinementInv /\ Abstract!Init
  BY InitRefines
<1>2. RefinementInv /\ [Next]_vars => RefinementInv'
  BY NextRefinementInv
<1>3. RefinementInv /\ [Next]_vars => [Abstract!Next]_(Abstract!vars)
  BY NextRefines
<1> QED BY <1>1, <1>2, <1>3, PTL DEF Spec, RefinesTokenBridge, Abstract!Spec

=============================================================================
