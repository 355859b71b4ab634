---------------------------- MODULE ProofPipeline ----------------------------
(***************************************************************************)
(* zkp-circuits/run_project.sh: commands that make a witness, keys and a   *)
(* proof, send the proof through the transport and verify what arrives.    *)
(* They talk through files in one directory, which outlive a run of the    *)
(* script, and the script has no `set -e`: when a command fails, the next  *)
(* one runs on what is there.  The directory opens with the proof and the  *)
(* verification key that the repository ships.                             *)
(*                                                                         *)
(* A command fails because its inputs are unusable, or for reasons of its  *)
(* own (no tool, no space, no input from the user), and then leaves the    *)
(* file it was to write as it was or truncated.                            *)
(***************************************************************************)
EXTENDS Integers, SequencesExt

-----------------------------------------------------------------------------
(* The transport, from proof.json to received.json: the Rust program       *)
(* (src/main.rs, src/crypto_utils.rs) flattens, signs, encrypts, decrypts  *)
(* and writes the proof, and reform_output.py gives it its shape back.  A  *)
(* digest, a key and a ciphertext are terms that record what they were     *)
(* made from; the protocol and curve fields travel unchanged, left out.    *)

swappedFlatten(input) ==
    [proof |-> input.pi_a
                   \o FlattenSeq([i \in DOMAIN input.pi_b |-> Reverse(input.pi_b[i])])
                   \o input.pi_c]

flatten_json(input) ==
    [proof |-> input.pi_a \o FlattenSeq(input.pi_b) \o input.pi_c]

(* The digest that the sender appends to the message. *)
create_payload(message) == [sha3 |-> message]

generate_keys(seed) == [pk |-> [pk |-> seed], sk |-> [sk |-> seed]]

encrypt_payload(payload, receiver_pk, nonce) ==
    [key |-> receiver_pk, nonce |-> nonce, of |-> payload]

(* AES-GCM: under another key or nonce decrypt fails, and expect panics. *)
decrypt_payloadOK(encrypted, nonce, sk) == encrypted.key = sk /\ encrypted.nonce = nonce

decrypt_payload(encrypted) == encrypted.of

(* main: both ends are one process, and pk is the key of both.  The answer *)
(* of verify_integrity is printed and changes nothing; split_at takes the  *)
(* message off the digest.                                                 *)
encryptedFor(input, seed) ==
    LET message == flatten_json(input)
    IN  encrypt_payload(<<message, create_payload(message)>>, generate_keys(seed).pk, seed)

deliveredOK(input, seed) ==
    decrypt_payloadOK(encryptedFor(input, seed), seed, generate_keys(seed).pk)

delivered(input, seed) == decrypt_payload(encryptedFor(input, seed))[1]

(* data.get("proof", []) *)
flatProof(data) == IF "proof" \in DOMAIN data THEN data.proof ELSE <<>>

(* flat[from - 1 : to] in Python, which stops at the end of the list. *)
slice(flat, from, to) == SubSeq(flat, from, IF to <= Len(flat) THEN to ELSE Len(flat))

reshape(flat) ==
    [ pi_a |-> slice(flat, 1, 3),
      pi_b |-> <<slice(flat, 4, 5), slice(flat, 6, 7), slice(flat, 8, 9)>>,
      pi_c |-> slice(flat, 10, 12) ]

(* What reform_output.py leaves in the file: anything that has not twelve  *)
(* elements stays as it is.                                                *)
restructure_flattened_proof(data) ==
    IF Len(flatProof(data)) = 12 THEN reshape(flatProof(data)) ELSE data

-----------------------------------------------------------------------------
(* The script *)

CONSTANTS
    Input,        \* what input.json may ask to be proved
    Satisfiable,  \* the inputs that have a witness
    MaxRuns,      \* bound on the runs of the script
    Unusable      \* a file that is missing, truncated or malformed

ASSUME InputAssumption == Satisfiable \subseteq Input /\ Satisfiable # {}
ASSUME RunsAssumption == MaxRuns \in Nat /\ Unusable \notin Input

VARIABLES
    run,         \* how many times the script was started
    step,        \* the command it is at; stopped: interrupted or exited
    failed,      \* the commands of this run that failed
    input,       \* input.json
    circuit,     \* whether transfer_js and transfer.r1cs are usable
    witness,     \* witness.wtns: the input it satisfies
    zkey,        \* transfer_0001.zkey: the run that made it
    vkey,        \* verification_key.json: the run that made its zkey
    proofFile,   \* proof.json
    publicFile,  \* public.json: the input whose public signals it holds
    received,    \* received.json: a flattened or a structured proof
    verdict      \* what `snarkjs groth16 verify` said in this run

keys == <<zkey, vkey>>
proofs == <<proofFile, publicFile>>
vars == <<run, step, failed, input, circuit, witness, keys, proofs, received, verdict>>

Commands == <<"compile", "witness", "newKey", "exportKey", "prove", "transport",
              "reform", "verify">>

(* The proof of an input under the keys of one run, made in some run: it   *)
(* has twelve coordinates.                                                 *)
proofOf(statement, key, made) ==
    LET x(i) == <<statement, key, made, i>>
    IN  [ pi_a |-> <<x(1), x(2), x(3)>>,
          pi_b |-> << <<x(4), x(5)>>, <<x(6), x(7)>>, <<x(8), x(9)>> >>,
          pi_c |-> <<x(10), x(11), x(12)>> ]

Init ==
    /\ run = 0
    /\ step = "stopped"
    /\ failed = {}
    /\ input \in Satisfiable
    /\ circuit = FALSE
    /\ witness = Unusable
    /\ zkey = Unusable
    /\ vkey = 0
    /\ proofFile = proofOf(input, 0, 0)
    /\ publicFile = input
    /\ received = Unusable
    /\ verdict = "none"

-----------------------------------------------------------------------------
(* Control flow: whatever a command returns, the next one follows. *)

Begin(i) ==
    /\ step \in {"end", "stopped"}
    /\ run < MaxRuns
    /\ run' = run + 1
    /\ step' = "install"
    /\ failed' = {}
    /\ input' = i
    /\ verdict' = "none"
    /\ UNCHANGED <<circuit, witness, keys, proofs, received>>

(* `cd circom || exit` is the only command whose failure ends the script. *)
Install ==
    /\ step = "install"
    /\ step' \in {"compile", "stopped"}
    /\ UNCHANGED <<run, failed, input, circuit, witness, keys, proofs, received, verdict>>

Interrupt ==
    /\ step \in ToSet(Commands)
    /\ step' = "stopped"
    /\ UNCHANGED <<run, failed, input, circuit, witness, keys, proofs, received, verdict>>

At(command) ==
    /\ step = command
    /\ LET i == CHOOSE n \in DOMAIN Commands : Commands[n] = command
       IN  step' = IF i = Len(Commands) THEN "end" ELSE Commands[i + 1]
    /\ UNCHANGED <<run, input>>

Succeeds == UNCHANGED failed
Fails == failed' = failed \cup {step}

(* What a failed command leaves of a file. *)
leftOf(content) == {content, Unusable}

-----------------------------------------------------------------------------
Compile ==
    /\ At("compile")
    /\ \/ circuit' = TRUE /\ Succeeds
       \/ circuit' \in {circuit, FALSE} /\ Fails
    /\ UNCHANGED <<witness, keys, proofs, received, verdict>>

cachedWitness ==
    /\ At("witness")
    /\ \/ witness # Unusable /\ UNCHANGED witness /\ Succeeds
       \/ circuit /\ input \in Satisfiable /\ witness' = input /\ Succeeds
       \/ witness' \in leftOf(witness) /\ Fails
    /\ UNCHANGED <<circuit, keys, proofs, received, verdict>>

(* Two commands in a row make the same witness. *)
Witness ==
    /\ At("witness")
    /\ \/ circuit /\ input \in Satisfiable /\ witness' = input /\ Succeeds
       \/ witness' \in leftOf(witness) /\ Fails
    /\ UNCHANGED <<circuit, keys, proofs, received, verdict>>

reuseKey ==
    /\ At("newKey")
    /\ \/ zkey' = (IF zkey = Unusable THEN run ELSE zkey) /\ Succeeds
       \/ zkey' \in leftOf(zkey) /\ Fails
    /\ UNCHANGED <<circuit, witness, vkey, proofs, received, verdict>>

(* Powers of tau and the key: fresh randomness in every run. *)
NewKey ==
    /\ At("newKey")
    /\ \/ zkey' = run /\ Succeeds
       \/ zkey' \in leftOf(zkey) /\ Fails
    /\ UNCHANGED <<circuit, witness, vkey, proofs, received, verdict>>

ExportKey ==
    /\ At("exportKey")
    /\ \/ zkey # Unusable /\ vkey' = zkey /\ Succeeds
       \/ vkey' \in leftOf(vkey) /\ Fails
    /\ UNCHANGED <<circuit, witness, zkey, proofs, received, verdict>>

(* proof.json is written before public.json. *)
Prove ==
    /\ At("prove")
    /\ LET able == zkey # Unusable /\ witness # Unusable
           proof == proofOf(witness, zkey, run)
       IN  \/ /\ able
              /\ proofFile' = proof
              /\ publicFile' = witness
              /\ Succeeds
           \/ /\ able
              /\ proofFile' = proof
              /\ publicFile' \in leftOf(publicFile)
              /\ Fails
           \/ /\ proofFile' \in leftOf(proofFile)
              /\ UNCHANGED publicFile
              /\ Fails
    /\ UNCHANGED <<circuit, witness, keys, received, verdict>>

(* cargo run.  The program may still fail once the proof is in the file,   *)
(* when it prints it again.                                                *)
Transport ==
    /\ At("transport")
    /\ \/ /\ proofFile # Unusable
          /\ deliveredOK(proofFile, run)
          /\ received' = delivered(proofFile, run)
          /\ Succeeds \/ Fails
       \/ received' \in leftOf(received) /\ Fails
    /\ UNCHANGED <<circuit, witness, keys, proofs, verdict>>

Reform ==
    /\ At("reform")
    /\ \/ /\ received # Unusable
          /\ received' = restructure_flattened_proof(received)
          /\ Succeeds
       \/ received' \in leftOf(received) /\ Fails
    /\ UNCHANGED <<circuit, witness, keys, proofs, verdict>>

(* Groth16: a proof is accepted under the keys and for the input that it   *)
(* was made for, whichever run made it.                                    *)
accepts(key, statement, proof) == \E made \in 0 .. run : proof = proofOf(statement, key, made)

Verify ==
    /\ At("verify")
    /\ \/ /\ Unusable \notin {vkey, publicFile, received}
          /\ accepts(vkey, publicFile, received)
          /\ verdict' = "OK"
          /\ Succeeds
       \/ verdict' = "not OK" /\ Fails
    /\ UNCHANGED <<circuit, witness, keys, proofs, received>>

Next ==
    \/ \E i \in Input : Begin(i)
    \/ Install \/ Interrupt
    \/ Compile \/ Witness \/ NewKey \/ ExportKey \/ Prove
    \/ Transport \/ Reform \/ Verify

Spec == Init /\ [][Next]_vars

-----------------------------------------------------------------------------
(* Flattening, sending and reshaping gives back the proof of proof.json,   *)
(* whatever earlier runs left in received.json (main.rs, reform_output.py).*)
TransportDelivers ==
    step \in {"verify", "end"} /\ failed \cap {"transport", "reform"} = {} =>
        received = proofFile

(* A run in which no command failed ends on a proof of its own input, made *)
(* in this run and under the keys of this run, and it is accepted.         *)
CleanRunAccepted ==
    step = "end" /\ failed = {} =>
        received = proofOf(input, run, run) /\ vkey = run /\ publicFile = input

(* Whatever else failed, and however old the other files are: once the     *)
(* keys are those of this run, no proof of an earlier run is accepted, and *)
(* the one that is accepted proves the input of this run unless making its *)
(* witness failed.  (A witness that an earlier run left is then proved in  *)
(* its place, and accepted as the proof of its own public signals.)        *)
FreshKeysFreshProof ==
    verdict = "OK" /\ failed \cap {"newKey", "exportKey"} = {} =>
        \E s \in Satisfiable :
            /\ received = proofOf(s, run, run) /\ publicFile = s
            /\ "witness" \notin failed => s = input

-----------------------------------------------------------------------------
(* The inductive invariant: what the files hold at each command. *)

ControlOK ==
    /\ run \in Nat
    /\ step \in ToSet(Commands) \cup {"install", "end", "stopped"}
    /\ failed \subseteq ToSet(Commands)
    /\ verdict \in {"none", "OK", "not OK"}

ContentsOK ==
    /\ input \in Input
    /\ witness \in Satisfiable \cup {Unusable}
    /\ zkey # Unusable => zkey \in 0 .. run
    /\ vkey # Unusable => vkey \in 0 .. run
    /\ publicFile \in Satisfiable \cup {Unusable}

TypeOK == ControlOK /\ ContentsOK /\ circuit \in BOOLEAN

(* A proof that exists is never older than its key, and received.json      *)
(* holds one, in its shape or flattened.                                   *)
IsProof(file) ==
    \E s \in Satisfiable, made \in 0 .. run : \E key \in 0 .. made :
        file = proofOf(s, key, made)

IsFlatProof(file) ==
    \E s \in Satisfiable, made \in 0 .. run : \E key \in 0 .. made :
        file = flatten_json(proofOf(s, key, made))

FilesOK ==
    /\ proofFile # Unusable => IsProof(proofFile)
    /\ received # Unusable => IsProof(received) \/ IsFlatProof(received)

AfterKey == {"exportKey", "prove", "transport", "reform", "verify", "end"}
AfterExport == AfterKey \ {"exportKey"}
AfterProof == AfterExport \ {"prove"}

(* What the commands that did not fail have left of this run.              *)
KeysOfRun ==
    /\ step \in AfterKey /\ "newKey" \notin failed => zkey = run
    /\ step \in AfterExport /\ failed \cap {"newKey", "exportKey"} = {} => vkey = run

WitnessOfRun ==
    step \in AfterKey \cup {"newKey"} /\ "witness" \notin failed =>
        witness = input /\ input \in Satisfiable

ProofOfRun ==
    failed = {} /\ step \in AfterProof =>
        proofFile = proofOf(input, run, run) /\ publicFile = input

(* A file holds a proof of s that this run made, in its shape or flattened. *)
MadeThisRun(file, s) ==
    /\ file # Unusable
    /\ \E key \in 0 .. run : restructure_flattened_proof(file) = proofOf(s, key, run)

(* There is none before the prover has run, and none but of this input     *)
(* unless the witness is an old one.                                       *)
OwnProofs ==
    \A s \in Satisfiable : MadeThisRun(proofFile, s) \/ MadeThisRun(received, s) =>
        /\ step \in AfterProof \cup {"stopped"}
        /\ "witness" \notin failed => s = input

Sent ==
    step = "reform" /\ "transport" \notin failed =>
        received = flatten_json(proofFile) /\ IsProof(proofFile)

Judged ==
    /\ verdict # "none" => step = "end"
    /\ verdict = "OK" =>
          /\ Unusable \notin {vkey, publicFile, received}
          /\ accepts(vkey, publicFile, received)

PipelineInv ==
    /\ TypeOK
    /\ FilesOK
    /\ KeysOfRun
    /\ WitnessOfRun
    /\ ProofOfRun
    /\ OwnProofs
    /\ Sent
    /\ TransportDelivers
    /\ Judged
=============================================================================
