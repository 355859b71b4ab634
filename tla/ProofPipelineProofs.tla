------------------------- MODULE ProofPipelineProofs -------------------------
(***************************************************************************)
(* Proofs about ProofPipeline, for any inputs and any number of runs:      *)
(* TransportDelivers, CleanRunAccepted and FreshKeysFreshProof.            *)
(***************************************************************************)
EXTENDS ProofPipeline, SequenceTheorems, TLAPS

-----------------------------------------------------------------------------
(* Flattening and reshaping. *)

(* What main.rs does to the rows of pi_b: three rows, one after another.   *)
LEMMA FlattenThree ==
    ASSUME NEW s, Len(s) = 3
    PROVE  FlattenSeq(s) = (s[1] \o s[2]) \o s[3]
<1> DEFINE F(f) == [i \in 1 .. Len(s) |-> IF i = 1 THEN s[i] ELSE f[i - 1] \o s[i]]
           w == [i \in 1 .. 3 |-> IF i = 1 THEN s[1]
                                  ELSE IF i = 2 THEN s[1] \o s[2] ELSE (s[1] \o s[2]) \o s[3]]
           g == CHOOSE f : f = F(f)
<1>1. w = F(w)
  <2>1. w[1] = s[1] /\ w[2] = s[1] \o s[2]
    OBVIOUS
  <2>2. ASSUME NEW i \in 1 .. 3 PROVE w[i] = F(w)[i]
    <3>1. CASE i = 1
      BY <3>1
    <3>2. CASE i = 2
      BY <2>1, <3>2
    <3>3. CASE i = 3
      BY <2>1, <3>3
    <3> QED BY <3>1, <3>2, <3>3
  <2> QED BY <2>2
<1>2. g = F(g)
  BY <1>1
<1>3. g[3] = (s[1] \o s[2]) \o s[3]
  <2> HIDE DEF g
  <2>1. \A i \in 1 .. 3 : g[i] = IF i = 1 THEN s[i] ELSE g[i - 1] \o s[i]
    BY <1>2
  <2>2. g[1] = s[1] /\ g[2] = g[1] \o s[2] /\ g[3] = g[2] \o s[3]
    BY <2>1
  <2> QED BY <2>2
<1>4. FlattenSeq(s) = g[3]
  BY DEF FlattenSeq
<1> QED BY <1>3, <1>4

(* The twelve coordinates of a proof, in the order main.rs sends them.     *)
Shaped(x) ==
    [ pi_a |-> <<x[1], x[2], x[3]>>,
      pi_b |-> << <<x[4], x[5]>>, <<x[6], x[7]>>, <<x[8], x[9]>> >>,
      pi_c |-> <<x[10], x[11], x[12]>> ]

(* t is s1 followed by s2: ConcatProperties as a predicate.                *)
Joined(C, t, s1, s2) ==
    /\ t \in Seq(C)
    /\ Len(t) = Len(s1) + Len(s2)
    /\ \A i \in 1 .. Len(s1) + Len(s2) :
         t[i] = IF i <= Len(s1) THEN s1[i] ELSE s2[i - Len(s1)]

LEMMA ConcatJoins ==
    ASSUME NEW C, NEW s1 \in Seq(C), NEW s2 \in Seq(C)
    PROVE  Joined(C, s1 \o s2, s1, s2)
BY ConcatProperties DEF Joined

LEMMA JoinThree ==
    ASSUME NEW C, NEW a \in Seq(C), NEW b \in Seq(C), NEW c \in Seq(C),
           Len(a) = 3, Len(b) = 6, Len(c) = 3,
           NEW ab, NEW abc, Joined(C, ab, a, b), Joined(C, abc, ab, c)
    PROVE  /\ abc \in Seq(C) /\ Len(abc) = 12
           /\ abc[1] = a[1] /\ abc[2] = a[2] /\ abc[3] = a[3]
           /\ abc[4] = b[1] /\ abc[5] = b[2] /\ abc[6] = b[3]
           /\ abc[7] = b[4] /\ abc[8] = b[5] /\ abc[9] = b[6]
           /\ abc[10] = c[1] /\ abc[11] = c[2] /\ abc[12] = c[3]
<1>1. Len(ab) = 9
  BY DEF Joined
<1>2. \A i \in 1 .. 9 : ab[i] = IF i <= 3 THEN a[i] ELSE b[i - 3]
  BY DEF Joined
<1>3. \A i \in 1 .. 12 : abc[i] = IF i <= 9 THEN ab[i] ELSE c[i - 9]
  BY <1>1 DEF Joined
<1>4. abc \in Seq(C) /\ Len(abc) = 12
  BY <1>1 DEF Joined
<1>5. abc[1] = a[1] /\ abc[2] = a[2] /\ abc[3] = a[3]
  BY <1>2, <1>3
<1>6. /\ abc[4] = b[1] /\ abc[5] = b[2] /\ abc[6] = b[3]
      /\ abc[7] = b[4] /\ abc[8] = b[5] /\ abc[9] = b[6]
  BY <1>2, <1>3
<1>7. abc[10] = c[1] /\ abc[11] = c[2] /\ abc[12] = c[3]
  BY <1>2, <1>3
<1> QED BY <1>4, <1>5, <1>6, <1>7

LEMMA Flattened ==
    ASSUME NEW C, NEW x \in [1 .. 12 -> C]
    PROVE  \E flat \in Seq(C) :
             /\ flatten_json(Shaped(x)) = [proof |-> flat]
             /\ Len(flat) = 12 /\ \A i \in 1 .. 12 : flat[i] = x[i]
<1> DEFINE a == <<x[1], x[2], x[3]>>
           c == <<x[10], x[11], x[12]>>
           b1 == <<x[4], x[5]>>
           b2 == <<x[6], x[7]>>
           b3 == <<x[8], x[9]>>
           b == (b1 \o b2) \o b3
           flat == (a \o b) \o c
<1>1. a \in Seq(C) /\ c \in Seq(C) /\ Len(a) = 3 /\ Len(c) = 3
  OBVIOUS
<1>2. b \in Seq(C) /\ Len(b) = 6
  OBVIOUS
<1>3. /\ b[1] = x[4] /\ b[2] = x[5] /\ b[3] = x[6]
      /\ b[4] = x[7] /\ b[5] = x[8] /\ b[6] = x[9]
  OBVIOUS
<1>4. a[1] = x[1] /\ a[2] = x[2] /\ a[3] = x[3]
      /\ c[1] = x[10] /\ c[2] = x[11] /\ c[3] = x[12]
  OBVIOUS
<1>5. /\ Shaped(x).pi_a = a /\ Shaped(x).pi_c = c /\ Len(Shaped(x).pi_b) = 3
      /\ Shaped(x).pi_b[1] = b1 /\ Shaped(x).pi_b[2] = b2 /\ Shaped(x).pi_b[3] = b3
  BY DEF Shaped
<1> HIDE DEF a, b1, b2, b3, c
<1>6. FlattenSeq(Shaped(x).pi_b) = b
  BY <1>5, FlattenThree
<1> HIDE DEF b
<1>7. flatten_json(Shaped(x)) = [proof |-> flat]
  BY <1>5, <1>6 DEF flatten_json
<1>8. Joined(C, a \o b, a, b) /\ Joined(C, flat, a \o b, c)
  <2>1. Joined(C, a \o b, a, b)
    BY <1>1, <1>2, ConcatJoins
  <2>2. a \o b \in Seq(C)
    BY <2>1 DEF Joined
  <2> QED BY <1>1, <2>1, <2>2, ConcatJoins
<1> HIDE DEF flat
<1>9. /\ flat \in Seq(C) /\ Len(flat) = 12
       /\ flat[1] = a[1] /\ flat[2] = a[2] /\ flat[3] = a[3]
       /\ flat[4] = b[1] /\ flat[5] = b[2] /\ flat[6] = b[3]
       /\ flat[7] = b[4] /\ flat[8] = b[5] /\ flat[9] = b[6]
       /\ flat[10] = c[1] /\ flat[11] = c[2] /\ flat[12] = c[3]
  BY <1>1, <1>2, <1>8, JoinThree, SMTT(20)
<1>10. \A i \in 1 .. 12 : flat[i] = x[i]
  BY <1>3, <1>4, <1>9
<1> QED BY <1>7, <1>9, <1>10

(* A slice of two or three elements of a long enough list.                 *)
LEMMA Slices ==
    ASSUME NEW C, NEW flat \in Seq(C), Len(flat) = 12, NEW from \in 1 .. 12
    PROVE  /\ from + 1 <= 12 => slice(flat, from, from + 1) = <<flat[from], flat[from + 1]>>
           /\ from + 2 <= 12 =>
                slice(flat, from, from + 2) = <<flat[from], flat[from + 1], flat[from + 2]>>
<1>1. ASSUME NEW to \in from .. 12
      PROVE  /\ slice(flat, from, to) \in Seq(C) /\ Len(slice(flat, from, to)) = to - from + 1
             /\ \A i \in 1 .. to - from + 1 : slice(flat, from, to)[i] = flat[from + i - 1]
  <2>1. slice(flat, from, to) = SubSeq(flat, from, to)
    BY DEF slice
  <2>2. \A i \in from .. to : flat[i] \in C
    <3>1. flat \in [1 .. 12 -> C]
      BY LenProperties
    <3> QED BY <3>1
  <2> QED BY <2>1, <2>2, SubSeqProperties
<1>2. ASSUME from + 1 <= 12, NEW s, s = slice(flat, from, from + 1)
      PROVE  s = <<flat[from], flat[from + 1]>>
  <2> DEFINE to == from + 1
  <2>1. to \in from .. 12 /\ to - from + 1 = 2
    BY <1>2
  <2>2. s = slice(flat, from, to)
    BY <1>2
  <2> HIDE DEF to
  <2>3. s \in Seq(C) /\ Len(s) = 2 /\ \A i \in 1 .. 2 : s[i] = flat[from + i - 1]
    <3>1. \A i \in 1 .. to - from + 1 : s[i] = flat[from + i - 1]
      BY <1>1, <2>1, <2>2
    <3> QED BY <1>1, <2>1, <2>2, <3>1
  <2>4. from + 1 - 1 = from /\ from + 2 - 1 = from + 1
    OBVIOUS
  <2>5. s[1] = flat[from] /\ s[2] = flat[from + 1]
    BY <2>3, <2>4
  <2> QED BY <2>3, <2>5
<1>3. ASSUME from + 2 <= 12, NEW s, s = slice(flat, from, from + 2)
      PROVE  s = <<flat[from], flat[from + 1], flat[from + 2]>>
  <2> DEFINE to == from + 2
  <2>1. to \in from .. 12 /\ to - from + 1 = 3
    BY <1>3
  <2>2. s = slice(flat, from, to)
    BY <1>3
  <2> HIDE DEF to
  <2>3. s \in Seq(C) /\ Len(s) = 3 /\ \A i \in 1 .. 3 : s[i] = flat[from + i - 1]
    <3>1. \A i \in 1 .. to - from + 1 : s[i] = flat[from + i - 1]
      BY <1>1, <2>1, <2>2
    <3> QED BY <1>1, <2>1, <2>2, <3>1
  <2>4. from + 1 - 1 = from /\ from + 2 - 1 = from + 1 /\ from + 3 - 1 = from + 2
    OBVIOUS
  <2>5. s[1] = flat[from] /\ s[2] = flat[from + 1] /\ s[3] = flat[from + 2]
    BY <2>3, <2>4
  <2> QED BY <2>3, <2>5
<1> QED BY <1>2, <1>3

(* reform_output.py undoes what main.rs did: the shape and every           *)
(* coordinate come back, and a proof that has its shape keeps it.          *)
LEMMA Restored ==
    ASSUME NEW C, NEW x \in [1 .. 12 -> C]
    PROVE  /\ restructure_flattened_proof(flatten_json(Shaped(x))) = Shaped(x)
           /\ restructure_flattened_proof(Shaped(x)) = Shaped(x)
<1>1. PICK flat \in Seq(C) : /\ flatten_json(Shaped(x)) = [proof |-> flat]
                             /\ Len(flat) = 12 /\ \A i \in 1 .. 12 : flat[i] = x[i]
  BY Flattened
<1>2. flatProof(flatten_json(Shaped(x))) = flat
  BY <1>1 DEF flatProof
<1>3. restructure_flattened_proof(flatten_json(Shaped(x))) = reshape(flat)
  BY <1>1, <1>2 DEF restructure_flattened_proof
<1>4. slice(flat, 1, 3) = <<flat[1], flat[2], flat[3]>>
      /\ slice(flat, 10, 12) = <<flat[10], flat[11], flat[12]>>
  BY <1>1, Slices
<1>5. /\ slice(flat, 4, 5) = <<flat[4], flat[5]>>
      /\ slice(flat, 6, 7) = <<flat[6], flat[7]>>
      /\ slice(flat, 8, 9) = <<flat[8], flat[9]>>
  BY <1>1, Slices
<1>6. /\ slice(flat, 1, 3) = <<x[1], x[2], x[3]>>
      /\ slice(flat, 4, 5) = <<x[4], x[5]>>
      /\ slice(flat, 6, 7) = <<x[6], x[7]>>
      /\ slice(flat, 8, 9) = <<x[8], x[9]>>
      /\ slice(flat, 10, 12) = <<x[10], x[11], x[12]>>
  BY <1>1, <1>4, <1>5
<1>7. reshape(flat) = Shaped(x)
  BY <1>6 DEF reshape, Shaped
<1>8. flatProof(Shaped(x)) = <<>>
  BY DEF flatProof, Shaped
<1> QED BY <1>3, <1>7, <1>8 DEF restructure_flattened_proof

-----------------------------------------------------------------------------
(* The proofs that the files hold. *)

(* Taking a proof apart and putting it together leaves it as it was.       *)
LEMMA ProofRestored ==
    ASSUME NEW s, NEW key, NEW made
    PROVE  /\ restructure_flattened_proof(flatten_json(proofOf(s, key, made)))
                = proofOf(s, key, made)
           /\ restructure_flattened_proof(proofOf(s, key, made)) = proofOf(s, key, made)
<1> DEFINE C == {<<s, key, made, i>> : i \in 1 .. 12}
           x == [i \in 1 .. 12 |-> <<s, key, made, i>>]
<1>1. x \in [1 .. 12 -> C]
  OBVIOUS
<1>2. proofOf(s, key, made) = Shaped(x)
  BY DEF proofOf, Shaped
<1> HIDE DEF C, x
<1> QED BY <1>1, <1>2, Restored

(* A proof tells the keys and the run that made it, and is never mistaken  *)
(* for a flattened one.                                                    *)
LEMMA ProofTells ==
    ASSUME NEW s, NEW key, NEW made, NEW t, NEW other, NEW when
    PROVE  /\ proofOf(s, key, made) = proofOf(t, other, when) =>
                 s = t /\ key = other /\ made = when
           /\ flatten_json(proofOf(t, other, when)) # proofOf(s, key, made)
<1>1. proofOf(s, key, made).pi_a[1] = <<s, key, made, 1>>
      /\ proofOf(t, other, when).pi_a[1] = <<t, other, when, 1>>
  BY DEF proofOf
<1>2. "proof" \in DOMAIN flatten_json(proofOf(t, other, when))
  BY DEF flatten_json
<1>3. "proof" \notin DOMAIN proofOf(s, key, made)
  BY DEF proofOf
<1> QED BY <1>1, <1>2, <1>3

(* What the receiver decrypts is the message that was sent.                *)
LEMMA Arrives ==
    ASSUME NEW proof, NEW seed
    PROVE  delivered(proof, seed) = flatten_json(proof)
BY DEF delivered, decrypt_payload, encryptedFor, encrypt_payload

(* Later runs do not unmake a proof.                                       *)
LEMMA ProofStays ==
    ASSUME run \in Nat, run' = run \/ run' = run + 1, NEW file
    PROVE  /\ IsProof(file) => IsProof(file)'
           /\ IsFlatProof(file) => IsFlatProof(file)'
<1>1. \A made \in 0 .. run : made \in 0 .. run'
  OBVIOUS
<1> QED BY <1>1 DEF IsProof, IsFlatProof

(* A command that leaves the files alone, or loses one, makes no proof.     *)
LEMMA OwnStays ==
    ASSUME OwnProofs, run' = run, input' = input,
           proofFile' \in {proofFile, Unusable}, received' \in {received, Unusable},
           step \in AfterProof \cup {"stopped"} => step' \in AfterProof \cup {"stopped"},
           failed \subseteq failed'
    PROVE  OwnProofs'
<1> SUFFICES ASSUME NEW s \in Satisfiable, (MadeThisRun(proofFile, s) \/ MadeThisRun(received, s))'
             PROVE  step' \in AfterProof \cup {"stopped"} /\ ("witness" \notin failed' => s = input')
  BY DEF OwnProofs
<1>1. MadeThisRun(proofFile, s) \/ MadeThisRun(received, s)
  BY DEF MadeThisRun
<1> QED BY <1>1 DEF OwnProofs

(* Restoring the shape of a file that holds a proof leaves its proof.       *)
LEMMA SameProof ==
    ASSUME NEW file, IsProof(file) \/ IsFlatProof(file)
    PROVE  /\ IsProof(restructure_flattened_proof(file))
           /\ restructure_flattened_proof(restructure_flattened_proof(file))
                = restructure_flattened_proof(file)
BY ProofRestored DEF IsProof, IsFlatProof

-----------------------------------------------------------------------------
(* The order of the commands. *)

LEMMA Following ==
    ASSUME NEW n \in 1 .. 8, At(Commands[n])
    PROVE  step' = IF n = 8 THEN "end" ELSE Commands[n + 1]
<1> DEFINE command == Commands[n]
           i == CHOOSE m \in DOMAIN Commands : Commands[m] = command
<1>1. Len(Commands) = 8 /\ DOMAIN Commands = 1 .. 8
  BY DEF Commands
<1>2. \A m \in 1 .. 8 : Commands[m] = Commands[n] => m = n
  BY DEF Commands
<1>3. i = n
  BY <1>1, <1>2
<1>4. step' = IF i = Len(Commands) THEN "end" ELSE Commands[i + 1]
  BY DEF At
<1> HIDE DEF i
<1> QED BY <1>1, <1>3, <1>4

LEMMA NextCommand ==
    /\ At("compile") => step = "compile" /\ step' = "witness"
    /\ At("witness") => step = "witness" /\ step' = "newKey"
    /\ At("newKey") => step = "newKey" /\ step' = "exportKey"
    /\ At("exportKey") => step = "exportKey" /\ step' = "prove"
    /\ At("prove") => step = "prove" /\ step' = "transport"
    /\ At("transport") => step = "transport" /\ step' = "reform"
    /\ At("reform") => step = "reform" /\ step' = "verify"
    /\ At("verify") => step = "verify" /\ step' = "end"
<1>1. /\ Commands[1] = "compile" /\ Commands[2] = "witness" /\ Commands[3] = "newKey"
      /\ Commands[4] = "exportKey" /\ Commands[5] = "prove" /\ Commands[6] = "transport"
      /\ Commands[7] = "reform" /\ Commands[8] = "verify"
  BY DEF Commands
<1>2. \A n \in 1 .. 8 : At(Commands[n]) =>
        step' = IF n = 8 THEN "end" ELSE Commands[n + 1]
  BY Following
<1>3. /\ At(Commands[1]) => step' = Commands[2]
      /\ At(Commands[2]) => step' = Commands[3]
      /\ At(Commands[3]) => step' = Commands[4]
      /\ At(Commands[4]) => step' = Commands[5]
      /\ At(Commands[5]) => step' = Commands[6]
      /\ At(Commands[6]) => step' = Commands[7]
      /\ At(Commands[7]) => step' = Commands[8]
      /\ At(Commands[8]) => step' = "end"
  BY <1>2
<1>4. \A command : At(command) => step = command
  BY DEF At
<1> QED BY <1>1, <1>3, <1>4

LEMMA CommandNames ==
    ToSet(Commands) = {"compile", "witness", "newKey", "exportKey", "prove",
                       "transport", "reform", "verify"}
BY DEF ToSet, Commands

-----------------------------------------------------------------------------
(* The invariant. *)

LEMMA PipelineInit == Init => PipelineInv
<1> SUFFICES ASSUME Init PROVE PipelineInv
  OBVIOUS
<1> USE InputAssumption, RunsAssumption DEF Init
<1>1. TypeOK
  <2>1. ControlOK /\ ContentsOK
    BY DEF ControlOK, ContentsOK
  <2> QED BY <2>1 DEF TypeOK
<1>2. FilesOK
  BY DEF FilesOK, IsProof
<1>3. KeysOfRun /\ WitnessOfRun /\ ProofOfRun
  BY DEF KeysOfRun, WitnessOfRun, ProofOfRun, AfterKey, AfterExport, AfterProof
<1>4. Sent /\ TransportDelivers /\ Judged
  BY DEF Sent, TransportDelivers, Judged
<1>5. OwnProofs
  <2>1. ~\E s : MadeThisRun(received, s)
    BY DEF MadeThisRun
  <2>2. \A s : MadeThisRun(proofFile, s) => s = input
    BY ProofRestored, ProofTells DEF MadeThisRun
  <2> QED BY <2>1, <2>2 DEF OwnProofs
<1> QED BY <1>1, <1>2, <1>3, <1>4, <1>5 DEF PipelineInv

(* What every command keeps, whatever it does to the files.                *)
LEMMA BeginInv ==
    ASSUME PipelineInv, NEW i \in Input, Begin(i)
    PROVE  PipelineInv'
<1>1. TypeOK'
  <2>1. ControlOK /\ ContentsOK /\ circuit \in BOOLEAN
    BY DEF PipelineInv, TypeOK
  <2>2. run' = run + 1 /\ run \in Nat
    BY <2>1 DEF Begin, ControlOK
  <2>3. UNCHANGED <<circuit, witness, zkey, vkey, publicFile>>
    BY DEF Begin, keys, proofs
  <2>4. ControlOK'
    <3>1. run' \in Nat
      BY <2>2
    <3> QED BY <3>1 DEF Begin, ControlOK
  <2>5. ContentsOK'
    <3>1. \A n \in 0 .. run : n \in 0 .. run'
      BY <2>2
    <3>2. (zkey' # Unusable => zkey' \in 0 .. run') /\ (vkey' # Unusable => vkey' \in 0 .. run')
      BY <2>1, <2>3, <3>1 DEF ContentsOK
    <3> QED BY <2>1, <2>3, <3>2 DEF Begin, ContentsOK
  <2> QED BY <2>1, <2>3, <2>4, <2>5 DEF TypeOK
<1> USE DEF Begin, keys, proofs
<1>2. FilesOK'
  <2>1. run \in Nat /\ (run' = run \/ run' = run + 1)
    BY DEF PipelineInv, TypeOK, ControlOK
  <2>2. \A file : (IsProof(file) => IsProof(file)') /\ (IsFlatProof(file) => IsFlatProof(file)')
    BY <2>1, ProofStays
  <2> QED BY <2>2 DEF PipelineInv, FilesOK
<1>3. KeysOfRun' /\ WitnessOfRun' /\ ProofOfRun'
  BY DEF KeysOfRun, WitnessOfRun, ProofOfRun, AfterKey, AfterExport, AfterProof
<1>4. Sent' /\ TransportDelivers' /\ Judged'
  BY DEF Sent, TransportDelivers, Judged
<1>5. OwnProofs'
  <2>1. ASSUME NEW file, file # Unusable => IsProof(file) \/ IsFlatProof(file), NEW s, MadeThisRun(file, s)'
        PROVE  FALSE
    <3>1. file # Unusable /\ run \in Nat
      BY <2>1 DEF MadeThisRun, PipelineInv, TypeOK, ControlOK
    <3>2. PICK key : restructure_flattened_proof(file) = proofOf(s, key, run + 1)
      BY <2>1 DEF MadeThisRun
    <3>0. IsProof(restructure_flattened_proof(file))
      BY <2>1, <3>1, SameProof
    <3>3. PICK t \in Satisfiable, made \in 0 .. run : \E other \in 0 .. made :
              restructure_flattened_proof(file) = proofOf(t, other, made)
      BY <3>0 DEF IsProof
    <3>4. made = run + 1
      BY <3>2, <3>3, ProofTells
    <3> QED BY <3>1, <3>4
  <2> QED BY <2>1 DEF PipelineInv, FilesOK, OwnProofs
<1> QED BY <1>1, <1>2, <1>3, <1>4, <1>5 DEF PipelineInv

LEMMA InstallInv ==
    ASSUME PipelineInv, Install \/ Interrupt
    PROVE  PipelineInv'
<1> USE DEF Install, Interrupt, keys, proofs
<1>1. TypeOK'
  <2>1. ControlOK /\ ContentsOK /\ circuit \in BOOLEAN
    BY DEF PipelineInv, TypeOK
  <2>2. ControlOK'
    BY <2>1, CommandNames DEF ControlOK
  <2>3. ContentsOK'
    BY <2>1, CommandNames DEF ControlOK, ContentsOK
  <2>4. circuit' \in BOOLEAN
    BY <2>1, CommandNames
  <2> QED BY <2>2, <2>3, <2>4 DEF TypeOK
<1>2. FilesOK'
  <2>1. run \in Nat /\ (run' = run \/ run' = run + 1)
    BY DEF PipelineInv, TypeOK, ControlOK
  <2>2. \A file : (IsProof(file) => IsProof(file)') /\ (IsFlatProof(file) => IsFlatProof(file)')
    BY <2>1, ProofStays
  <2> QED BY <2>2 DEF PipelineInv, FilesOK
<1>3. KeysOfRun' /\ WitnessOfRun' /\ ProofOfRun'
  BY DEF KeysOfRun, WitnessOfRun, ProofOfRun, AfterKey, AfterExport, AfterProof
<1>4. Sent' /\ TransportDelivers'
  BY DEF Sent, TransportDelivers
<1>5. Judged'
  BY CommandNames DEF PipelineInv, Judged
<1>6. OwnProofs'
  BY OwnStays DEF PipelineInv, AfterProof, AfterExport, AfterKey
<1> QED BY <1>1, <1>2, <1>3, <1>4, <1>5, <1>6 DEF PipelineInv

LEMMA CompileInv ==
    ASSUME PipelineInv, Compile
    PROVE  PipelineInv'
<1> USE NextCommand DEF Compile, Succeeds, Fails, keys, proofs
<1>1. run' = run /\ input' = input
  BY DEF At
<1>2. TypeOK'
  <2>1. ControlOK /\ ContentsOK /\ circuit \in BOOLEAN
    BY DEF PipelineInv, TypeOK
  <2>2. ControlOK'
    BY <2>1, <1>1, CommandNames DEF ControlOK
  <2>3. ContentsOK'
    BY <2>1, <1>1, CommandNames DEF ControlOK, ContentsOK
  <2>4. circuit' \in BOOLEAN
    BY <2>1, <1>1, CommandNames
  <2> QED BY <2>2, <2>3, <2>4 DEF TypeOK
<1>3. FilesOK'
  BY <1>1, ProofStays DEF PipelineInv, FilesOK, TypeOK, ControlOK
<1>4. KeysOfRun' /\ WitnessOfRun' /\ ProofOfRun'
  BY DEF KeysOfRun, WitnessOfRun, ProofOfRun, AfterKey, AfterExport, AfterProof
<1>5. Sent' /\ TransportDelivers' /\ Judged'
  BY DEF PipelineInv, Sent, TransportDelivers, Judged
<1>6. OwnProofs'
  BY <1>1, OwnStays DEF PipelineInv, AfterProof, AfterExport, AfterKey
<1> QED BY <1>2, <1>3, <1>4, <1>5, <1>6 DEF PipelineInv

LEMMA WitnessInv ==
    ASSUME PipelineInv, Witness
    PROVE  PipelineInv'
<1> USE NextCommand DEF Witness, Succeeds, Fails, leftOf, keys, proofs
<1>1. run' = run /\ input' = input
  BY DEF At
<1>2. TypeOK'
  <2>1. ControlOK /\ ContentsOK /\ circuit \in BOOLEAN
    BY DEF PipelineInv, TypeOK
  <2>2. ControlOK'
    BY <2>1, <1>1, CommandNames DEF ControlOK
  <2>3. ContentsOK'
    BY <2>1, <1>1, CommandNames DEF ControlOK, ContentsOK
  <2>4. circuit' \in BOOLEAN
    BY <2>1, <1>1, CommandNames
  <2> QED BY <2>2, <2>3, <2>4 DEF TypeOK
<1>3. FilesOK'
  BY <1>1, ProofStays DEF PipelineInv, FilesOK, TypeOK, ControlOK
<1>4. KeysOfRun' /\ WitnessOfRun' /\ ProofOfRun'
  BY <1>1 DEF KeysOfRun, WitnessOfRun, ProofOfRun, AfterKey, AfterExport, AfterProof
<1>5. Sent' /\ TransportDelivers' /\ Judged'
  BY DEF PipelineInv, Sent, TransportDelivers, Judged
<1>6. OwnProofs'
  BY <1>1, OwnStays DEF PipelineInv, AfterProof, AfterExport, AfterKey
<1> QED BY <1>2, <1>3, <1>4, <1>5, <1>6 DEF PipelineInv

LEMMA NewKeyInv ==
    ASSUME PipelineInv, NewKey
    PROVE  PipelineInv'
<1>0. run \in 0 .. run
  <2>1. run \in Nat
    BY DEF PipelineInv, TypeOK, ControlOK
  <2> QED BY <2>1
<1> USE NextCommand DEF NewKey, Succeeds, Fails, leftOf, keys, proofs
<1>1. run' = run /\ input' = input
  BY DEF At
<1>2. TypeOK'
  <2>1. ControlOK /\ ContentsOK /\ circuit \in BOOLEAN
    BY DEF PipelineInv, TypeOK
  <2>2. ControlOK'
    BY <2>1, <1>1, CommandNames DEF ControlOK
  <2>3. ContentsOK'
    <3>1. zkey' # Unusable => zkey' \in 0 .. run
      BY <1>0, <2>1 DEF ContentsOK
    <3> QED BY <2>1, <1>1, <3>1 DEF ContentsOK
  <2>4. circuit' \in BOOLEAN
    BY <2>1, <1>1, CommandNames
  <2> QED BY <2>2, <2>3, <2>4 DEF TypeOK
<1>3. FilesOK'
  BY <1>1, ProofStays DEF PipelineInv, FilesOK, TypeOK, ControlOK
<1>4. KeysOfRun' /\ WitnessOfRun' /\ ProofOfRun'
  BY <1>1 DEF PipelineInv, KeysOfRun, WitnessOfRun, ProofOfRun, AfterKey, AfterExport, AfterProof
<1>5. Sent' /\ TransportDelivers' /\ Judged'
  BY DEF PipelineInv, Sent, TransportDelivers, Judged
<1>6. OwnProofs'
  BY <1>1, OwnStays DEF PipelineInv, AfterProof, AfterExport, AfterKey
<1> QED BY <1>2, <1>3, <1>4, <1>5, <1>6 DEF PipelineInv

LEMMA ExportKeyInv ==
    ASSUME PipelineInv, ExportKey
    PROVE  PipelineInv'
<1> USE NextCommand DEF ExportKey, Succeeds, Fails, leftOf, keys, proofs
<1>1. run' = run /\ input' = input
  BY DEF At
<1>2. TypeOK'
  <2>1. ControlOK /\ ContentsOK /\ circuit \in BOOLEAN
    BY DEF PipelineInv, TypeOK
  <2>2. ControlOK'
    BY <2>1, <1>1, CommandNames DEF ControlOK
  <2>3. ContentsOK'
    BY <2>1, <1>1, CommandNames DEF ControlOK, ContentsOK
  <2>4. circuit' \in BOOLEAN
    BY <2>1, <1>1, CommandNames
  <2> QED BY <2>2, <2>3, <2>4 DEF TypeOK
<1>3. FilesOK'
  BY <1>1, ProofStays DEF PipelineInv, FilesOK, TypeOK, ControlOK
<1>4. KeysOfRun' /\ WitnessOfRun' /\ ProofOfRun'
  BY <1>1 DEF PipelineInv, KeysOfRun, WitnessOfRun, ProofOfRun, AfterKey, AfterExport, AfterProof
<1>5. Sent' /\ TransportDelivers' /\ Judged'
  BY DEF PipelineInv, Sent, TransportDelivers, Judged
<1>6. OwnProofs'
  BY <1>1, OwnStays DEF PipelineInv, AfterProof, AfterExport, AfterKey
<1> QED BY <1>2, <1>3, <1>4, <1>5, <1>6 DEF PipelineInv

LEMMA ProveInv ==
    ASSUME PipelineInv, Prove
    PROVE  PipelineInv'
<1> USE NextCommand
<1>1. run' = run /\ input' = input /\ run \in Nat
      /\ UNCHANGED <<circuit, witness, zkey, vkey, received, verdict>>
  BY DEF Prove, At, keys, PipelineInv, TypeOK, ControlOK
<1>2. step = "prove" /\ step' = "transport" /\ failed' \in {failed, failed \cup {"prove"}}
  BY DEF Prove, Succeeds, Fails
<1>3. \/ /\ zkey # Unusable /\ witness # Unusable
         /\ proofFile' = proofOf(witness, zkey, run)
      \/ proofFile' \in {proofFile, Unusable}
  BY DEF Prove, leftOf
<1>4. publicFile' \in {publicFile, witness, Unusable}
  BY DEF Prove, leftOf
<1>5. TypeOK'
  <2>1. ControlOK /\ ContentsOK /\ circuit \in BOOLEAN
    BY DEF PipelineInv, TypeOK
  <2>2. ControlOK'
    BY <2>1, <1>1, <1>2, <1>4, CommandNames DEF ControlOK
  <2>3. ContentsOK'
    BY <2>1, <1>1, <1>2, <1>4, CommandNames DEF ControlOK, ContentsOK
  <2>4. circuit' \in BOOLEAN
    BY <2>1, <1>1, <1>2, <1>4, CommandNames
  <2> QED BY <2>2, <2>3, <2>4 DEF TypeOK
<1>6. FilesOK'
  <2>1. \A file : (IsProof(file) => IsProof(file)') /\ (IsFlatProof(file) => IsFlatProof(file)')
    BY <1>1, ProofStays
  <2>2. CASE /\ zkey # Unusable /\ witness # Unusable
             /\ proofFile' = proofOf(witness, zkey, run)
    <3>1. witness \in Satisfiable /\ zkey \in 0 .. run /\ run \in 0 .. run
      BY <1>1, <2>2 DEF PipelineInv, TypeOK, ContentsOK
    <3>2. IsProof(proofFile')
      BY <2>2, <3>1 DEF IsProof
    <3> QED BY <1>1, <2>1, <3>2 DEF PipelineInv, FilesOK
  <2>3. CASE proofFile' \in {proofFile, Unusable}
    BY <1>1, <2>1, <2>3 DEF PipelineInv, FilesOK
  <2> QED BY <1>3, <2>2, <2>3
<1>7. KeysOfRun'
  BY <1>1, <1>2 DEF PipelineInv, KeysOfRun, AfterKey, AfterExport
<1>8. ProofOfRun'
  <2>1. failed' = {} => Succeeds
    BY <1>2 DEF Prove, Succeeds, Fails
  <2>2. failed' = {} => /\ proofFile' = proofOf(witness, zkey, run)
                        /\ publicFile' = witness /\ failed = {}
    BY <1>2, <2>1 DEF Prove, Succeeds, Fails
  <2>3. failed = {} => witness = input /\ input \in Satisfiable /\ zkey = run
    BY <1>2 DEF PipelineInv, WitnessOfRun, KeysOfRun, AfterKey
  <2> QED BY <1>1, <1>2, <2>2, <2>3 DEF ProofOfRun, AfterKey, AfterExport, AfterProof
<1>9. Sent' /\ TransportDelivers' /\ Judged' /\ WitnessOfRun'
  BY <1>1, <1>2 DEF PipelineInv, Sent, TransportDelivers, Judged, WitnessOfRun, AfterKey
<1>10. OwnProofs'
  <2> SUFFICES ASSUME NEW s \in Satisfiable, MadeThisRun(proofFile, s)' \/ MadeThisRun(received, s)',
                      "witness" \notin failed'
               PROVE  s = input'
    BY <1>2 DEF OwnProofs, AfterProof, AfterExport, AfterKey
  <2>1. "witness" \notin failed /\ witness = input
    BY <1>2 DEF PipelineInv, WitnessOfRun, AfterKey
  <2>2. ~MadeThisRun(proofFile, s) /\ ~MadeThisRun(received, s)
    BY <1>2 DEF PipelineInv, OwnProofs, AfterProof
  <2>3. ~MadeThisRun(received, s)'
    BY <1>1, <2>2 DEF MadeThisRun
  <2>4. proofFile' = proofOf(witness, zkey, run)
    BY <1>1, <1>3, <2>2, <2>3 DEF MadeThisRun
  <2> QED BY <1>1, <2>1, <2>3, <2>4, ProofRestored, ProofTells DEF MadeThisRun
<1> QED BY <1>5, <1>6, <1>7, <1>8, <1>9, <1>10 DEF PipelineInv

LEMMA TransportInv ==
    ASSUME PipelineInv, Transport
    PROVE  PipelineInv'
<1> USE NextCommand
<1>1. run' = run /\ input' = input /\ run \in Nat
      /\ UNCHANGED <<circuit, witness, zkey, vkey, proofFile, publicFile, verdict>>
  BY DEF Transport, At, keys, proofs, PipelineInv, TypeOK, ControlOK
<1>2. /\ step = "transport" /\ step' = "reform"
      /\ failed' \in {failed, failed \cup {"transport"}}
  BY DEF Transport, Succeeds, Fails
<1>3. \A file : (IsProof(file) => IsProof(file)') /\ (IsFlatProof(file) => IsFlatProof(file)')
  BY <1>1, ProofStays
<1>4. \/ proofFile # Unusable /\ received' = flatten_json(proofFile)
      \/ received' \in {received, Unusable} /\ failed' = failed \cup {"transport"}
  BY <1>2, Arrives DEF Transport, leftOf, Fails
<1>5. proofFile # Unusable => IsProof(proofFile) /\ IsFlatProof(flatten_json(proofFile))
  BY DEF PipelineInv, FilesOK, IsProof, IsFlatProof
<1>6. TypeOK'
  <2>1. ControlOK /\ ContentsOK /\ circuit \in BOOLEAN
    BY DEF PipelineInv, TypeOK
  <2>2. ControlOK'
    BY <2>1, <1>1, <1>2, CommandNames DEF ControlOK
  <2>3. ContentsOK'
    BY <2>1, <1>1, <1>2, CommandNames DEF ControlOK, ContentsOK
  <2>4. circuit' \in BOOLEAN
    BY <2>1, <1>1, <1>2, CommandNames
  <2> QED BY <2>2, <2>3, <2>4 DEF TypeOK
<1>7. FilesOK'
  BY <1>1, <1>3, <1>4, <1>5 DEF PipelineInv, FilesOK
<1>8. KeysOfRun' /\ WitnessOfRun' /\ ProofOfRun'
  BY <1>1, <1>2 DEF PipelineInv, KeysOfRun, WitnessOfRun, ProofOfRun, AfterKey, AfterExport, AfterProof
<1>9. Sent'
  BY <1>1, <1>2, <1>3, <1>4, <1>5 DEF Sent
<1>10. TransportDelivers' /\ Judged'
  BY <1>1, <1>2 DEF PipelineInv, TransportDelivers, Judged
<1>11. OwnProofs'
  <2> SUFFICES ASSUME NEW s \in Satisfiable, MadeThisRun(proofFile, s)' \/ MadeThisRun(received, s)'
               PROVE  MadeThisRun(proofFile, s) \/ MadeThisRun(received, s)
    BY <1>1, <1>2 DEF PipelineInv, OwnProofs, AfterProof, AfterExport, AfterKey
  <2>1. proofFile # Unusable =>
            restructure_flattened_proof(flatten_json(proofFile)) = restructure_flattened_proof(proofFile)
    BY <1>5, ProofRestored DEF IsProof
  <2> QED BY <1>1, <1>4, <2>1 DEF MadeThisRun
<1> QED BY <1>6, <1>7, <1>8, <1>9, <1>10, <1>11 DEF PipelineInv

LEMMA ReformInv ==
    ASSUME PipelineInv, Reform
    PROVE  PipelineInv'
<1> USE NextCommand
<1>1. run' = run /\ input' = input /\ run \in Nat
      /\ UNCHANGED <<circuit, witness, zkey, vkey, proofFile, publicFile, verdict>>
  BY DEF Reform, At, keys, proofs, PipelineInv, TypeOK, ControlOK
<1>2. /\ step = "reform" /\ step' = "verify"
      /\ failed' \in {failed, failed \cup {"reform"}}
  BY DEF Reform, Succeeds, Fails
<1>3. \A file : (IsProof(file) => IsProof(file)') /\ (IsFlatProof(file) => IsFlatProof(file)')
  BY <1>1, ProofStays
<1>4. \/ received # Unusable /\ received' = restructure_flattened_proof(received)
      \/ received' \in {received, Unusable} /\ failed' = failed \cup {"reform"}
  BY <1>2 DEF Reform, leftOf, Fails
<1>5. \A file : IsProof(file) \/ IsFlatProof(file) => IsProof(restructure_flattened_proof(file))
  BY ProofRestored DEF IsProof, IsFlatProof
<1>6. TypeOK'
  <2>1. ControlOK /\ ContentsOK /\ circuit \in BOOLEAN
    BY DEF PipelineInv, TypeOK
  <2>2. ControlOK'
    BY <2>1, <1>1, <1>2, CommandNames DEF ControlOK
  <2>3. ContentsOK'
    BY <2>1, <1>1, <1>2, CommandNames DEF ControlOK, ContentsOK
  <2>4. circuit' \in BOOLEAN
    BY <2>1, <1>1, <1>2, CommandNames
  <2> QED BY <2>2, <2>3, <2>4 DEF TypeOK
<1>7. FilesOK'
  BY <1>1, <1>3, <1>4, <1>5 DEF PipelineInv, FilesOK
<1>8. KeysOfRun' /\ WitnessOfRun' /\ ProofOfRun'
  BY <1>1, <1>2 DEF PipelineInv, KeysOfRun, WitnessOfRun, ProofOfRun, AfterKey, AfterExport, AfterProof
<1>9. TransportDelivers'
  <2> SUFFICES ASSUME failed' \cap {"transport", "reform"} = {}
               PROVE  received' = proofFile'
    BY DEF TransportDelivers
  <2>1. received' = restructure_flattened_proof(received)
    BY <1>4
  <2>2. received = flatten_json(proofFile) /\ IsProof(proofFile)
    BY <1>2 DEF PipelineInv, Sent
  <2>3. restructure_flattened_proof(flatten_json(proofFile)) = proofFile
    BY <2>2, ProofRestored DEF IsProof
  <2> QED BY <1>1, <2>1, <2>2, <2>3
<1>10. Sent' /\ Judged'
  BY <1>1, <1>2 DEF PipelineInv, Sent, Judged
<1>11. OwnProofs'
  <2> SUFFICES ASSUME NEW s \in Satisfiable, MadeThisRun(proofFile, s)' \/ MadeThisRun(received, s)'
               PROVE  MadeThisRun(proofFile, s) \/ MadeThisRun(received, s)
    BY <1>1, <1>2 DEF PipelineInv, OwnProofs, AfterProof, AfterExport, AfterKey
  <2>1. received # Unusable =>
            restructure_flattened_proof(restructure_flattened_proof(received))
                = restructure_flattened_proof(received)
    BY SameProof DEF PipelineInv, FilesOK
  <2> QED BY <1>1, <1>4, <2>1 DEF MadeThisRun
<1> QED BY <1>6, <1>7, <1>8, <1>9, <1>10, <1>11 DEF PipelineInv

LEMMA VerifyInv ==
    ASSUME PipelineInv, Verify
    PROVE  PipelineInv'
<1> USE NextCommand
<1>1. run' = run /\ input' = input /\ run \in Nat
      /\ UNCHANGED <<circuit, witness, zkey, vkey, proofFile, publicFile, received>>
  BY DEF Verify, At, keys, proofs, PipelineInv, TypeOK, ControlOK
<1>2. /\ step = "verify" /\ step' = "end"
      /\ failed' \in {failed, failed \cup {"verify"}}
  BY DEF Verify, Succeeds, Fails
<1>3. \A file : (IsProof(file) => IsProof(file)') /\ (IsFlatProof(file) => IsFlatProof(file)')
  BY <1>1, ProofStays
<1>4. verdict' \in {"OK", "not OK"}
  BY DEF Verify
<1>5. TypeOK'
  <2>1. ControlOK /\ ContentsOK /\ circuit \in BOOLEAN
    BY DEF PipelineInv, TypeOK
  <2>2. ControlOK'
    BY <2>1, <1>1, <1>2, <1>4, CommandNames DEF ControlOK
  <2>3. ContentsOK'
    BY <2>1, <1>1, <1>2, <1>4, CommandNames DEF ControlOK, ContentsOK
  <2>4. circuit' \in BOOLEAN
    BY <2>1, <1>1, <1>2, <1>4, CommandNames
  <2> QED BY <2>2, <2>3, <2>4 DEF TypeOK
<1>6. FilesOK'
  BY <1>1, <1>3 DEF PipelineInv, FilesOK
<1>7. KeysOfRun' /\ WitnessOfRun' /\ ProofOfRun'
  BY <1>1, <1>2 DEF PipelineInv, KeysOfRun, WitnessOfRun, ProofOfRun, AfterKey, AfterExport, AfterProof
<1>8. Sent' /\ TransportDelivers'
  BY <1>1, <1>2 DEF PipelineInv, Sent, TransportDelivers
<1>9. Judged'
  BY <1>1, <1>2 DEF Verify, Judged, accepts
<1>10. OwnProofs'
  BY <1>1, <1>2, OwnStays DEF PipelineInv, AfterProof, AfterExport, AfterKey
<1> QED BY <1>5, <1>6, <1>7, <1>8, <1>9, <1>10 DEF PipelineInv

-----------------------------------------------------------------------------
(* At every command the files hold what the commands before it left there: *)
(* the keys, the witness and the proof of this run unless one of them      *)
(* failed, and otherwise what an earlier run left, or nothing of use.      *)
THEOREM PipelineInvariance == Spec => []PipelineInv
<1>1. PipelineInv /\ [Next]_vars => PipelineInv'
  <2> SUFFICES ASSUME PipelineInv, [Next]_vars PROVE PipelineInv'
    OBVIOUS
  <2>1. ASSUME NEW i \in Input, Begin(i) PROVE PipelineInv'
    BY <2>1, BeginInv
  <2>2. CASE Install \/ Interrupt
    BY <2>2, InstallInv
  <2>3. CASE Compile \/ Witness \/ NewKey \/ ExportKey \/ Prove
    BY <2>3, CompileInv, WitnessInv, NewKeyInv, ExportKeyInv, ProveInv
  <2>4. CASE Transport \/ Reform \/ Verify
    BY <2>4, TransportInv, ReformInv, VerifyInv
  <2>5. CASE UNCHANGED vars
    <3> USE <2>5 DEF vars, keys, proofs, PipelineInv
    <3>1. TypeOK'
      BY DEF TypeOK, ControlOK, ContentsOK
    <3>2. KeysOfRun' /\ WitnessOfRun' /\ ProofOfRun' /\ TransportDelivers'
      BY DEF KeysOfRun, WitnessOfRun, ProofOfRun, TransportDelivers
    <3>3. FilesOK' /\ Sent' /\ Judged' /\ OwnProofs'
      BY DEF FilesOK, IsProof, IsFlatProof, Sent, Judged, accepts, OwnProofs, MadeThisRun
    <3> QED BY <3>1, <3>2, <3>3
  <2> QED BY <2>1, <2>2, <2>3, <2>4, <2>5 DEF Next
<1> QED BY PipelineInit, <1>1, PTL DEF Spec

(* Flattening, sending and reshaping gives back the proof of proof.json.   *)
THEOREM TransportDeliversHolds == Spec => []TransportDelivers
<1>1. PipelineInv => TransportDelivers
  BY DEF PipelineInv
<1> QED BY <1>1, PipelineInvariance, PTL

(* A run in which no command failed ends on an accepted proof of its own   *)
(* input, made in this run under the keys of this run.                     *)
THEOREM CleanRunAcceptedHolds == Spec => []CleanRunAccepted
<1>1. PipelineInv => CleanRunAccepted
  BY DEF PipelineInv, CleanRunAccepted, TransportDelivers, KeysOfRun, WitnessOfRun, ProofOfRun,
         AfterKey, AfterExport, AfterProof
<1> QED BY <1>1, PipelineInvariance, PTL

(* Under the keys of this run no proof of an earlier run is accepted: a    *)
(* proof is never older than its key.  The accepted one was made in this   *)
(* run from the witness that the prover found, which is that of this run's *)
(* input unless the witness command failed.                                *)
THEOREM FreshKeysFreshProofHolds == Spec => []FreshKeysFreshProof
<1>1. PipelineInv => FreshKeysFreshProof
  <2> SUFFICES ASSUME PipelineInv, verdict = "OK", failed \cap {"newKey", "exportKey"} = {}
               PROVE  \E s \in Satisfiable :
                         /\ received = proofOf(s, run, run) /\ publicFile = s
                         /\ "witness" \notin failed => s = input
    BY DEF FreshKeysFreshProof
  <2>1. vkey = run
    BY DEF PipelineInv, Judged, KeysOfRun, AfterKey, AfterExport
  <2>2. PICK made \in 0 .. run : received = proofOf(publicFile, run, made)
    BY <2>1 DEF PipelineInv, Judged, accepts
  <2>3. received # Unusable
    BY DEF PipelineInv, Judged
  <2>4. IsProof(received)
    BY <2>2, <2>3, ProofTells DEF PipelineInv, FilesOK, IsFlatProof
  <2>5. PICK s \in Satisfiable, when \in 0 .. run : \E key \in 0 .. when :
          received = proofOf(s, key, when)
    BY <2>4 DEF IsProof
  <2>6. PICK key \in 0 .. when : received = proofOf(s, key, when)
    BY <2>5
  <2>7. key = run /\ s = publicFile
    <3>1. proofOf(s, key, when) = proofOf(publicFile, run, made)
      BY <2>2, <2>6
    <3> QED BY <3>1, ProofTells
  <2>8. when = run /\ run \in 0 .. run
    BY <2>7 DEF PipelineInv, TypeOK, ControlOK
  <2>9. MadeThisRun(received, s)
    BY <2>3, <2>6, <2>7, <2>8, ProofRestored DEF MadeThisRun
  <2>10. "witness" \notin failed => s = input
    BY <2>9 DEF PipelineInv, OwnProofs
  <2> QED BY <2>6, <2>7, <2>8, <2>10
<1> QED BY <1>1, PipelineInvariance, PTL
=============================================================================
