------------------------------ MODULE PQCrypto ------------------------------
(***************************************************************************)
(* The primitives of pq-crypto/algo.js in the symbolic style: a key, a     *)
(* secret or a ciphertext is a term that records what it was made from,    *)
(* and equal terms are equal byte strings.  ML-KEM rejects implicitly: a   *)
(* decapsulation with the wrong key succeeds and yields another secret.    *)
(* AES-GCM rejects explicitly: createDecipheriv(...).final() throws.       *)
(* Randomness (key seed, encapsulation coins, iv) is a parameter.          *)
(***************************************************************************)

generateKeys(seed) ==
    [publicKey |-> [public |-> seed], privateKey |-> [private |-> seed]]

kemEncapsulate(publicKey, coins) ==
    [ ciphertext   |-> [seed |-> publicKey.public, coins |-> coins],
      sharedSecret |-> [seed |-> publicKey.public, coins |-> coins,
                        by |-> publicKey.public] ]

kemDecapsulate(privateKey, ciphertext) ==
    [seed |-> ciphertext.seed, coins |-> ciphertext.coins,
     by |-> privateKey.private]

encryptAes(sharedSecret, plaintext, iv) ==
    [ ciphertext |-> [key |-> sharedSecret, iv |-> iv, of |-> plaintext],
      iv         |-> iv,
      authTag    |-> [key |-> sharedSecret, iv |-> iv, of |-> plaintext] ]

(* Whether decryptAes returns; when it does not, it throws. *)
decryptAesOK(sharedSecret, iv, authTag, ciphertext) ==
    /\ ciphertext.key = sharedSecret
    /\ ciphertext.iv = iv
    /\ authTag = ciphertext

decryptAes(sharedSecret, iv, authTag, ciphertext) == ciphertext.of
=============================================================================
