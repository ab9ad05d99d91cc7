------------------------------- MODULE Crypto -------------------------------
(***************************************************************************)
(* The cryptography of tools/crypto.py, symbolically.  A digest, a key and *)
(* a signature are terms that remember what they were computed from: two   *)
(* digests are equal exactly when their arguments are, a signature is good *)
(* exactly for the key and the message it was made with.  Collisions and   *)
(* forgeries, which the program takes to be infeasible, do not exist here. *)
(***************************************************************************)

\* sha256(pickle.dumps(x)).hexdigest(), wherever the program computes it.
Sha256(x) == [sha256 |-> x]

\* The key pair is a function of the seed (secret exponent from the seed).
VerifyingKey(seed) == [public |-> seed]

GetAddress(seed) == Sha256(VerifyingKey(seed))

\* The 0 that stands in an unsigned transaction for a signature and a key.
Unsigned == [unsigned |-> 0]

SignTransaction(seed, transaction_hash) ==
    [signature     |-> [by |-> VerifyingKey(seed), over |-> transaction_hash],
     verifying_key |-> VerifyingKey(seed)]

VerifyAddress(address, verifying_key) == address = Sha256(verifying_key)

\* An unsigned transaction has no key to verify with (TypeError, so False).
VerifySigning(transaction_hash, signature, verifying_key) ==
    /\ verifying_key # Unsigned
    /\ signature = [by |-> verifying_key, over |-> transaction_hash]

=============================================================================
