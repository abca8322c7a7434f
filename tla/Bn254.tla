------------------------------- MODULE Bn254 -------------------------------
(* BN254 signatures (core/src/bn254/mod.rs) over ideal curve points.  A    *)
(* key is its rank in the order of compressed G2 bytes.  A point of G1 is  *)
(* the bag of <<key, payload>> pairs whose products sum up to it: points   *)
(* of different keys or payloads have no relation, and the hash no         *)
(* collision.  Every digest is 32 bytes wide (sha256).                     *)
EXTENDS Integers, FiniteSets, Bags, SequencesExt

CONSTANTS Digests,      \* 32-byte digests a message can be
          Garbage       \* bytes that are no point of G1

NoNamespace == "none"

\* What map_to_curve takes: a bare 32-byte message is its own hash input, any
\* other message is hashed with its namespace.
Raw(d) == [hashed |-> FALSE, namespace |-> NoNamespace, message |-> d]

\* Mutant of Payload: a 32-byte message is never hashed.
PayloadBare(namespace, message) == Raw(message)

Payload(namespace, message) ==
    IF namespace = NoNamespace /\ message \in Digests
    THEN Raw(message)
    ELSE [hashed |-> TRUE, namespace |-> namespace, message |-> message]

Identity == EmptyBag

\* Signature::read_cfg: curve membership, and never the identity.
DecodesSignature(bytes) == bytes # Garbage /\ bytes # Identity

\* The pairing check of a point against the sum of some public keys.
Pairing(keys, payload, point) == point = SetToBag(keys \X {payload})

\* The one summand of a signature.
Signing(key, namespace, message) == <<key, Payload(namespace, message)>>

SignDigest(key, digest) == SetToBag({<<key, Raw(digest)>>})

VerifyDigest(key, digest, signature) == Pairing({key}, Raw(digest), signature)

\* Point addition.
AggregateSignatures(signatures) ==
    LET sum[i \in 0 .. Len(signatures)] ==
          IF i = 0 THEN Identity ELSE sum[i - 1] (+) signatures[i]
    IN  sum[Len(signatures)]

AggregateVerify(keys, namespace, message, signature) ==
    Pairing(keys, Payload(namespace, message), signature)
=============================================================================
