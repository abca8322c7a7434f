------------------------------- MODULE Scheme -------------------------------
(***************************************************************************)
(* The certificate scheme (core/src/bn254/scheme.rs) and the start-up that *)
(* gives each process its participant set: node and router each read the   *)
(* operators from the chain once (eigenlayer/src/network.rs, the `main`s   *)
(* under examples/counter), and a participant's index in acks and bitmaps  *)
(* is its position in the sorted set that process read.                    *)
(*                                                                         *)
(* One height: operators sign their answer, the router checks the acks     *)
(* and assembles.  External: the registry, which operators may join and    *)
(* leave at any time; the engine's delivery of acks and its blocking of    *)
(* peers; the p2p handshake, which signs with the same key; restarts.      *)
(***************************************************************************)
EXTENDS Bn254

CONSTANTS Operators,    \* keys that are ever registered
          Founders,     \* the first operator set
          FaultyKeys,   \* operators that send anything
          Router,       \* the router process
          NotSigned,
          MaxChanges,   \* bound on changes of the registry
          Greetings,    \* 32-byte messages a handshake may sign
          MaxStarts     \* bound on starts of processes

Processes == Operators \cup {Router}
Correct == Operators \ FaultyKeys
ApplicationNamespace == "_COMMONWARE_AGGREGATION_"

ASSUME SchemeAssumption ==
    /\ Operators \subseteq Nat /\ IsFiniteSet(Operators)
    /\ Founders \subseteq Operators /\ Founders # {}
    /\ FaultyKeys \subseteq Operators /\ Router \notin Operators
    /\ NotSigned \notin Digests /\ Greetings \subseteq Digests
    /\ MaxChanges \in Nat /\ MaxStarts \in Nat
    /\ \A keys \in SUBSET Operators, d \in Digests : Garbage # SetToBag(keys \X {Raw(d)})

-----------------------------------------------------------------------------
(* The scheme of a process whose participant set is ps.                    *)

Indices(ps) == 0 .. Cardinality(ps) - 1
Index(ps, key) == Cardinality({k \in ps : k < key})
SignerKeys(ps, signers) == {k \in ps : Index(ps, k) \in signers}
QuorumOf(ps) == Cardinality(ps) - (Cardinality(ps) - 1) \div 3

SchemeSign(ps, key, digest) ==
    [signer |-> Index(ps, key), signature |-> SignDigest(key, digest)]

\* Mutant of VerifyAttestation: the signature is not checked.
VerifySigner(ps, digest, att) ==
    /\ att.signer \in Indices(ps)
    /\ DecodesSignature(att.signature)

VerifyAttestation(ps, digest, att) ==
    /\ att.signer \in Indices(ps)
    /\ DecodesSignature(att.signature)
    /\ \E k \in ps : Index(ps, k) = att.signer /\ VerifyDigest(k, digest, att.signature)

NoCertificate == [length |-> 0, signers |-> {}, signature |-> Identity]

\* Mutant of Assemble: one attestation short of the quorum will do.
AssembleShort(ps, atts) ==
    IF Len(atts) + 1 < QuorumOf(ps)
    THEN NoCertificate
    ELSE [length |-> Cardinality(ps), signers |-> {att.signer : att \in Range(atts)},
          signature |-> AggregateSignatures([i \in 1 .. Len(atts) |-> atts[i].signature])]

Assemble(ps, atts) ==
    IF \/ \E att \in Range(atts) :
            att.signer \notin Indices(ps) \/ ~DecodesSignature(att.signature)
       \/ Len(atts) < QuorumOf(ps)
    THEN NoCertificate
    ELSE [length |-> Cardinality(ps), signers |-> {att.signer : att \in Range(atts)},
          signature |-> AggregateSignatures([i \in 1 .. Len(atts) |-> atts[i].signature])]

VerifyCertificate(ps, digest, cert) ==
    /\ cert.length = Cardinality(ps)
    /\ Cardinality(cert.signers) >= QuorumOf(ps)
    /\ cert.signers \subseteq Indices(ps)
    /\ AggregateVerify(SignerKeys(ps, cert.signers), NoNamespace, digest, cert.signature)

DecodesCertificate(ps, cert) ==
    /\ cert.length <= Cardinality(ps)
    /\ cert.signers # {}
    /\ DecodesSignature(cert.signature)

-----------------------------------------------------------------------------
VARIABLES
    registered,   \* external: the operator set on chain
    changes,      \* how often it changed
    view,         \* the participant set each process started with, {} while down
    readAt,       \* history: `changes` when it read it
    starts,       \* starts so far
    signed,       \* history: what each correct operator signed for the height
    pool,         \* attestations the router's engine holds
    blocked       \* peers it has blocked

schemeVars == <<registered, changes, view, readAt, starts, signed, pool, blocked>>

SchemeTypeOK ==
    /\ registered \subseteq Operators /\ registered # {} /\ changes \in 0 .. MaxChanges
    /\ view \in [Processes -> SUBSET Operators]
    /\ readAt \in [Processes -> 0 .. MaxChanges]
    /\ starts \in 0 .. MaxStarts
    /\ signed \in [Correct -> Digests \cup {NotSigned}]
    /\ \A a \in pool : a.digest \in Digests /\ a.att.signer \in Indices(view[Router])
    /\ blocked \subseteq Operators

SchemeInit ==
    /\ registered = Founders /\ changes = 0
    /\ view = [p \in Processes |-> {}] /\ readAt = [p \in Processes |-> 0]
    /\ starts = 0
    /\ signed = [k \in Correct |-> NotSigned]
    /\ pool = {} /\ blocked = {}

\* External: an operator joins or leaves, so later readers see other indices.
RegistryChanges(k) ==
    /\ changes < MaxChanges
    /\ LET now == IF k \in registered THEN registered \ {k} ELSE registered \cup {k}
       IN  now # {} /\ registered' = now
    /\ changes' = changes + 1
    /\ UNCHANGED <<view, readAt, starts, signed, pool, blocked>>

\* Operators whose keys the info service does not return.
KeysKnown(unknown) == unknown = {}

\* Mutant of OperatorSet: operators without keys are passed over.
KnownOperators(listing, unknown) == listing \ unknown

\* A missing key panics the process; otherwise all listed operators take part.
OperatorSet(listing, unknown) == IF KeysKnown(unknown) THEN listing ELSE {}

CanStart == starts < MaxStarts

Started(p, ps) ==
    /\ view' = [view EXCEPT ![p] = ps]
    /\ readAt' = [readAt EXCEPT ![p] = changes]
    /\ starts' = starts + 1
    /\ UNCHANGED <<registered, changes, signed>>

\* A process reads the operators and builds its scheme, and panics when it finds
\* none.  A node panics when its own key is not among them.
StartNode(k, unknown) ==
    /\ CanStart
    /\ LET ps == OperatorSet(registered, unknown)
       IN  k \in ps /\ Started(k, ps)
    /\ UNCHANGED <<pool, blocked>>

\* Mutant of StartRouter: a restarted router keeps the attestations it held.
StartWithPool(unknown) ==
    /\ CanStart
    /\ LET ps == OperatorSet(registered, unknown)
       IN  ps # {} /\ Started(Router, ps)
    /\ UNCHANGED <<pool, blocked>>

StartRouter(unknown) ==
    /\ CanStart
    /\ LET ps == OperatorSet(registered, unknown)
       IN  ps # {} /\ Started(Router, ps)
    /\ pool' = {} /\ blocked' = {}

\* The node's engine signs the digest its automaton answered with.
SignAck(k, d) ==
    /\ view[k] # {}
    /\ signed[k] = NotSigned
    /\ signed' = [signed EXCEPT ![k] = d]
    /\ UNCHANGED <<registered, changes, view, readAt, starts, pool, blocked>>

\* External: the router's engine takes an ack of peer k for digest d, the first
\* of each signer, and blocks a peer whose ack fails.  That it also compares the
\* peer with the signer is left out: the scheme's check stands alone.
ReceiveAck(k, d, att) ==
    /\ k \in view[Router] \ blocked
    /\ \A a \in pool : a.att.signer # att.signer
    /\ IF VerifyAttestation(view[Router], d, att)
       THEN pool' = pool \cup {[digest |-> d, att |-> att]} /\ UNCHANGED blocked
       ELSE blocked' = blocked \cup {k} /\ UNCHANGED pool
    /\ UNCHANGED <<registered, changes, view, readAt, starts, signed>>

CorrectAck(k) ==
    /\ view[k] # {} /\ signed[k] # NotSigned
    /\ ReceiveAck(k, signed[k], SchemeSign(view[k], k, signed[k]))

\* Signatures that exist for a faulty operator to send: p2p signs its handshake
\* messages with the same key, under the application's namespace.
Existing ==
    {<<k, Raw(signed[k])>> : k \in {c \in Correct : signed[c] # NotSigned}}
    \cup {Signing(k, ApplicationNamespace, m) :
             k \in {c \in Correct : view[c] # {}}, m \in Greetings}
    \cup {<<k, Raw(d)>> : k \in FaultyKeys, d \in Digests}

FaultyAck(k, d, i, bytes) ==
    ReceiveAck(k, d, [signer |-> i, signature |-> bytes])

SchemeNext ==
    \/ \E k \in Operators : RegistryChanges(k)
    \/ \E unknown \in {{}} \cup {{k} : k \in registered} :
         StartRouter(unknown) \/ \E k \in Operators : StartNode(k, unknown)
    \/ \E k \in Correct, d \in Digests : SignAck(k, d)
    \/ \E k \in Correct : CorrectAck(k)
    \/ \E k \in FaultyKeys, d \in Digests, i \in 0 .. Cardinality(Operators) :
         \E bytes \in {Garbage, Identity} \cup {SetToBag({s}) : s \in Existing} :
            FaultyAck(k, d, i, bytes)

SchemeSpec == SchemeInit /\ [][SchemeNext]_schemeVars

-----------------------------------------------------------------------------
(* Properties.                                                             *)

\* An attestation in the router's pool was made, for that very digest, by the
\* operator its index stands for (scheme.rs:181-204).
PoolGenuine ==
    \A a \in pool : \E k \in view[Router] :
        /\ Index(view[Router], k) = a.att.signer
        /\ k \in Correct => signed[k] = a.digest

\* However signatures that exist are summed up, acks or handshakes, a
\* certificate that decodes and verifies names a quorum of the participants,
\* and every correct one of them signed that digest (scheme.rs:239-278).
CertificateMeansQuorum ==
    LET ps == view[Router]
    IN  ps # {} =>
        \A summands \in SUBSET Existing :
          LET sum == SetToBag(summands)
          IN  \A signers \in SUBSET Indices(ps), d \in Digests :
                LET cert == [length |-> Cardinality(ps), signers |-> signers,
                             signature |-> sum]
                IN  VerifyCertificate(ps, d, cert) /\ DecodesCertificate(ps, cert)
                      => /\ Cardinality(SignerKeys(ps, signers)) >= QuorumOf(ps)
                         /\ \A k \in SignerKeys(ps, signers) \cap Correct : signed[k] = d

\* The router's pool for a digest assembles exactly when it holds a quorum, and
\* what it assembles decodes and verifies, here and wherever the operators were
\* read from the same registry (scheme.rs:206-237).
AssembledVerifies ==
    \A d \in Digests :
        LET ps == view[Router]
            atts == {a.att : a \in {b \in pool : b.digest = d}}
            cert == Assemble(ps, SetToSeq(atts))
            ready == Cardinality(atts) >= QuorumOf(ps)
        IN  /\ (ps # {} /\ cert # NoCertificate) => ready
            /\ (ps # {} /\ ready) =>
                 \A p \in Processes : (view[p] # {} /\ readAt[p] = readAt[Router]) =>
                    DecodesCertificate(view[p], cert) /\ VerifyCertificate(view[p], d, cert)

\* A correct operator's ack gets it blocked only when it and the router read
\* the registry at different times (scheme.rs:56-59).
BlockedOnlyAcrossRegistries ==
    [][\A k \in Correct :
         k \in blocked' \ blocked => readAt[k] # readAt[Router]]_schemeVars
=============================================================================
