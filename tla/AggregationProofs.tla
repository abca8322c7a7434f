-------------------------- MODULE AggregationProofs --------------------------
(***************************************************************************)
(* For any number of operators, any window, any heights and tasks: if the  *)
(* faulty participants and the nodes that lost their journal are together  *)
(* at most (n-1)/3, no height gets two certificates, and what is certified *)
(* is accounted for by the router's directives.                            *)
(***************************************************************************)
EXTENDS Aggregation, TLAPS, FiniteSetTheorems

\* The strengthening: signatures follow from directives, a node that kept its
\* journal has sent only the signatures the journal holds, few nodes lost
\* theirs, and every certificate has a quorum of signers.
AcksAccounted ==
    \A n \in Honest, h \in Heights, d \in Resolutions :
        <<n, h, d>> \in acks => Ledger!Accounted(out, h, d)
AcksJournalled ==
    \A n \in Honest \ lost, h \in Heights, d \in Resolutions :
        <<n, h, d>> \in acks => signed[n][h] = d
FewLost == Cardinality(lost) <= MaxLosses
CertsBacked ==
    \A h \in Heights, d \in Resolutions :
        <<h, d>> \in certs => Cardinality(Signers(h, d) \cup Faulty) >= Quorum
IInv == TypeOK /\ AcksAccounted /\ AcksJournalled /\ FewLost /\ CertsBacked

USE ParticipantsAssumption, AggregationAssumption

-----------------------------------------------------------------------------
(* Quorums.                                                                *)

\* The sizes are numbers, and three times the faults are fewer than the nodes.
LEMMA Sizes ==
  /\ Cardinality(Nodes) \in Nat \ {0}
  /\ MaxFaults \in Nat /\ Quorum \in Nat
  /\ 3 * MaxFaults < Cardinality(Nodes)
  /\ Quorum = Cardinality(Nodes) - MaxFaults
  /\ IsFiniteSet(Faulty) /\ Cardinality(Faulty) \in Nat
<1>1. Cardinality(Nodes) \in Nat \ {0}
  BY FS_CardinalityType, FS_EmptySet
<1>2. MaxFaults = (Cardinality(Nodes) - 1) \div 3
  BY <1>1 DEF MaxFaults
<1>3. IsFiniteSet(Faulty) /\ Cardinality(Faulty) \in Nat
  BY FS_Subset, FS_CardinalityType
<1>4. \A k \in Nat \ {0} : (k - 1) \div 3 \in Nat /\ 3 * ((k - 1) \div 3) < k
                           /\ k - ((k - 1) \div 3) \in Nat
  OBVIOUS
<1> QED
  BY <1>1, <1>2, <1>3, <1>4 DEF Quorum

\* The arithmetic of two quorums that overlap in i of n, in all u of them.
LEMMA OverlapArithmetic ==
  ASSUME NEW n \in Nat, NEW f \in Nat, NEW s \in Nat, NEW t \in Nat,
         NEW u \in Nat, NEW i \in Nat,
         3 * f < n, s >= n - f, t >= n - f, u <= n, u = s + t - i
  PROVE  i > f
OBVIOUS

\* Two quorums share a participant outside any set of at most MaxFaults.
LEMMA QuorumsMeet ==
  ASSUME NEW S \in SUBSET Nodes, NEW T \in SUBSET Nodes, NEW B,
         Cardinality(S) >= Quorum, Cardinality(T) >= Quorum,
         IsFiniteSet(B), Cardinality(B) <= MaxFaults
  PROVE  \E p \in S \cap T : p \notin B
<1> SUFFICES ASSUME \A p \in S \cap T : p \in B PROVE FALSE
  OBVIOUS
<1>1. IsFiniteSet(S) /\ IsFiniteSet(T)
  BY FS_Subset
<1>2. IsFiniteSet(S \cup T) /\ Cardinality(S \cup T) <= Cardinality(Nodes)
  <2>1. S \cup T \in SUBSET Nodes
    OBVIOUS
  <2> QED
    BY <2>1, FS_Subset
<1>3. Cardinality(S \cup T) = Cardinality(S) + Cardinality(T) - Cardinality(S \cap T)
  BY <1>1, FS_Union
<1>4. IsFiniteSet(S \cap T) /\ Cardinality(S \cap T) <= Cardinality(B)
  <2>1. S \cap T \in SUBSET B
    OBVIOUS
  <2> QED
    BY <2>1, FS_Subset
<1>5. /\ Cardinality(S) \in Nat /\ Cardinality(T) \in Nat /\ Cardinality(B) \in Nat
      /\ Cardinality(S \cup T) \in Nat /\ Cardinality(S \cap T) \in Nat
  BY <1>1, <1>2, <1>4, FS_CardinalityType
<1>6. Cardinality(S \cap T) > MaxFaults
  BY <1>2, <1>3, <1>5, Sizes, OverlapArithmetic
<1> QED
  BY <1>4, <1>5, <1>6, Sizes

\* A quorum of signers, the faulty included, has an honest one.
LEMMA HonestSigner ==
  ASSUME NEW h, NEW d, Cardinality(Signers(h, d) \cup Faulty) >= Quorum
  PROVE  \E n \in Honest : <<n, h, d>> \in acks
<1> DEFINE S == Signers(h, d) \cup Faulty
<1>1. S \in SUBSET Nodes
  BY DEF Signers, Honest
<1>2. PICK p \in S \cap S : p \notin Faulty
  <2> HIDE DEF S
  <2>1. Cardinality(S) >= Quorum
    BY DEF S
  <2> QED
    BY <1>1, <2>1, QuorumsMeet, Sizes
<1> QED
  BY <1>2 DEF Signers

-----------------------------------------------------------------------------
(* The invariant.                                                          *)

\* More signatures leave every certificate its quorum.
LEMMA MoreSigners ==
  ASSUME CertsBacked, acks \subseteq acks', certs' = certs
  PROVE  CertsBacked'
<1> SUFFICES ASSUME NEW h \in Heights, NEW d \in Resolutions, <<h, d>> \in certs
             PROVE  Cardinality(Signers(h, d)' \cup Faulty) >= Quorum
  BY DEF CertsBacked
<1> DEFINE S == Signers(h, d) \cup Faulty
           T == Signers(h, d)' \cup Faulty
<1>1. S \in SUBSET T /\ T \in SUBSET Nodes
  BY DEF Signers, Honest
<1>2. Cardinality(S) >= Quorum
  BY DEF CertsBacked
<1> HIDE DEF S, T
<1>3. IsFiniteSet(T)
  BY <1>1, FS_Subset
<1>4. IsFiniteSet(S) /\ Cardinality(S) <= Cardinality(T)
  BY <1>1, <1>3, FS_Subset
<1>5. Cardinality(S) \in Nat /\ Cardinality(T) \in Nat
  BY <1>3, <1>4, FS_CardinalityType
<1> QED
  BY <1>2, <1>4, <1>5, Sizes DEF T

\* What some directives account for, more do.
LEMMA AccountedMonotone ==
  ASSUME NEW G, NEW H, G \subseteq H, NEW h, NEW d, Ledger!Accounted(G, h, d)
  PROVE  Ledger!Accounted(H, h, d)
BY DEF Ledger!Accounted, Ledger!Answerable

\* Whatever a node may answer, the ledger accounts for.
LEMMA AnswersAccounted ==
  ASSUME NEW h, NEW d, MayAnswer(h, d)
  PROVE  Ledger!Accounted(out, h, d)
BY DEF MayAnswer, Answerable, Ledger!Accounted, Ledger!Answerable

\* The initial states satisfy the invariant.
LEMMA InitInv == Init => IInv
<1> SUFFICES ASSUME Init PROVE IInv
  OBVIOUS
<1>1. TypeOK
  BY DEF Init, TypeOK, Heights, Tips, Unsigned
<1>2. FewLost
  BY FS_EmptySet DEF Init, FewLost
<1> QED
  BY <1>1, <1>2 DEF Init, IInv, AcksAccounted, AcksJournalled, CertsBacked

\* The router's steps only add directives.
LEMMA RouterInv ==
  ASSUME IInv,
         (\E h \in Heights, t \in Tasks : Announce(h, t)) \/ GiveUp \/ Release \/ RouterRestart
  PROVE  IInv'
<1>1. TypeOK' /\ out \subseteq out' /\ UNCHANGED <<nodeVars, certs, lost>>
  <2>1. UNCHANGED <<nodeVars, certs, lost>>
    BY DEF Announce, GiveUp, Release, RouterRestart
  <2>2. /\ out' \subseteq Directives /\ out \subseteq out'
        /\ driving' \in Heights /\ said' \in Resolutions \cup {None}
    <3>1. CASE \E h \in Heights, t \in Tasks : Announce(h, t)
      BY <3>1 DEF IInv, TypeOK, Announce, Directives, Resolutions
    <3>2. CASE GiveUp
      BY <3>2 DEF IInv, TypeOK, GiveUp, Directives, Resolutions
    <3>3. CASE Release \/ RouterRestart
      BY <3>3 DEF IInv, TypeOK, Release, RouterRestart
    <3> QED
      BY <3>1, <3>2, <3>3
  <2> QED
    BY <2>1, <2>2 DEF IInv, TypeOK, nodeVars
<1>2. AcksAccounted'
  BY <1>1, AccountedMonotone DEF IInv, AcksAccounted, nodeVars
<1>3. AcksJournalled' /\ FewLost'
  BY <1>1 DEF IInv, AcksJournalled, FewLost, nodeVars
<1>4. CertsBacked'
  BY <1>1, MoreSigners DEF IInv, nodeVars
<1> QED
  BY <1>1, <1>2, <1>3, <1>4 DEF IInv

\* A node signs what it may answer, once, and journals it.
LEMMA SignInv ==
  ASSUME IInv, NEW n \in Honest, NEW h \in Heights, NEW d \in Resolutions, Sign(n, h, d)
  PROVE  IInv'
<1>1. TypeOK'
  BY DEF IInv, TypeOK, Sign, routerVars
<1>2. AcksAccounted'
  BY AnswersAccounted DEF IInv, AcksAccounted, Sign, routerVars
<1>3. AcksJournalled'
  <2> SUFFICES ASSUME NEW m \in Honest \ lost, NEW k \in Heights, NEW e \in Resolutions,
                      <<m, k, e>> \in acks'
               PROVE  signed'[m][k] = e
    BY DEF AcksJournalled, Sign
  <2>1. signed \in [Honest -> [Heights -> Resolutions \cup {None}]]
    BY DEF IInv, TypeOK
  <2>2. CASE <<m, k, e>> = <<n, h, d>>
    BY <2>1, <2>2 DEF Sign
  <2>3. CASE <<m, k, e>> # <<n, h, d>>
    <3>1. signed[m][k] = e
      BY <2>3 DEF IInv, AcksJournalled, Sign
    <3>2. <<m, k>> # <<n, h>>
      BY <3>1 DEF Sign
    <3> QED
      BY <2>1, <3>1, <3>2 DEF Sign
  <2> QED
    BY <2>2, <2>3
<1>4. FewLost' /\ CertsBacked'
  BY MoreSigners DEF IInv, FewLost, Sign
<1> QED
  BY <1>1, <1>2, <1>3, <1>4 DEF IInv

\* A lost journal is counted.
LEMMA LoseJournalInv ==
  ASSUME IInv, NEW n \in Honest, LoseJournal(n)
  PROVE  IInv'
<1>1. TypeOK'
  BY DEF IInv, TypeOK, LoseJournal, routerVars, Unsigned, Tips
<1>2. AcksAccounted'
  BY DEF IInv, AcksAccounted, LoseJournal, routerVars
<1>3. AcksJournalled' /\ FewLost'
  BY DEF IInv, TypeOK, AcksJournalled, FewLost, LoseJournal
<1>4. CertsBacked'
  BY MoreSigners DEF IInv, LoseJournal
<1> QED
  BY <1>1, <1>2, <1>3, <1>4 DEF IInv

\* A new certificate has its quorum.
LEMMA CertifyInv ==
  ASSUME IInv, NEW h \in Heights, NEW d \in Resolutions, Certify(h, d)
  PROVE  IInv'
<1>1. TypeOK'
  BY DEF IInv, TypeOK, Certify, routerVars, nodeVars
<1>2. AcksAccounted' /\ AcksJournalled' /\ FewLost'
  BY DEF IInv, AcksAccounted, AcksJournalled, FewLost, Certify, routerVars, nodeVars
<1>3. CertsBacked'
  BY DEF IInv, CertsBacked, Certify, nodeVars, Signers
<1> QED
  BY <1>1, <1>2, <1>3 DEF IInv

\* A tip moves nothing else.
LEMMA LearnInv ==
  ASSUME IInv, NEW n \in Honest, Learn(n)
  PROVE  IInv'
<1>1. TypeOK'
  BY DEF IInv, TypeOK, Learn, routerVars, Heights, Tips
<1>2. AcksAccounted' /\ AcksJournalled' /\ FewLost'
  BY DEF IInv, AcksAccounted, AcksJournalled, FewLost, Learn, routerVars
<1>3. CertsBacked'
  BY DEF IInv, CertsBacked, Learn, Signers
<1> QED
  BY <1>1, <1>2, <1>3 DEF IInv

\* Every step keeps the invariant.
LEMMA NextInv == IInv /\ [Next]_vars => IInv'
<1> SUFFICES ASSUME IInv, [Next]_vars PROVE IInv'
  OBVIOUS
<1>1. CASE (\E h \in Heights, t \in Tasks : Announce(h, t)) \/ GiveUp \/ Release \/ RouterRestart
  BY <1>1, RouterInv
<1>2. CASE \E n \in Honest, h \in Heights, d \in Resolutions : Sign(n, h, d)
  BY <1>2, SignInv
<1>3. CASE \E n \in Honest : LoseJournal(n) \/ Learn(n)
  BY <1>3, LoseJournalInv, LearnInv
<1>4. CASE \E h \in Heights, d \in Resolutions : Certify(h, d)
  BY <1>4, CertifyInv
<1>5. CASE UNCHANGED vars
  BY <1>5 DEF vars, routerVars, nodeVars, IInv, TypeOK, AcksAccounted, AcksJournalled,
              FewLost, CertsBacked, Signers
<1> QED
  BY <1>1, <1>2, <1>3, <1>4, <1>5 DEF Next

\* The invariant holds in every behaviour.
THEOREM AggregationInvariance == Spec => []IInv
<1> QED
  BY InitInv, NextInv, PTL DEF Spec

\* Type correctness.
THEOREM AggregationTypes == Spec => []TypeOK
<1>1. IInv => TypeOK
  BY DEF IInv
<1> QED
  BY <1>1, AggregationInvariance, PTL

-----------------------------------------------------------------------------
(* One certificate per height.                                             *)

\* Two quorums share a node that is honest and kept its journal: it signed one
\* digest.
LEMMA Unique == IInv /\ FewLosses => OneCertificate
<1> SUFFICES ASSUME IInv, FewLosses, NEW h \in Heights,
                    NEW d \in Resolutions, NEW e \in Resolutions,
                    <<h, d>> \in certs, <<h, e>> \in certs
             PROVE  d = e
  BY DEF OneCertificate
<1> DEFINE S == Signers(h, d) \cup Faulty
           T == Signers(h, e) \cup Faulty
           B == Faulty \cup lost
<1>1. S \in SUBSET Nodes /\ T \in SUBSET Nodes
  BY DEF Signers, Honest
<1>2. Cardinality(S) >= Quorum /\ Cardinality(T) >= Quorum
  BY DEF IInv, CertsBacked
<1>3. IsFiniteSet(lost)
  BY FS_Subset DEF IInv, TypeOK, Honest
<1>4. IsFiniteSet(B) /\ Cardinality(B) <= MaxFaults
  <2>1. /\ IsFiniteSet(B)
        /\ Cardinality(B) = Cardinality(Faulty) + Cardinality(lost) - Cardinality(Faulty \cap lost)
    BY <1>3, Sizes, FS_Union
  <2>2. Cardinality(lost) \in Nat /\ Cardinality(Faulty \cap lost) \in Nat
    BY <1>3, FS_CardinalityType, FS_Intersection, Sizes
  <2>3. Cardinality(lost) <= MaxLosses
    BY DEF IInv, FewLost
  <2> HIDE DEF B
  <2> QED
    BY <2>1, <2>2, <2>3, Sizes DEF FewLosses
<1>5. PICK p \in S \cap T : p \notin B
  <2> HIDE DEF S, T, B
  <2> QED
    BY <1>1, <1>2, <1>4, QuorumsMeet
<1>6. p \in Honest \ lost /\ <<p, h, d>> \in acks /\ <<p, h, e>> \in acks
  BY <1>5 DEF Signers
<1> QED
  BY <1>6 DEF IInv, AcksJournalled

\* No height gets two certificates while the faulty participants and the lost
\* journals together are at most (n-1)/3.
THEOREM CertificatesUnique ==
  ASSUME FewLosses
  PROVE  Spec => []OneCertificate
<1>1. IInv => OneCertificate
  BY Unique
<1> QED
  BY <1>1, AggregationInvariance, PTL

-----------------------------------------------------------------------------
(* The ledger.                                                             *)

\* A certified height's digest is that of its certificate.
DigestsCertified ==
    \A h \in Heights, d \in Resolutions : <<h, d>> \in certs => CertifiedDigest(h) = d

LEMMA DigestOfCertificate == OneCertificate => DigestsCertified
BY DEF OneCertificate, DigestsCertified, CertifiedDigest, Certified

\* Every certificate is accounted for.
LEMMA SignedIsAccounted ==
  ASSUME IInv, NEW h \in Heights, NEW d \in Resolutions,
         Cardinality(Signers(h, d) \cup Faulty) >= Quorum
  PROVE  Ledger!Accounted(out, h, d)
BY HonestSigner DEF IInv, AcksAccounted

\* Steps that form no certificate leave the ledger alone; those of the router
\* broadcast at most one directive.
LEMMA QuietStep ==
  ASSUME UNCHANGED certs,
         out' = out \/ \E x \in Directives : out' = out \cup {x}
  PROVE  [Ledger!Next]_(Ledger!vars)
<1>1. [h \in Heights |-> CertifiedDigest(h)]' = [h \in Heights |-> CertifiedDigest(h)]
  BY DEF CertifiedDigest, Certified
<1>2. Directives = Ledger!Directives
  BY DEF Directives, Ledger!Directives, Heights, Ledger!Heights, Resolutions, Ledger!Resolutions
<1> QED
  BY <1>1, <1>2 DEF Ledger!Next, Ledger!Broadcast, Ledger!vars

\* Forming a certificate certifies the height in the ledger, or repeats one.
LEMMA CertifyStep ==
  ASSUME IInv, IInv', FewLosses, NEW h \in Heights, NEW d \in Resolutions, Certify(h, d)
  PROVE  [Ledger!Next]_(Ledger!vars)
<1> DEFINE L == [k \in Heights |-> CertifiedDigest(k)]
<1>1. OneCertificate' /\ DigestsCertified /\ DigestsCertified'
  <2>1. OneCertificate /\ OneCertificate'
    BY Unique, PTL
  <2> QED
    BY <2>1, DigestOfCertificate, PTL
<1>2. certs' = certs \cup {<<h, d>>} /\ out' = out
  BY DEF Certify, routerVars
<1>3. CASE Certified(h)
  <2>1. PICK e \in Resolutions : <<h, e>> \in certs
    BY <1>3 DEF Certified
  <2>2. d = e
    BY <1>1, <1>2, <2>1 DEF OneCertificate
  <2>3. UNCHANGED certs
    BY <1>2, <2>1, <2>2
  <2> QED
    BY <1>2, <2>3, QuietStep
<1>4. CASE ~Certified(h)
  <2>1. CertifiedDigest(h) = None
    BY <1>4 DEF CertifiedDigest
  <2>2. CertifiedDigest(h)' = d
    BY <1>1, <1>2 DEF DigestsCertified
  <2>3. ASSUME NEW k \in Heights, k # h
        PROVE  CertifiedDigest(k)' = CertifiedDigest(k)
    <3>1. CASE Certified(k)
      <4>1. PICK e \in Resolutions : <<k, e>> \in certs
        BY <3>1 DEF Certified
      <4> QED
        BY <1>1, <1>2, <4>1 DEF DigestsCertified
    <3>2. CASE ~Certified(k)
      <4>1. ~Certified(k)'
        BY <1>2, <2>3, <3>2 DEF Certified
      <4> QED
        BY <3>2, <4>1 DEF CertifiedDigest
    <3> QED
      BY <3>1, <3>2
  <2>4. L' = [L EXCEPT ![h] = d] /\ L[h] = None
    BY <2>1, <2>2, <2>3
  <2>5. Ledger!Accounted(out, h, d)
    BY SignedIsAccounted DEF Certify
  <2>6. Ledger!Certify(h, d)
    BY <1>2, <2>4, <2>5 DEF Ledger!Certify
  <2>7. Heights = Ledger!Heights /\ Resolutions = Ledger!Resolutions
    BY DEF Heights, Ledger!Heights, Resolutions, Ledger!Resolutions
  <2> QED
    BY <2>6, <2>7 DEF Ledger!Next
<1> QED
  BY <1>3, <1>4

\* Every step is one of the ledger's or leaves it unchanged.
LEMMA LedgerStep ==
  ASSUME IInv, IInv', FewLosses, [Next]_vars
  PROVE  [Ledger!Next]_(Ledger!vars)
<1>1. CASE (\E h \in Heights, t \in Tasks : Announce(h, t)) \/ GiveUp \/ Release \/ RouterRestart
  <2>1. UNCHANGED certs
    BY <1>1 DEF Announce, GiveUp, Release, RouterRestart
  <2>2. out' = out \/ \E x \in Directives : out' = out \cup {x}
    <3>1. CASE \E h \in Heights, t \in Tasks : Announce(h, t)
      BY <3>1 DEF Announce, Directives, Resolutions
    <3>2. CASE GiveUp
      BY <3>2 DEF GiveUp, Directives, Resolutions, IInv, TypeOK
    <3>3. CASE Release \/ RouterRestart
      BY <3>3 DEF Release, RouterRestart
    <3> QED
      BY <1>1, <3>1, <3>2, <3>3
  <2> QED
    BY <2>1, <2>2, QuietStep
<1>2. CASE \E n \in Honest, h \in Heights, d \in Resolutions : Sign(n, h, d)
  BY <1>2, QuietStep DEF Sign, routerVars
<1>3. CASE \E n \in Honest : LoseJournal(n) \/ Learn(n)
  BY <1>3, QuietStep DEF LoseJournal, Learn, routerVars
<1>4. CASE \E h \in Heights, d \in Resolutions : Certify(h, d)
  BY <1>4, CertifyStep
<1>5. CASE UNCHANGED vars
  BY <1>5, QuietStep DEF vars, routerVars
<1> QED
  BY <1>1, <1>2, <1>3, <1>4, <1>5 DEF Next

\* The operators implement the ledger of certified digests.
THEOREM RefinesLedger ==
  ASSUME FewLosses
  PROVE  Spec => ImplementsLedger
<1>1. Init => Ledger!Init
  BY DEF Init, Ledger!Init, CertifiedDigest, Certified, Heights, Ledger!Heights
<1>2. IInv /\ IInv' /\ [Next]_vars => [Ledger!Next]_(Ledger!vars)
  BY LedgerStep
<1> QED
  BY <1>1, <1>2, AggregationInvariance, PTL DEF Spec, ImplementsLedger, Ledger!Spec
=============================================================================
