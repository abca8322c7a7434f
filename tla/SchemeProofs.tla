---------------------------- MODULE SchemeProofs ----------------------------
(***************************************************************************)
(* For every set of operators, every fault and every history of the        *)
(* registry: the router's pool holds genuine attestations, a certificate   *)
(* that verifies means a quorum of signers, what the router assembles      *)
(* verifies at every process that read the same registry, and a correct    *)
(* operator is blocked only by a router that read another one.             *)
(***************************************************************************)
EXTENDS Scheme, CommonLemmas, FiniteSetTheorems

USE SchemeAssumption

-----------------------------------------------------------------------------
(* Points.                                                                 *)

\* A point of distinct products tells which they are.
LEMMA BagTells == ASSUME NEW S, NEW T, SetToBag(S) = SetToBag(T) PROVE S = T
BY DEF SetToBag

\* One more product.
LEMMA BagAdds ==
    ASSUME NEW S, NEW x, x \notin S
    PROVE  SetToBag(S) (+) SetToBag({x}) = SetToBag(S \cup {x})
BY DEF SetToBag, (+)

\* The partial sums of points of one product each, all different.
Products(p, n) == {p[i] : i \in 1 .. n}
PartialSum(p, n) == [i \in 0 .. n |-> SetToBag({p[j] : j \in 1 .. i})]

LEMMA PartialSumStep ==
    ASSUME NEW n \in Nat, NEW p, \A i, j \in 1 .. n : p[i] = p[j] => i = j,
           NEW i \in 1 .. n
    PROVE  PartialSum(p, n)[i] = PartialSum(p, n)[i - 1] (+) SetToBag({p[i]})
<1> DEFINE before == {p[j] : j \in 1 .. i - 1}
<1>1. i - 1 \in 0 .. n /\ i \in 0 .. n
  OBVIOUS
<1>2. {p[j] : j \in 1 .. i} = before \cup {p[i]}
  <2>1. 1 .. i = (1 .. i - 1) \cup {i}
    OBVIOUS
  <2> QED
    BY <2>1
<1>3. p[i] \notin before
  <2> SUFFICES ASSUME NEW j \in 1 .. i - 1, p[j] = p[i] PROVE FALSE
    OBVIOUS
  <2>1. j \in 1 .. n /\ j # i
    OBVIOUS
  <2> QED
    BY <2>1
<1>4. SetToBag(before) (+) SetToBag({p[i]}) = SetToBag(before \cup {p[i]})
  BY <1>3, BagAdds
<1> QED
  BY <1>1, <1>2, <1>4 DEF PartialSum

\* A list of n points, each of one product, all different.
SinglePoints(s, p, n) ==
    /\ Len(s) = n
    /\ \A i, j \in 1 .. n : p[i] = p[j] => i = j
    /\ \A i \in 1 .. n : s[i] = SetToBag({p[i]})

\* The points of different products add up to the point of them all.
LEMMA SumOfSingles ==
    ASSUME NEW n \in Nat, NEW s, NEW p, SinglePoints(s, p, n)
    PROVE  AggregateSignatures(s) = SetToBag(Products(p, n))
<1> USE DEF SinglePoints
<1> DEFINE Step(f) == [i \in 0 .. n |-> IF i = 0 THEN Identity ELSE f[i - 1] (+) s[i]]
           g == PartialSum(p, n)
<1>1. g = Step(g)
  <2>1. g = [i \in 0 .. n |-> g[i]]
    BY DEF PartialSum
  <2>2. ASSUME NEW i \in 0 .. n
        PROVE  g[i] = IF i = 0 THEN Identity ELSE g[i - 1] (+) s[i]
    <3>1. CASE i = 0
      <4>1. g[0] = SetToBag({p[j] : j \in 1 .. 0})
        BY <2>2 DEF PartialSum
      <4>2. {p[j] : j \in 1 .. 0} = {}
        OBVIOUS
      <4> QED
        BY <3>1, <4>1, <4>2 DEF Identity, EmptyBag
    <3>2. CASE i # 0
      <4>1. i \in 1 .. n
        BY <3>2
      <4> HIDE DEF g
      <4>2. g[i] = g[i - 1] (+) SetToBag({p[i]})
        BY <4>1, PartialSumStep DEF g
      <4> QED
        BY <3>2, <4>1, <4>2
    <3> QED
      BY <3>1, <3>2
  <2> HIDE DEF g
  <2> QED
    BY <2>1, <2>2
<1>2. ASSUME NEW f, f = Step(f) PROVE f[n] = g[n]
  <2> DEFINE differ == {i \in 0 .. n : f[i] # g[i]}
  <2> HIDE DEF g
  <2>1. SUFFICES ASSUME differ # {} PROVE FALSE
    BY <2>1
  <2>2. PICK i \in differ : \A j \in differ : i <= j
    <3>1. differ \subseteq Nat
      OBVIOUS
    <3> HIDE DEF differ
    <3> QED
      BY <2>1, <3>1, LeastElement
  <2>3. i \in 0 .. n /\ f[i] # g[i]
    BY <2>2
  <2>4. CASE i = 0
    <3>1. f[0] = Identity /\ g[0] = Identity
      BY <1>1, <1>2
    <3> QED
      BY <2>3, <2>4, <3>1
  <2>5. CASE i # 0
    <3>1. i - 1 \in 0 .. n /\ ~(i <= i - 1)
      BY <2>3, <2>5
    <3>2. i - 1 \notin differ
      BY <2>2, <3>1
    <3>3. f[i - 1] = g[i - 1]
      BY <3>1, <3>2
    <3>4. f[i] = f[i - 1] (+) s[i]
      BY <1>2, <2>3, <2>5
    <3>5. g[i] = g[i - 1] (+) s[i]
      BY <1>1, <2>3, <2>5
    <3> QED
      BY <2>3, <3>3, <3>4, <3>5
  <2> QED
    BY <2>4, <2>5
<1>3. \E f : f = Step(f) /\ AggregateSignatures(s) = f[n]
  <2> HIDE DEF g
  <2> QED
    BY <1>1 DEF AggregateSignatures
<1>4. AggregateSignatures(s) = g[n]
  <2> HIDE DEF Step, g
  <2> QED
    BY <1>2, <1>3
<1> QED
  BY <1>4 DEF PartialSum, Products

-----------------------------------------------------------------------------
(* Participants and their indices.                                         *)

\* Every participant has an index of its own, and every index its participant.
LEMMA Indexed ==
    ASSUME NEW ps \in SUBSET Operators
    PROVE  /\ IsFiniteSet(ps) /\ Cardinality(ps) \in Nat
           /\ \A k \in ps : Index(ps, k) \in Indices(ps)
           /\ \A k, l \in ps : Index(ps, k) = Index(ps, l) => k = l
           /\ \A i \in Indices(ps) : \E k \in ps : Index(ps, k) = i
<1> DEFINE n == Cardinality(ps)
           Below(k) == {l \in ps : l < k}
<1>1. IsFiniteSet(ps) /\ n \in Nat /\ ps \subseteq Nat
  BY FS_Subset, FS_CardinalityType
<1>2. ASSUME NEW k \in ps PROVE Index(ps, k) \in 0 .. n - 1
  <2>1. /\ IsFiniteSet(ps \ {k}) /\ Cardinality(ps \ {k}) = n - 1
    BY <1>1, FS_RemoveElement
  <2>2. Below(k) \subseteq ps \ {k}
    BY <1>1
  <2> HIDE DEF Below
  <2>3. IsFiniteSet(Below(k)) /\ Cardinality(Below(k)) <= n - 1
    BY <2>1, <2>2, FS_Subset
  <2>4. Cardinality(Below(k)) \in Nat
    BY <2>3, FS_CardinalityType
  <2>5. Cardinality(Below(k)) \in 0 .. n - 1
    BY <1>1, <2>3, <2>4
  <2> QED
    BY <2>5 DEF Index, Below
<1>3. ASSUME NEW k \in ps, NEW l \in ps, k < l PROVE Index(ps, k) < Index(ps, l)
  <2>1. Below(k) \subseteq Below(l) /\ k \in Below(l) /\ k \notin Below(k)
    <3>1. k \in Nat /\ l \in Nat /\ \A x \in ps : x \in Nat
      BY <1>1
    <3>2. ASSUME NEW x \in ps, x < k PROVE x < l
      BY <1>3, <3>1, <3>2
    <3>3. ~(k < k)
      BY <3>1
    <3> QED
      BY <1>3, <3>2, <3>3
  <2>2. Below(k) \subseteq ps /\ Below(l) \subseteq ps
    OBVIOUS
  <2> HIDE DEF Below
  <2>3. IsFiniteSet(Below(l)) /\ IsFiniteSet(Below(k))
    BY <1>1, <2>2, FS_Subset
  <2>4. /\ Cardinality(Below(k)) <= Cardinality(Below(l))
        /\ Cardinality(Below(l)) = Cardinality(Below(k)) => Below(l) = Below(k)
    <3>1. Below(k) \in SUBSET Below(l)
      BY <2>1
    <3> QED
      BY <2>3, <3>1, FS_Subset
  <2>5. Cardinality(Below(k)) \in Nat /\ Cardinality(Below(l)) \in Nat
    BY <2>3, FS_CardinalityType
  <2>6. Cardinality(Below(k)) < Cardinality(Below(l))
    BY <2>1, <2>4, <2>5
  <2> QED
    BY <2>6 DEF Index, Below
<1>4. ASSUME NEW k \in ps, NEW l \in ps, Index(ps, k) = Index(ps, l) PROVE k = l
  <2>1. k \in Nat /\ l \in Nat /\ Index(ps, k) \in Nat
    BY <1>1, <1>2
  <2>2. ~(k < l) /\ ~(l < k)
    BY <1>3, <1>4, <2>1
  <2> QED
    BY <2>1, <2>2
<1>5. ASSUME NEW i \in 0 .. n - 1 PROVE \E k \in ps : Index(ps, k) = i
  <2> DEFINE f == [k \in ps |-> Index(ps, k)]
  <2>1. f \in Injection(ps, 0 .. n - 1)
    BY <1>2, <1>4 DEF Injection, IsInjective
  <2>2. IsFiniteSet(0 .. n - 1) /\ Cardinality(0 .. n - 1) = n
    BY <1>1, FS_Interval
  <2> HIDE DEF f
  <2>3. f \in Surjection(ps, 0 .. n - 1)
    BY <2>1, <2>2, FS_Injection
  <2>4. PICK k \in ps : f[k] = i
    BY <2>3 DEF Surjection
  <2> QED
    BY <2>4 DEF f
<1> QED
  BY <1>1, <1>2, <1>4, <1>5 DEF Indices

\* A set of indices stands for as many participants.
LEMMA AsManySigners ==
    ASSUME NEW ps \in SUBSET Operators, NEW signers \in SUBSET Indices(ps)
    PROVE  /\ IsFiniteSet(SignerKeys(ps, signers))
           /\ Cardinality(SignerKeys(ps, signers)) = Cardinality(signers)
<1> DEFINE keys == SignerKeys(ps, signers)
           f == [k \in keys |-> Index(ps, k)]
<1>1. keys \subseteq ps /\ IsFiniteSet(keys)
  BY Indexed, FS_Subset DEF SignerKeys
<1>2. f \in [keys -> signers]
  BY DEF SignerKeys
<1>3. IsInjective(f)
  <2>1. \A k, l \in ps : Index(ps, k) = Index(ps, l) => k = l
    BY Indexed
  <2> HIDE DEF keys
  <2>2. \A k, l \in keys : Index(ps, k) = Index(ps, l) => k = l
    BY <1>1, <2>1
  <2> QED
    BY <2>2 DEF IsInjective
<1>4. ASSUME NEW i \in signers PROVE \E k \in keys : f[k] = i
  <2>1. PICK k \in ps : Index(ps, k) = i
    BY Indexed
  <2> QED
    BY <2>1 DEF SignerKeys
<1> HIDE DEF f, keys
<1>5. f \in Bijection(keys, signers)
  BY <1>2, <1>3, <1>4 DEF Bijection, Injection, Surjection
<1>6. Cardinality(signers) = Cardinality(keys)
  BY <1>1, <1>5, FS_Bijection DEF ExistsBijection
<1> QED
  BY <1>1, <1>6 DEF keys

-----------------------------------------------------------------------------
(* The inductive invariant.                                                *)

\* The strengthening.  Two processes that read the registry between the same
\* two changes have the same participants; what the pool holds is the signature
\* its signer makes of its digest, one for each index.
ViewsAgree ==
    /\ \A p \in Processes : view[p] # {} =>
         /\ readAt[p] <= changes
         /\ readAt[p] = changes => view[p] = registered
    /\ \A p, q \in Processes :
         view[p] # {} /\ view[q] # {} /\ readAt[p] = readAt[q] => view[p] = view[q]
SignedBy(ps, k, a) == k \in ps /\ a.att = SchemeSign(ps, k, a.digest)
Pooled ==
    \A a \in pool :
        /\ a = [digest |-> a.digest, att |-> a.att] /\ a.digest \in Digests
        /\ \E k \in view[Router] :
             SignedBy(view[Router], k, a) /\ (k \in Correct => signed[k] = a.digest)
OnePerSigner == \A a, b \in pool : a.att.signer = b.att.signer => a = b
IInv == SchemeTypeOK /\ ViewsAgree /\ Pooled /\ OnePerSigner

\* The participants of a process are operators.
LEMMA ViewOperators ==
    ASSUME SchemeTypeOK, NEW p \in Processes
    PROVE  view[p] \in SUBSET Operators
BY DEF SchemeTypeOK

\* The router is a process.
LEMMA RouterProcess == Router \in Processes
BY DEF Processes

\* What a participant signs is a point, and verifies.
LEMMA SignedVerifies ==
    ASSUME NEW ps \in SUBSET Operators, NEW k \in ps, NEW d \in Digests
    PROVE  VerifyAttestation(ps, d, SchemeSign(ps, k, d))
<1> DEFINE att == SchemeSign(ps, k, d)
<1>1. {k} \X {Raw(d)} = {<<k, Raw(d)>>}
  OBVIOUS
<1>2. att.signer = Index(ps, k) /\ att.signature = SetToBag({k} \X {Raw(d)})
  BY <1>1 DEF SchemeSign, SignDigest
<1>3. att.signer \in Indices(ps)
  BY <1>2, Indexed
<1>4. DecodesSignature(att.signature)
  <2>1. {k} \in SUBSET Operators
    OBVIOUS
  <2>2. SetToBag({k} \X {Raw(d)}) # Garbage
    BY <2>1
  <2>3. SetToBag({k} \X {Raw(d)}) # Identity
    <3>1. <<k, Raw(d)>> \in {k} \X {Raw(d)}
      OBVIOUS
    <3> QED
      BY <3>1, BagTells DEF Identity, EmptyBag
  <2> QED
    BY <1>2, <2>2, <2>3 DEF DecodesSignature
<1>5. VerifyDigest(k, d, att.signature)
  BY <1>2 DEF VerifyDigest, Pairing
<1> QED
  BY <1>2, <1>3, <1>4, <1>5 DEF VerifyAttestation

\* An attestation of one summand verifies only if it is what the participant of
\* its index signs.
LEMMA VerifiedSingle ==
    ASSUME NEW ps \in SUBSET Operators, NEW d \in Digests, NEW i, NEW x,
           VerifyAttestation(ps, d, [signer |-> i, signature |-> SetToBag({x})])
    PROVE  \E k \in ps : /\ x = <<k, Raw(d)>>
                         /\ [signer |-> i, signature |-> SetToBag({x})] = SchemeSign(ps, k, d)
<1>1. PICK k \in ps : Index(ps, k) = i /\ SetToBag({x}) = SetToBag({k} \X {Raw(d)})
  BY DEF VerifyAttestation, VerifyDigest, Pairing
<1>2. {x} = {k} \X {Raw(d)}
  BY <1>1, BagTells
<1>3. x = <<k, Raw(d)>>
  BY <1>2
<1> QED
  BY <1>1, <1>3 DEF SchemeSign, SignDigest

\* A correct operator's existing product under a bare digest is its ack.
LEMMA ExistingBare ==
    ASSUME NEW k \in Correct, NEW d \in Digests, <<k, Raw(d)>> \in Existing
    PROVE  signed[k] = d
<1>1. ASSUME NEW m \in Greetings, <<k, Raw(d)>> = Signing(k, ApplicationNamespace, m)
      PROVE  FALSE
  <2>1. Signing(k, ApplicationNamespace, m)[2].hashed = TRUE
    BY DEF Signing, Payload, ApplicationNamespace, NoNamespace
  <2>2. Raw(d).hashed = FALSE
    BY DEF Raw
  <2> QED
    BY <1>1, <2>1, <2>2 DEF Signing
<1>2. ASSUME NEW c \in Correct, NEW m \in Greetings,
             <<k, Raw(d)>> = Signing(c, ApplicationNamespace, m)
      PROVE  c = k
  BY <1>2 DEF Signing
<1>3. ASSUME NEW c \in Correct, <<k, Raw(d)>> = <<c, Raw(signed[c])>>
      PROVE  signed[k] = d
  <2>1. c = k /\ Raw(d).message = Raw(signed[c]).message
    BY <1>3
  <2> QED
    BY <2>1 DEF Raw
<1>4. k \notin FaultyKeys
  BY DEF Correct
<1>5. \/ \E c \in Correct : <<k, Raw(d)>> = <<c, Raw(signed[c])>>
      \/ \E c \in Correct, m \in Greetings :
            <<k, Raw(d)>> = Signing(c, ApplicationNamespace, m)
  BY <1>4 DEF Existing
<1> QED
  BY <1>1, <1>2, <1>3, <1>5

-----------------------------------------------------------------------------
(* The invariant holds at the start and each action keeps it.              *)

\* Every process starts down, nothing is signed and the pool is empty.
LEMMA InitInv == SchemeInit => IInv
<1> SUFFICES ASSUME SchemeInit PROVE IInv
  OBVIOUS
<1>1. SchemeTypeOK
  BY DEF SchemeInit, SchemeTypeOK
<1>2. \A p \in Processes : view[p] = {}
  BY DEF SchemeInit
<1> QED
  BY <1>1, <1>2 DEF SchemeInit, IInv, ViewsAgree, Pooled, OnePerSigner

\* A change of the registry leaves every view of it behind.
LEMMA RegistryChangesInv ==
    ASSUME IInv, NEW k \in Operators, RegistryChanges(k)
    PROVE  IInv'
<1>1. registered' \subseteq Operators /\ registered' # {}
  BY DEF RegistryChanges, IInv, SchemeTypeOK
<1>2. changes \in 0 .. MaxChanges /\ changes' = changes + 1 /\ changes' \in 0 .. MaxChanges
  BY DEF RegistryChanges, IInv, SchemeTypeOK
<1>3. UNCHANGED <<view, readAt, starts, signed, pool, blocked>>
  BY DEF RegistryChanges
<1>4. SchemeTypeOK'
  BY <1>1, <1>2, <1>3 DEF IInv, SchemeTypeOK
<1>5. ViewsAgree'
  <2>1. ASSUME NEW p \in Processes, view[p] # {}
        PROVE  readAt[p] <= changes' /\ readAt[p] # changes'
    <3>1. readAt[p] \in Int /\ readAt[p] <= changes
      BY <2>1 DEF IInv, SchemeTypeOK, ViewsAgree
    <3> QED
      BY <1>2, <3>1
  <2> QED
    BY <1>3, <2>1 DEF IInv, ViewsAgree
<1> QED
  BY <1>3, <1>4, <1>5 DEF IInv, Pooled, OnePerSigner, SignedBy

\* A process that starts reads the registry as it is.
LEMMA StartedViews ==
    ASSUME IInv, NEW p \in Processes, Started(p, registered), CanStart
    PROVE  /\ ViewsAgree'
           /\ view' \in [Processes -> SUBSET Operators]
           /\ readAt' \in [Processes -> 0 .. MaxChanges]
           /\ starts' \in 0 .. MaxStarts
<1>1. /\ view \in [Processes -> SUBSET Operators]
      /\ readAt \in [Processes -> 0 .. MaxChanges]
      /\ registered \subseteq Operators /\ changes \in 0 .. MaxChanges
      /\ starts \in 0 .. MaxStarts
  BY DEF IInv, SchemeTypeOK
<1>2. /\ view' = [view EXCEPT ![p] = registered]
      /\ readAt' = [readAt EXCEPT ![p] = changes]
      /\ changes' = changes /\ registered' = registered
      /\ starts' = starts + 1 /\ starts < MaxStarts
  BY DEF Started, CanStart
<1>3. ASSUME NEW q \in Processes
      PROVE  /\ q = p => view'[q] = registered /\ readAt'[q] = changes
             /\ q # p => view'[q] = view[q] /\ readAt'[q] = readAt[q]
  BY <1>1, <1>2
<1>4. ASSUME NEW q \in Processes, view'[q] # {}
      PROVE  /\ readAt'[q] <= changes
             /\ readAt'[q] = changes => view'[q] = registered
  <2>1. CASE q = p
    BY <1>1, <1>3, <2>1
  <2>2. CASE q # p
    BY <1>3, <1>4, <2>2 DEF IInv, ViewsAgree
  <2> QED
    BY <2>1, <2>2
<1>5. ASSUME NEW q \in Processes, NEW r \in Processes,
             view'[q] # {}, view'[r] # {}, readAt'[q] = readAt'[r]
      PROVE  view'[q] = view'[r]
  <2>1. CASE q = p \/ r = p
    BY <1>3, <1>4, <1>5, <2>1
  <2>2. CASE q # p /\ r # p
    BY <1>3, <1>5, <2>2 DEF IInv, ViewsAgree
  <2> QED
    BY <2>1, <2>2
<1> QED
  BY <1>1, <1>2, <1>4, <1>5 DEF ViewsAgree

\* A node that starts changes no view but its own.
LEMMA StartNodeInv ==
    ASSUME IInv, NEW k \in Operators, NEW unknown, StartNode(k, unknown)
    PROVE  IInv'
<1>1. /\ Started(k, registered) /\ CanStart
      /\ UNCHANGED <<registered, changes, signed, pool, blocked>>
  BY DEF StartNode, OperatorSet, Started
<1>2. k \in Processes /\ k # Router
  BY DEF Processes
<1>3. /\ ViewsAgree'
      /\ view' \in [Processes -> SUBSET Operators]
      /\ readAt' \in [Processes -> 0 .. MaxChanges]
      /\ starts' \in 0 .. MaxStarts
  BY <1>1, <1>2, StartedViews
<1>4. view'[Router] = view[Router]
  BY <1>1, <1>2 DEF Started, IInv, SchemeTypeOK, Processes
<1>5. SchemeTypeOK'
  BY <1>1, <1>3, <1>4 DEF IInv, SchemeTypeOK
<1>6. Pooled' /\ OnePerSigner'
  BY <1>1, <1>4 DEF IInv, Pooled, OnePerSigner, SignedBy
<1> QED
  BY <1>3, <1>5, <1>6 DEF IInv

\* A router that starts holds nothing.
LEMMA StartRouterInv ==
    ASSUME IInv, NEW unknown, StartRouter(unknown)
    PROVE  IInv'
<1>1. /\ Started(Router, registered) /\ CanStart
      /\ UNCHANGED <<registered, changes, signed>>
      /\ pool' = {} /\ blocked' = {}
  BY DEF StartRouter, OperatorSet, Started
<1>2. /\ ViewsAgree'
      /\ view' \in [Processes -> SUBSET Operators]
      /\ readAt' \in [Processes -> 0 .. MaxChanges]
      /\ starts' \in 0 .. MaxStarts
  BY <1>1, RouterProcess, StartedViews
<1>3. SchemeTypeOK'
  BY <1>1, <1>2 DEF IInv, SchemeTypeOK
<1> QED
  BY <1>1, <1>2, <1>3 DEF IInv, Pooled, OnePerSigner

\* An operator signs once.
LEMMA SignAckInv ==
    ASSUME IInv, NEW k \in Correct, NEW d \in Digests, SignAck(k, d)
    PROVE  IInv'
<1>1. /\ signed[k] = NotSigned /\ signed' = [signed EXCEPT ![k] = d]
      /\ UNCHANGED <<registered, changes, view, readAt, starts, pool, blocked>>
  BY DEF SignAck
<1>2. signed \in [Correct -> Digests \cup {NotSigned}]
  BY DEF IInv, SchemeTypeOK
<1>3. SchemeTypeOK'
  BY <1>1, <1>2 DEF IInv, SchemeTypeOK
<1>4. \A l \in Correct, e \in Digests : signed[l] = e => signed'[l] = e
  BY <1>1, <1>2
<1>5. Pooled'
  <2> SUFFICES ASSUME NEW a \in pool
               PROVE  /\ a = [digest |-> a.digest, att |-> a.att] /\ a.digest \in Digests
                      /\ \E l \in view[Router] :
                           /\ SignedBy(view[Router], l, a)
                           /\ l \in Correct => signed'[l] = a.digest
    BY <1>1 DEF Pooled, SignedBy
  <2> QED
    BY <1>4 DEF IInv, Pooled
<1> QED
  BY <1>1, <1>3, <1>5 DEF IInv, ViewsAgree, OnePerSigner

\* What the pool takes was signed by the operator of its index, and is the first
\* of that index.
LEMMA ReceiveAckInv ==
    ASSUME IInv, NEW k \in Operators, NEW d \in Digests, NEW att, ReceiveAck(k, d, att),
           VerifyAttestation(view[Router], d, att) =>
              \E l \in view[Router] : /\ att = SchemeSign(view[Router], l, d)
                                      /\ l \in Correct => signed[l] = d
    PROVE  IInv'
<1> DEFINE new == [digest |-> d, att |-> att]
<1>1. UNCHANGED <<registered, changes, view, readAt, starts, signed>>
  BY DEF ReceiveAck
<1>2. CASE VerifyAttestation(view[Router], d, att)
  <2>1. pool' = pool \cup {new} /\ blocked' = blocked
    BY <1>2 DEF ReceiveAck
  <2>2. att.signer \in Indices(view[Router])
    BY <1>2 DEF VerifyAttestation
  <2>3. SchemeTypeOK'
    BY <1>1, <2>1, <2>2 DEF IInv, SchemeTypeOK
  <2>4. Pooled'
    <3>1. /\ new = [digest |-> new.digest, att |-> new.att] /\ new.digest \in Digests
          /\ \E l \in view[Router] :
               SignedBy(view[Router], l, new) /\ (l \in Correct => signed[l] = new.digest)
      BY <1>2 DEF SignedBy
    <3> HIDE DEF new
    <3> QED
      BY <1>1, <2>1, <3>1 DEF IInv, Pooled, SignedBy
  <2>5. OnePerSigner'
    <3>1. \A a \in pool : a.att.signer # new.att.signer
      BY DEF ReceiveAck
    <3> HIDE DEF new
    <3> QED
      BY <2>1, <3>1 DEF IInv, OnePerSigner
  <2> QED
    BY <1>1, <2>3, <2>4, <2>5 DEF IInv, ViewsAgree
<1>3. CASE ~VerifyAttestation(view[Router], d, att)
  <2>1. blocked' = blocked \cup {k} /\ pool' = pool
    BY <1>3 DEF ReceiveAck
  <2>2. SchemeTypeOK'
    BY <1>1, <2>1 DEF IInv, SchemeTypeOK
  <2> QED
    BY <1>1, <2>1, <2>2 DEF IInv, ViewsAgree, Pooled, OnePerSigner, SignedBy
<1> QED
  BY <1>2, <1>3

\* A correct operator's ack that verifies here carries the index it has here.
LEMMA CorrectAckInv ==
    ASSUME IInv, NEW k \in Correct, CorrectAck(k)
    PROVE  IInv'
<1> DEFINE d == signed[k]
           att == SchemeSign(view[k], k, d)
<1>1. k \in Operators /\ d \in Digests
  BY DEF CorrectAck, Correct, IInv, SchemeTypeOK
<1>2. ReceiveAck(k, d, att)
  BY DEF CorrectAck
<1>3. view[Router] \in SUBSET Operators
  BY RouterProcess, ViewOperators DEF IInv
<1>4. ASSUME VerifyAttestation(view[Router], d, att)
      PROVE  \E l \in view[Router] : /\ att = SchemeSign(view[Router], l, d)
                                     /\ l \in Correct => signed[l] = d
  <2>1. att = [signer |-> Index(view[k], k), signature |-> SetToBag({<<k, Raw(d)>>})]
    BY DEF SchemeSign, SignDigest
  <2> HIDE DEF d
  <2>2. PICK l \in view[Router] :
            <<k, Raw(d)>> = <<l, Raw(d)>> /\ att = SchemeSign(view[Router], l, d)
    <3> HIDE DEF att
    <3> QED
      BY <1>1, <1>3, <1>4, <2>1, VerifiedSingle
  <2> QED
    BY <2>2 DEF d
<1> HIDE DEF d, att
<1> QED
  BY <1>1, <1>2, <1>4, ReceiveAckInv

\* A faulty operator's ack verifies only if it repeats what the operator of its
\* index signed, or is its own.
LEMMA FaultyAckInv ==
    ASSUME IInv, NEW k \in FaultyKeys, NEW d \in Digests, NEW i,
           NEW bytes \in {Garbage, Identity} \cup {SetToBag({s}) : s \in Existing},
           FaultyAck(k, d, i, bytes)
    PROVE  IInv'
<1> DEFINE att == [signer |-> i, signature |-> bytes]
<1>1. k \in Operators /\ ReceiveAck(k, d, att)
  BY DEF FaultyAck
<1>2. view[Router] \in SUBSET Operators
  BY RouterProcess, ViewOperators DEF IInv
<1>3. ASSUME VerifyAttestation(view[Router], d, att)
      PROVE  \E l \in view[Router] : /\ att = SchemeSign(view[Router], l, d)
                                     /\ l \in Correct => signed[l] = d
  <2>1. bytes # Garbage /\ bytes # Identity
    BY <1>3 DEF VerifyAttestation, DecodesSignature
  <2>2. PICK s \in Existing : bytes = SetToBag({s})
    BY <2>1
  <2>3. PICK l \in view[Router] :
            s = <<l, Raw(d)>> /\ att = SchemeSign(view[Router], l, d)
    <3>1. att = [signer |-> i, signature |-> SetToBag({s})]
      BY <2>2
    <3>2. VerifyAttestation(view[Router], d, [signer |-> i, signature |-> SetToBag({s})])
      BY <1>3, <3>1
    <3> HIDE DEF att
    <3> QED
      BY <1>2, <3>1, <3>2, VerifiedSingle
  <2> QED
    BY <2>2, <2>3, ExistingBare
<1> HIDE DEF att
<1> QED
  BY <1>1, <1>3, ReceiveAckInv

\* Every step keeps the invariant.
LEMMA NextInv == IInv /\ [SchemeNext]_schemeVars => IInv'
<1> SUFFICES ASSUME IInv, [SchemeNext]_schemeVars PROVE IInv'
  OBVIOUS
<1>1. ASSUME NEW k \in Operators, RegistryChanges(k) PROVE IInv'
  BY <1>1, RegistryChangesInv
<1>2. ASSUME NEW unknown, StartRouter(unknown) PROVE IInv'
  BY <1>2, StartRouterInv
<1>3. ASSUME NEW unknown, NEW k \in Operators, StartNode(k, unknown) PROVE IInv'
  BY <1>3, StartNodeInv
<1>4. ASSUME NEW k \in Correct, NEW d \in Digests, SignAck(k, d) PROVE IInv'
  BY <1>4, SignAckInv
<1>5. ASSUME NEW k \in Correct, CorrectAck(k) PROVE IInv'
  BY <1>5, CorrectAckInv
<1>6. ASSUME NEW k \in FaultyKeys, NEW d \in Digests, NEW i,
             NEW bytes \in {Garbage, Identity} \cup {SetToBag({s}) : s \in Existing},
             FaultyAck(k, d, i, bytes)
      PROVE  IInv'
  BY <1>6, FaultyAckInv
<1>7. CASE UNCHANGED schemeVars
  BY <1>7 DEF schemeVars, IInv, SchemeTypeOK, ViewsAgree, Pooled, OnePerSigner, SignedBy
<1> QED
  BY <1>1, <1>2, <1>3, <1>4, <1>5, <1>6, <1>7 DEF SchemeNext

\* The invariant of every behaviour.
THEOREM SchemeInvariance == SchemeSpec => []IInv
BY InitInv, NextInv, PTL DEF SchemeSpec

-----------------------------------------------------------------------------
(* What the pool assembles to.                                             *)

\* SetToSeq puts each element of a finite set at one place.
LEMMA SetToSeqBijection ==
    ASSUME NEW S, IsFiniteSet(S)
    PROVE  /\ SetToSeq(S) \in [1 .. Cardinality(S) -> S]
           /\ Len(SetToSeq(S)) = Cardinality(S) /\ Cardinality(S) \in Nat
           /\ \A i, j \in 1 .. Cardinality(S) : SetToSeq(S)[i] = SetToSeq(S)[j] => i = j
           /\ \A x \in S : \E i \in 1 .. Cardinality(S) : SetToSeq(S)[i] = x
<1> DEFINE n == Cardinality(S)
           s == SetToSeq(S)
<1>1. n \in Nat /\ ExistsBijection(1 .. n, S)
  BY FS_CardinalityType
<1>2. \E f \in [1 .. n -> S] : IsInjective(f)
  BY <1>1 DEF ExistsBijection, Bijection, Injection
<1>3. s \in [1 .. n -> S] /\ IsInjective(s)
  BY <1>2 DEF SetToSeq
<1> HIDE DEF s
<1>4. IsFiniteSet(1 .. n) /\ Cardinality(1 .. n) = n
  BY <1>1, FS_Interval
<1>5. s \in Injection(1 .. n, S)
  BY <1>3 DEF Injection
<1> HIDE DEF n
<1>6. s \in Surjection(1 .. n, S)
  BY <1>4, <1>5, FS_Injection DEF n
<1>7. \A x \in S : \E i \in 1 .. n : s[i] = x
  BY <1>6 DEF Surjection
<1>8. Len(s) = n
  BY <1>1, <1>3, FunctionSeq
<1>9. \A i, j \in 1 .. n : s[i] = s[j] => i = j
  BY <1>3 DEF IsInjective
<1> QED
  BY <1>1, <1>3, <1>7, <1>8, <1>9 DEF s, n

\* Genuine attestations of one digest, one of each participant.
Genuine(ps, d, atts) ==
    /\ \A att \in atts : \E k \in ps : att = SchemeSign(ps, k, d)
    /\ \A a, b \in atts : a.signer = b.signer => a = b
SignersOf(atts) == {att.signer : att \in atts}

\* They are as many as their signers.
LEMMA GenuineCount ==
    ASSUME NEW ps \in SUBSET Operators, NEW d \in Digests, NEW atts, Genuine(ps, d, atts)
    PROVE  /\ IsFiniteSet(atts)
           /\ SignersOf(atts) \in SUBSET Indices(ps)
           /\ Cardinality(SignersOf(atts)) = Cardinality(atts)
<1> DEFINE T == SignersOf(atts)
           f == [att \in atts |-> att.signer]
<1>1. T \subseteq Indices(ps)
  <2>1. ASSUME NEW att \in atts PROVE att.signer \in Indices(ps)
    BY Indexed DEF Genuine, SchemeSign
  <2> QED
    BY <2>1 DEF SignersOf
<1>2. IsFiniteSet(T)
  <2>1. Cardinality(ps) \in Nat
    BY Indexed
  <2>2. IsFiniteSet(0 .. Cardinality(ps) - 1)
    BY <2>1, FS_Interval
  <2> HIDE DEF T
  <2> QED
    BY <1>1, <2>2, FS_Subset DEF Indices
<1>3. f \in Injection(atts, T) /\ f \in Surjection(atts, T)
  BY DEF Genuine, SignersOf, Injection, IsInjective, Surjection
<1> HIDE DEF f, T
<1>4. IsFiniteSet(atts) /\ Cardinality(atts) = Cardinality(T)
  BY <1>2, <1>3, FS_Injection
<1> QED
  BY <1>1, <1>4 DEF T

\* Their signatures add up to the point of all their signers.
LEMMA GenuineSum ==
    ASSUME NEW ps \in SUBSET Operators, NEW d \in Digests, NEW atts, Genuine(ps, d, atts)
    PROVE  LET s == SetToSeq(atts)
           IN  AggregateSignatures([i \in 1 .. Len(s) |-> s[i].signature])
                 = SetToBag(SignerKeys(ps, SignersOf(atts)) \X {Raw(d)})
<1> DEFINE s == SetToSeq(atts)
           n == Cardinality(atts)
           keyOf(att) == CHOOSE k \in ps : att = SchemeSign(ps, k, d)
           p == [i \in 1 .. n |-> <<keyOf(s[i]), Raw(d)>>]
           points == [i \in 1 .. Len(s) |-> s[i].signature]
           keys == SignerKeys(ps, SignersOf(atts))
<1>1. /\ s \in [1 .. n -> atts] /\ Len(s) = n /\ n \in Nat
      /\ \A i, j \in 1 .. n : s[i] = s[j] => i = j
      /\ \A x \in atts : \E i \in 1 .. n : s[i] = x
  BY GenuineCount, SetToSeqBijection
<1> HIDE DEF s, n
<1>2. ASSUME NEW att \in atts
      PROVE  /\ keyOf(att) \in ps /\ att = SchemeSign(ps, keyOf(att), d)
             /\ att.signer = Index(ps, keyOf(att))
  <2>1. \E k \in ps : att = SchemeSign(ps, k, d)
    BY DEF Genuine
  <2>2. keyOf(att) \in ps /\ att = SchemeSign(ps, keyOf(att), d)
    BY <2>1
  <2> HIDE DEF keyOf
  <2> QED
    BY <2>2 DEF SchemeSign
<1> HIDE DEF keyOf
<1>3. ASSUME NEW i \in 1 .. n PROVE points[i] = SetToBag({p[i]})
  <2>1. s[i] \in atts
    BY <1>1
  <2>2. s[i].signature = SetToBag({<<keyOf(s[i]), Raw(d)>>})
    BY <1>2, <2>1 DEF SchemeSign, SignDigest
  <2> QED
    BY <1>1, <2>2
<1>4. ASSUME NEW i \in 1 .. n, NEW j \in 1 .. n, p[i] = p[j] PROVE i = j
  <2>1. s[i] \in atts /\ s[j] \in atts
    BY <1>1
  <2>2. keyOf(s[i]) = keyOf(s[j])
    BY <1>4
  <2>3. s[i] = s[j]
    BY <1>2, <2>1, <2>2
  <2> QED
    BY <1>1, <2>3
<1>5. Products(p, n) = keys \X {Raw(d)}
  <2>1. ASSUME NEW i \in 1 .. n PROVE p[i] \in keys \X {Raw(d)}
    <3>1. s[i] \in atts
      BY <1>1
    <3>2. keyOf(s[i]) \in keys
      BY <1>2, <3>1 DEF SignerKeys, SignersOf
    <3> HIDE DEF keys
    <3> QED
      BY <3>2
  <2>2. ASSUME NEW k \in keys PROVE \E i \in 1 .. n : p[i] = <<k, Raw(d)>>
    <3>1. k \in ps /\ Index(ps, k) \in SignersOf(atts)
      BY DEF SignerKeys
    <3>2. PICK att \in atts : att.signer = Index(ps, k)
      BY <3>1 DEF SignersOf
    <3>3. keyOf(att) = k
      <4>1. \A l, m \in ps : Index(ps, l) = Index(ps, m) => l = m
        BY Indexed
      <4> QED
        BY <1>2, <3>1, <3>2, <4>1
    <3>4. PICK i \in 1 .. n : s[i] = att
      BY <1>1
    <3> QED
      BY <3>3, <3>4
  <2> HIDE DEF keys, p
  <2> QED
    BY <2>1, <2>2 DEF Products
<1>6. Len(points) = n
  <2>1. points \in [1 .. n -> {s[i].signature : i \in 1 .. n}]
    BY <1>1
  <2> HIDE DEF points
  <2> QED
    BY <1>1, <2>1, FunctionSeq
<1> HIDE DEF p, points, keys
<1>7. AggregateSignatures(points) = SetToBag(Products(p, n))
  <2>1. n \in Nat
    BY <1>1
  <2>2. \A i, j \in 1 .. n : p[i] = p[j] => i = j
    BY <1>4
  <2>3. \A i \in 1 .. n : points[i] = SetToBag({p[i]})
    BY <1>3
  <2> QED
    BY <1>6, <2>1, <2>2, <2>3, SumOfSingles DEF SinglePoints
<1> QED
  BY <1>5, <1>7 DEF points, keys, s

\* A quorum of them assembles to a certificate that decodes and verifies; fewer
\* assemble to nothing.
LEMMA GenuineAssembles ==
    ASSUME NEW ps \in SUBSET Operators, ps # {}, NEW d \in Digests,
           NEW atts, Genuine(ps, d, atts)
    PROVE  LET cert == Assemble(ps, SetToSeq(atts))
           IN  /\ cert # NoCertificate => Cardinality(atts) >= QuorumOf(ps)
               /\ Cardinality(atts) >= QuorumOf(ps)
                    => DecodesCertificate(ps, cert) /\ VerifyCertificate(ps, d, cert)
<1> DEFINE s == SetToSeq(atts)
           n == Cardinality(atts)
           cert == Assemble(ps, s)
           signers == SignersOf(atts)
           keys == SignerKeys(ps, signers)
           sum == AggregateSignatures([i \in 1 .. Len(s) |-> s[i].signature])
           whole == [length |-> Cardinality(ps), signers |-> signers, signature |-> sum]
<1>1. /\ s \in [1 .. n -> atts] /\ Len(s) = n /\ n \in Nat
      /\ \A x \in atts : \E i \in 1 .. n : s[i] = x
  BY GenuineCount, SetToSeqBijection
<1>2. sum = SetToBag(keys \X {Raw(d)})
  BY GenuineSum
<1>3. signers \in SUBSET Indices(ps) /\ Cardinality(signers) = n
  BY GenuineCount
<1>4. IsFiniteSet(keys) /\ Cardinality(keys) = n
  BY <1>3, AsManySigners
<1>5. QuorumOf(ps) \in Nat /\ QuorumOf(ps) >= 1
  <2>1. Cardinality(ps) \in Nat /\ Cardinality(ps) # 0
    BY Indexed, FS_EmptySet
  <2>2. PICK c \in Nat : c = Cardinality(ps)
    BY <2>1
  <2>3. c - (c - 1) \div 3 \in Nat /\ c - (c - 1) \div 3 >= 1
    BY <2>1, <2>2
  <2> QED
    BY <2>2, <2>3 DEF QuorumOf
<1>6. Range(s) = atts
  BY <1>1 DEF Range
<1> HIDE DEF s, n
<1>7. \A att \in atts : att.signer \in Indices(ps) /\ DecodesSignature(att.signature)
  <2>1. ASSUME NEW att \in atts
        PROVE  att.signer \in Indices(ps) /\ DecodesSignature(att.signature)
    <3>1. PICK k \in ps : att = SchemeSign(ps, k, d)
      BY DEF Genuine
    <3>2. VerifyAttestation(ps, d, att)
      BY <3>1, SignedVerifies
    <3> QED
      BY <3>2 DEF VerifyAttestation
  <2> QED
    BY <2>1
<1>8. cert = IF n < QuorumOf(ps) THEN NoCertificate ELSE whole
  BY <1>1, <1>6, <1>7 DEF Assemble, SignersOf
<1>9. ASSUME n >= QuorumOf(ps)
      PROVE  DecodesCertificate(ps, whole) /\ VerifyCertificate(ps, d, whole)
  <2>1. n # 0
    BY <1>5, <1>9
  <2>2. PICK k \in keys : TRUE
    BY <1>4, <2>1, FS_EmptySet
  <2>3. signers # {}
    BY <1>3, <2>1, FS_EmptySet
  <2>4. DecodesSignature(sum)
    <3>1. keys \in SUBSET Operators
      BY DEF SignerKeys
    <3> HIDE DEF keys, sum
    <3>2. sum # Garbage
      BY <1>2, <3>1
    <3>3. <<k, Raw(d)>> \in keys \X {Raw(d)}
      BY <2>2
    <3>4. sum # Identity
      BY <1>2, <3>3, BagTells DEF Identity, EmptyBag
    <3> QED
      BY <3>2, <3>4 DEF DecodesSignature
  <2>5. DecodesCertificate(ps, whole)
    <3>1. Cardinality(ps) \in Nat
      BY Indexed
    <3> HIDE DEF sum, signers
    <3> QED
      BY <2>3, <2>4, <3>1 DEF DecodesCertificate
  <2>6. AggregateVerify(keys, NoNamespace, d, sum)
    BY <1>2 DEF AggregateVerify, Pairing, Payload
  <2>7. VerifyCertificate(ps, d, whole)
    <3> HIDE DEF sum, signers
    <3> QED
      BY <1>3, <1>9, <2>6 DEF VerifyCertificate, sum, signers
  <2> QED
    BY <2>5, <2>7
<1> HIDE DEF whole
<1>10. n < QuorumOf(ps) \/ n >= QuorumOf(ps)
  BY <1>1, <1>5
<1>11. ~(n < QuorumOf(ps) /\ n >= QuorumOf(ps))
  BY <1>1, <1>5
<1> QED
  BY <1>8, <1>9, <1>10, <1>11 DEF s, n

-----------------------------------------------------------------------------
(* The theorems.                                                           *)

\* The scheme keeps its types, so the router never holds an index that its
\* participant set does not have.
THEOREM SchemeTypes == SchemeSpec => []SchemeTypeOK
BY SchemeInvariance, PTL DEF IInv

\* What the router's pool holds was made by the operator its index stands for,
\* whatever faulty operators send and whenever the registry changes.
THEOREM PoolIsGenuine == SchemeSpec => []PoolGenuine
<1>1. IInv => PoolGenuine
  <2> SUFFICES ASSUME IInv, NEW a \in pool
               PROVE  \E k \in view[Router] :
                        /\ Index(view[Router], k) = a.att.signer
                        /\ k \in Correct => signed[k] = a.digest
    BY DEF PoolGenuine
  <2>1. PICK k \in view[Router] :
            SignedBy(view[Router], k, a) /\ (k \in Correct => signed[k] = a.digest)
    BY DEF IInv, Pooled
  <2>2. a.att.signer = Index(view[Router], k)
    BY <2>1 DEF SignedBy, SchemeSign
  <2> QED
    BY <2>1, <2>2
<1> QED
  BY <1>1, SchemeInvariance, PTL

\* A certificate that verifies names a quorum, and every correct operator among
\* its signers acked that digest: a handshake never stands in for an ack.
THEOREM CertificateOfQuorum == SchemeSpec => []CertificateMeansQuorum
<1>1. IInv => CertificateMeansQuorum
  <2> SUFFICES
        ASSUME IInv, view[Router] # {}, NEW summands \in SUBSET Existing,
               NEW signers \in SUBSET Indices(view[Router]), NEW d \in Digests,
               VerifyCertificate(view[Router], d,
                   [length |-> Cardinality(view[Router]), signers |-> signers,
                    signature |-> SetToBag(summands)])
        PROVE  /\ Cardinality(SignerKeys(view[Router], signers)) >= QuorumOf(view[Router])
               /\ \A k \in SignerKeys(view[Router], signers) \cap Correct : signed[k] = d
    BY DEF CertificateMeansQuorum
  <2> DEFINE ps == view[Router]
             keys == SignerKeys(ps, signers)
  <2>1. ps \in SUBSET Operators
    BY RouterProcess, ViewOperators DEF IInv
  <2>2. Cardinality(signers) >= QuorumOf(ps)
    BY DEF VerifyCertificate
  <2>3. SetToBag(summands) = SetToBag(keys \X {Raw(d)})
    BY DEF VerifyCertificate, AggregateVerify, Pairing, Payload
  <2>4. summands = keys \X {Raw(d)}
    <3> HIDE DEF keys
    <3> QED
      BY <2>3, BagTells
  <2>5. Cardinality(keys) = Cardinality(signers)
    BY <2>1, AsManySigners
  <2>6. ASSUME NEW k \in keys \cap Correct PROVE signed[k] = d
    <3> HIDE DEF keys
    <3>1. <<k, Raw(d)>> \in keys \X {Raw(d)}
      OBVIOUS
    <3>2. <<k, Raw(d)>> \in Existing
      BY <2>4, <3>1
    <3> QED
      BY <3>2, ExistingBare
  <2> QED
    BY <2>2, <2>5, <2>6
<1> QED
  BY <1>1, SchemeInvariance, PTL

\* A pool with a quorum for a digest assembles to a certificate that verifies at
\* every process that read the registry as the router did; less assembles to
\* nothing.
THEOREM PoolAssembles == SchemeSpec => []AssembledVerifies
<1>1. IInv => AssembledVerifies
  <2> SUFFICES ASSUME IInv, NEW d \in Digests
               PROVE  LET ps == view[Router]
                          atts == {a.att : a \in {b \in pool : b.digest = d}}
                          cert == Assemble(ps, SetToSeq(atts))
                          ready == Cardinality(atts) >= QuorumOf(ps)
                      IN  /\ (ps # {} /\ cert # NoCertificate) => ready
                          /\ (ps # {} /\ ready) =>
                               \A p \in Processes :
                                  (view[p] # {} /\ readAt[p] = readAt[Router]) =>
                                    /\ DecodesCertificate(view[p], cert)
                                    /\ VerifyCertificate(view[p], d, cert)
    BY DEF AssembledVerifies
  <2> DEFINE ps == view[Router]
             atts == {a.att : a \in {b \in pool : b.digest = d}}
             cert == Assemble(ps, SetToSeq(atts))
  <2>1. ps \in SUBSET Operators
    BY RouterProcess, ViewOperators DEF IInv
  <2>2. Genuine(ps, d, atts)
    <3>1. ASSUME NEW att \in atts PROVE \E k \in ps : att = SchemeSign(ps, k, d)
      BY DEF IInv, Pooled, SignedBy
    <3>2. ASSUME NEW a \in atts, NEW b \in atts, a.signer = b.signer PROVE a = b
      BY <3>2 DEF IInv, OnePerSigner
    <3> QED
      BY <3>1, <3>2 DEF Genuine
  <2>3. ASSUME NEW p \in Processes, view[p] # {}, ps # {}, readAt[p] = readAt[Router]
        PROVE  view[p] = ps
    BY <2>3, RouterProcess DEF IInv, ViewsAgree
  <2> HIDE DEF atts, ps
  <2>4. ASSUME ps # {}
        PROVE  /\ cert # NoCertificate => Cardinality(atts) >= QuorumOf(ps)
               /\ Cardinality(atts) >= QuorumOf(ps)
                    => DecodesCertificate(ps, cert) /\ VerifyCertificate(ps, d, cert)
    BY <2>1, <2>2, <2>4, GenuineAssembles
  <2> QED
    BY <2>3, <2>4 DEF atts, ps
<1> QED
  BY <1>1, SchemeInvariance, PTL

\* The router blocks a correct operator for an ack only if the two read the
\* registry at different times.
THEOREM BlockedAcrossRegistries == SchemeSpec => BlockedOnlyAcrossRegistries
<1>1. IInv /\ [SchemeNext]_schemeVars
        => [\A k \in Correct : k \in blocked' \ blocked => readAt[k] # readAt[Router]]_schemeVars
  <2> SUFFICES ASSUME IInv, SchemeNext, NEW k \in Correct, k \in blocked' \ blocked,
                      readAt[k] = readAt[Router]
               PROVE  FALSE
    OBVIOUS
  <2> DEFINE Acked(l, d, att) ==
               /\ ReceiveAck(l, d, att)
               /\ l \in Correct => /\ CorrectAck(l) /\ d = signed[l]
                                   /\ att = SchemeSign(view[l], l, signed[l])
             Faulty(l, d) == \E i, bytes : FaultyAck(l, d, i, bytes)
  <2>1. \E l \in Operators, d \in Digests : \E att : Acked(l, d, att)
    <3>1. ASSUME NEW l \in Correct, CorrectAck(l)
          PROVE  /\ l \in Operators /\ signed[l] \in Digests
                 /\ ReceiveAck(l, signed[l], SchemeSign(view[l], l, signed[l]))
      BY <3>1 DEF CorrectAck, Correct, IInv, SchemeTypeOK
    <3>2. ASSUME NEW l \in FaultyKeys, NEW d \in Digests, NEW i, NEW bytes,
                 FaultyAck(l, d, i, bytes)
          PROVE  /\ l \in Operators /\ l \notin Correct
                 /\ ReceiveAck(l, d, [signer |-> i, signature |-> bytes])
      BY <3>2 DEF FaultyAck, Correct
    <3>3. \/ \E l \in Correct : CorrectAck(l)
          \/ \E l \in FaultyKeys, d \in Digests : Faulty(l, d)
      BY DEF SchemeNext, RegistryChanges, StartRouter, StartNode, SignAck
    <3>4. CASE \E l \in Correct : CorrectAck(l)
      <4>1. PICK l \in Correct : CorrectAck(l)
        BY <3>4
      <4> QED
        BY <3>1, <4>1
    <3>5. CASE \E l \in FaultyKeys, d \in Digests : Faulty(l, d)
      <4>1. PICK l \in FaultyKeys, d \in Digests : Faulty(l, d)
        BY <3>5
      <4>2. PICK i, bytes : FaultyAck(l, d, i, bytes)
        BY <4>1
      <4>3. /\ l \in Operators /\ l \notin Correct
            /\ ReceiveAck(l, d, [signer |-> i, signature |-> bytes])
        BY <3>2, <4>2
      <4> QED
        BY <4>3
    <3> QED
      BY <3>3, <3>4, <3>5
  <2>2. PICK l \in Operators, d \in Digests : \E att : Acked(l, d, att)
    BY <2>1
  <2>3. PICK att : Acked(l, d, att)
    BY <2>2
  <2>4. l = k /\ ~VerifyAttestation(view[Router], d, att) /\ k \in view[Router]
    BY <2>3 DEF ReceiveAck
  <2>5. view[k] # {} /\ d = signed[k] /\ att = SchemeSign(view[k], k, d)
    BY <2>3, <2>4 DEF CorrectAck
  <2>6. view[k] = view[Router]
    <3>1. k \in Processes /\ view[Router] # {}
      BY <2>4 DEF Correct, Processes
    <3> QED
      BY <2>5, <3>1, RouterProcess DEF IInv, ViewsAgree
  <2>7. view[Router] \in SUBSET Operators
    BY RouterProcess, ViewOperators DEF IInv
  <2>8. VerifyAttestation(view[Router], d, att)
    BY <2>4, <2>5, <2>6, <2>7, SignedVerifies
  <2> QED
    BY <2>4, <2>8
<1> QED
  BY <1>1, SchemeInvariance, PTL DEF SchemeSpec, BlockedOnlyAcrossRegistries
=============================================================================
