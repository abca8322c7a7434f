-------------------------- MODULE TipReportsProofs --------------------------
(***************************************************************************)
(* For any number of participants with at most a third of them faulty, any *)
(* strangers and any bounds: the safe tip is one an honest node had, and   *)
(* it does not fall within a router life.                                  *)
(***************************************************************************)
EXTENDS TipReports, CommonLemmas, FiniteSetTheorems

\* The strengthening: nothing of a stranger is recorded, and what is recorded
\* for an honest node the node has sent.
StrangersIgnored == \A p \in Strangers : reports[p] = -1
HonestSent == \A p \in Honest : reports[p] # -1 => <<p, reports[p]>> \in sent
IInv == TypeOK /\ StrangersIgnored /\ HonestSent

USE ParticipantsAssumption, TipReportsAssumption

-----------------------------------------------------------------------------
(* The safe tip is well defined.                                           *)

\* The fault bound is a number.
LEMMA MaxFaultsNat == MaxFaults \in Nat
<1>1. Cardinality(Nodes) \in Nat
  BY FS_CardinalityType
<1> QED
  BY <1>1 DEF MaxFaults

\* SafeTip is the highest backed tip.
HighestBacked ==
  /\ SafeTip \in Tips
  /\ Backed(SafeTip)
  /\ \A u \in Tips : Backed(u) => u <= SafeTip

LEMMA SafeTipIsHighest == HighestBacked
<1> DEFINE S == {t \in Tips : Backed(t)}
<1>1. 0 \in S
  BY DEF Tips, Backed
<1>2. PICK t \in S : \A u \in S : u <= t
  <2> HIDE DEF S
  <2>1. S # {}
    BY <1>1
  <2>2. S \subseteq Tips
    BY DEF S
  <2> QED
    BY <2>1, <2>2, TipReportsAssumption, GreatestElement DEF Tips
<1>3. t \in Tips /\ Backed(t) /\ \A u \in Tips : Backed(u) => u <= t
  BY <1>2
<1> QED
  BY <1>3 DEF SafeTip, HighestBacked

\* ... in the next state too.
LEMMA SafeTipIsHighestNext == HighestBacked'
BY SafeTipIsHighest, PTL

-----------------------------------------------------------------------------
(* The invariant.                                                          *)

\* The initial states satisfy the invariant.
LEMMA InitInv == Init => IInv
BY DEF Init, IInv, TypeOK, StrangersIgnored, HonestSent, NoReports, Tips, Peers, Honest

\* A node's answer only adds what it sent.
LEMMA ReplyInv ==
  ASSUME IInv, NEW n \in Honest, NEW h \in Tips, Reply(n, h)
  PROVE  IInv'
BY DEF IInv, TypeOK, StrangersIgnored, HonestSent, Reply, Tips

\* Recording keeps the origin of every entry.
LEMMA IngestInv ==
  ASSUME IInv, NEW p \in Peers, NEW t \in Tips, Ingest(p, t)
  PROVE  IInv'
<1>1. TypeOK'
  BY DEF IInv, TypeOK, Ingest, Record, Tips
<1>2. StrangersIgnored'
  BY DEF IInv, TypeOK, StrangersIgnored, Ingest, Record, Peers
<1>3. HonestSent'
  BY DEF IInv, TypeOK, HonestSent, Ingest, Record, Arrives, Tips, Honest, Peers
<1> QED
  BY <1>1, <1>2, <1>3 DEF IInv

\* The router only moves to the safe tip.
LEMMA SupersedeInv ==
  ASSUME IInv, Supersede
  PROVE  IInv'
BY SafeTipIsHighest DEF HighestBacked, IInv, TypeOK, StrangersIgnored, HonestSent, Supersede

\* The environment's steps and the restarts keep the invariant.
LEMMA OtherInv ==
  ASSUME IInv,
         \/ Resolved
         \/ \E n \in Honest, t \in Tips : AdvanceTip(n, t) \/ NodeRestart(n, t)
         \/ \E h \in Tips : RouterRestart(h)
  PROVE  IInv'
<1>1. CASE Resolved
  BY <1>1 DEF IInv, TypeOK, StrangersIgnored, HonestSent, Resolved, Tips
<1>2. CASE \E n \in Honest, t \in Tips : AdvanceTip(n, t) \/ NodeRestart(n, t)
  BY <1>2 DEF IInv, TypeOK, StrangersIgnored, HonestSent, AdvanceTip, NodeRestart, Tips
<1>3. CASE \E h \in Tips : RouterRestart(h)
  BY <1>3 DEF IInv, TypeOK, StrangersIgnored, HonestSent, RouterRestart, NoReports,
              Tips, Peers, Honest
<1> QED
  BY <1>1, <1>2, <1>3

\* Every step keeps the invariant.
LEMMA NextInv == IInv /\ [Next]_vars => IInv'
<1> SUFFICES ASSUME IInv, [Next]_vars PROVE IInv'
  OBVIOUS
<1>1. CASE \E n \in Honest, h \in Tips : Reply(n, h)
  BY <1>1, ReplyInv
<1>2. CASE \E p \in Peers, t \in Tips : Ingest(p, t)
  BY <1>2, IngestInv
<1>3. CASE Supersede
  BY <1>3, SupersedeInv
<1>4. CASE \/ Resolved
           \/ \E n \in Honest, t \in Tips : AdvanceTip(n, t) \/ NodeRestart(n, t)
           \/ \E h \in Tips : RouterRestart(h)
  BY <1>4, OtherInv
<1>5. CASE UNCHANGED vars
  BY <1>5 DEF vars, IInv, TypeOK, StrangersIgnored, HonestSent
<1> QED
  BY <1>1, <1>2, <1>3, <1>4, <1>5 DEF Next

\* The invariant holds of every behaviour of the safe-tip protocol
\* (sequencer.rs:181-260, task_book.rs:369-383).
THEOREM TipInvariance == Spec => []IInv
<1> QED
  BY InitInv, NextInv, PTL DEF Spec

\* Every variable keeps its type (sequencer.rs:191-196).
THEOREM TipTypes == Spec => []TypeOK
<1>1. IInv => TypeOK
  BY DEF IInv
<1> QED
  BY <1>1, TipInvariance, PTL

-----------------------------------------------------------------------------
(* The safe tip is honest.                                                 *)

\* Only participants are counted, and they are finitely many.
LEMMA ReachedParticipants ==
  ASSUME IInv, NEW t \in Tips
  PROVE  /\ Reached(t) \subseteq Nodes
         /\ IsFiniteSet(Reached(t))
         /\ Cardinality(Reached(t)) \in Nat
<1>1. Reached(t) \subseteq Nodes
  BY DEF IInv, TypeOK, StrangersIgnored, Reached, Peers, Tips
<1>2. IsFiniteSet(Reached(t))
  BY <1>1, FS_Subset
<1> QED
  BY <1>1, <1>2, FS_CardinalityType

\* More than f participants include an honest one.
LEMMA HonestAmong ==
  ASSUME NEW S \in SUBSET Nodes, Cardinality(S) > MaxFaults
  PROVE  \E p \in S : p \in Honest
<1> SUFFICES ASSUME \A p \in S : p \notin Honest PROVE FALSE
  OBVIOUS
<1>1. S \in SUBSET Faulty
  BY DEF Honest
<1>2. IsFiniteSet(Faulty)
  BY FS_Subset
<1>3. Cardinality(S) <= Cardinality(Faulty)
  BY <1>1, <1>2, FS_Subset
<1>4. IsFiniteSet(S)
  BY <1>1, <1>2, FS_Subset
<1>5. Cardinality(S) \in Nat /\ Cardinality(Faulty) \in Nat
  BY <1>2, <1>4, FS_CardinalityType
<1> QED
  BY <1>3, <1>5, MaxFaultsNat

\* The invariant makes the safe tip honest.
LEMMA HonestTip == IInv => SafeTipHonest
<1> SUFFICES ASSUME IInv, SafeTip > 0
             PROVE  \E m \in sent : m[2] >= SafeTip
  BY DEF SafeTipHonest
<1>1. SafeTip \in Tips /\ Cardinality(Reached(SafeTip)) > MaxFaults
  BY SafeTipIsHighest DEF HighestBacked, Backed
<1>2. Reached(SafeTip) \subseteq Nodes
  BY <1>1, ReachedParticipants
<1>3. PICK p \in Reached(SafeTip) : p \in Honest
  BY <1>1, <1>2, HonestAmong
<1>4. reports[p] >= SafeTip /\ reports[p] \in Tips \cup {-1}
  BY <1>3 DEF Reached, IInv, TypeOK
<1>5. <<p, reports[p]>> \in sent
  BY <1>1, <1>3, <1>4 DEF IInv, HonestSent, Tips
<1> QED
  BY <1>4, <1>5

\* The safe tip never exceeds what some honest node reported: at most f
\* participants are faulty and f + 1 reports are needed (sequencer.rs:185-213).
THEOREM SafeTipIsHonest == Spec => []SafeTipHonest
<1> QED
  BY TipInvariance, HonestTip, PTL

-----------------------------------------------------------------------------
(* The safe tip does not fall.                                             *)

\* Reports that only rise keep the safe tip.
LEMMA RisingReports ==
  ASSUME IInv, IInv', \A p \in Peers : reports'[p] >= reports[p]
  PROVE  SafeTip' >= SafeTip
<1>1. SafeTip \in Tips /\ Backed(SafeTip)
  BY SafeTipIsHighest DEF HighestBacked
<1>2. PICK t \in Tips : t = SafeTip
  BY <1>1
<1>3. Backed(t)
  BY <1>1, <1>2
<1>4. Backed(t)'
  <2>1. CASE t = 0
    BY <2>1 DEF Backed
  <2>2. CASE t # 0
    <3>1. Reached(t) \subseteq Reached(t)'
      BY DEF Reached, IInv, TypeOK, Tips
    <3>2. IsFiniteSet(Reached(t)') /\ Cardinality(Reached(t)') \in Nat
      <4>1. Reached(t)' \subseteq Nodes
        BY DEF IInv, TypeOK, StrangersIgnored, Reached, Peers, Tips
      <4> QED
        BY <4>1, FS_Subset, FS_CardinalityType
    <3>3. Cardinality(Reached(t)) <= Cardinality(Reached(t)')
      BY <3>1, <3>2, FS_Subset
    <3>4. Cardinality(Reached(t)) \in Nat /\ Cardinality(Reached(t)) > MaxFaults
      BY <1>3, <2>2, ReachedParticipants DEF Backed
    <3>5. Cardinality(Reached(t)') > MaxFaults
      BY <3>2, <3>3, <3>4, MaxFaultsNat
    <3> QED
      BY <3>5 DEF Backed, Reached
  <2> QED
    BY <2>1, <2>2
<1>5. SafeTip' \in Tips /\ (\A u \in Tips : Backed(u) => u <= SafeTip)'
  BY SafeTipIsHighestNext DEF HighestBacked
<1>6. t <= SafeTip'
  BY <1>4, <1>5
<1> QED
  BY <1>2, <1>5, <1>6 DEF Tips

\* The only step that changes the reports and is no restart raises one.
LEMMA MonotoneStep ==
  ASSUME IInv, IInv', [Next]_vars, reports' # reports
  PROVE  reports' # NoReports => SafeTip' >= SafeTip
<1> SUFFICES ASSUME reports' # NoReports
             PROVE  \A p \in Peers : reports'[p] >= reports[p]
  BY RisingReports
<1>1. PICK p \in Peers, t \in Tips : Ingest(p, t)
  BY DEF Next, Reply, Supersede, Resolved, AdvanceTip, NodeRestart, RouterRestart, vars
<1> QED
  BY <1>1 DEF Ingest, Record, IInv, TypeOK, Tips

\* The safe tip is a function of the reports.
LEMMA SameReports ==
  ASSUME reports' = reports
  PROVE  SafeTip' = SafeTip
BY DEF SafeTip, Backed, Reached

\* Within a router life late, repeated or reordered reports never lower the
\* safe tip (sequencer.rs:197-203).
THEOREM SafeTipNeverFalls == Spec => SafeTipMonotone
<1>1. IInv /\ IInv' /\ [Next]_vars => [reports' # NoReports => SafeTip' >= SafeTip]_vars
  <2> SUFFICES ASSUME IInv, IInv', [Next]_vars
               PROVE  reports' # NoReports => SafeTip' >= SafeTip
    OBVIOUS
  <2>1. CASE reports' = reports
    <3>1. SafeTip \in Tips
      BY SafeTipIsHighest DEF HighestBacked
    <3> QED
      BY <2>1, <3>1, SameReports DEF Tips
  <2>2. CASE reports' # reports
    BY <2>2, MonotoneStep
  <2> QED
    BY <2>1, <2>2
<1> QED
  BY <1>1, TipInvariance, PTL DEF Spec, SafeTipMonotone

-----------------------------------------------------------------------------
(* The safe tip is what sorting the reports finds.                         *)

\* An arrangement in descending order lists every peer, once.
LEMMA DescendingLists ==
  ASSUME NEW S, IsFiniteSet(S), NEW o \in Descending(S)
  PROVE  /\ Cardinality(S) \in Nat /\ o \in [1 .. Cardinality(S) -> S]
         /\ \A i, j \in 1 .. Cardinality(S) : o[i] = o[j] => i = j
         /\ \A p \in S : \E i \in 1 .. Cardinality(S) : o[i] = p
<1> DEFINE n == Cardinality(S)
<1>1. n \in Nat
  BY FS_CardinalityType
<1>2. /\ o \in [1 .. n -> S]
      /\ \A i, j \in 1 .. n : i < j => o[i] # o[j]
  BY DEF Descending
<1> HIDE DEF n
<1>3. ASSUME NEW i \in 1 .. n, NEW j \in 1 .. n, o[i] = o[j] PROVE i = j
  BY <1>1, <1>2, <1>3
<1>4. o \in Injection(1 .. n, S)
  BY <1>2, <1>3 DEF Injection, IsInjective
<1>5. IsFiniteSet(1 .. n) /\ Cardinality(1 .. n) = n
  BY <1>1, FS_Interval
<1>6. o \in Surjection(1 .. n, S)
  BY <1>4, <1>5, FS_Injection DEF n
<1> QED
  BY <1>1, <1>2, <1>3, <1>6 DEF n, Surjection

\* A peer with the lowest report goes behind the others.
LEMMA DescendingGrows ==
  ASSUME TypeOK, NEW S \in SUBSET Peers, IsFiniteSet(S), NEW p \in S,
         \A q \in S : reports[p] <= reports[q],
         NEW o \in Descending(S \ {p})
  PROVE  Descending(S) # {}
<1> DEFINE n == Cardinality(S)
           rest == S \ {p}
           w == [i \in 1 .. n |-> IF i = n THEN p ELSE o[i]]
<1>1. n \in Nat \ {0} /\ IsFiniteSet(rest) /\ Cardinality(rest) = n - 1
  <2>1. n \in Nat
    BY FS_CardinalityType
  <2>2. n # 0
    BY FS_EmptySet
  <2>3. IsFiniteSet(rest) /\ Cardinality(rest) = n - 1
    BY FS_RemoveElement
  <2> QED
    BY <2>1, <2>2, <2>3
<1>2. /\ o \in [1 .. n - 1 -> rest]
      /\ \A i, j \in 1 .. n - 1 : i < j => o[i] # o[j] /\ reports[o[i]] >= reports[o[j]]
  BY <1>1 DEF Descending
<1> HIDE DEF n, rest
<1>3. ASSUME NEW i \in 1 .. n, i # n PROVE i \in 1 .. n - 1 /\ w[i] = o[i] /\ o[i] \in rest
  BY <1>1, <1>2, <1>3
<1>4. w[n] = p /\ n \in 1 .. n
  BY <1>1
<1>5. w \in [1 .. n -> S]
  <2>1. \A i \in 1 .. n : w[i] \in S
    BY <1>3, <1>4 DEF rest
  <2> QED
    BY <2>1
<1>6. ASSUME NEW i \in 1 .. n, NEW j \in 1 .. n, i < j
      PROVE  w[i] # w[j] /\ reports[w[i]] >= reports[w[j]]
  <2>1. i # n /\ w[i] = o[i] /\ o[i] \in rest /\ i \in 1 .. n - 1
    BY <1>1, <1>3, <1>6
  <2>2. CASE j = n
    <3>1. w[j] = p
      BY <1>4, <2>2
    <3>2. o[i] \in S /\ o[i] # p
      BY <2>1 DEF rest
    <3>3. reports[p] <= reports[o[i]] /\ reports[p] \in Int /\ reports[o[i]] \in Int
      BY <3>2 DEF TypeOK, Tips
    <3> QED
      BY <2>1, <3>1, <3>2, <3>3
  <2>3. CASE j # n
    <3>1. w[j] = o[j] /\ j \in 1 .. n - 1
      BY <1>3, <2>3
    <3> QED
      BY <1>2, <1>6, <2>1, <3>1
  <2> QED
    BY <2>2, <2>3
<1> HIDE DEF w
<1>7. w \in Descending(S)
  BY <1>5, <1>6 DEF Descending, n
<1> QED
  BY <1>7

\* A smallest set of peers that could not be sorted would not be one.
LEMMA Sortable ==
  ASSUME TypeOK, NEW R \in SUBSET Peers, IsFiniteSet(R), \A p \in R : reports[p] >= 0
  PROVE  Descending(R) # {}
<1> DEFINE Unsorted(S) == S \in SUBSET R /\ Descending(S) = {}
           sizes == {k \in Nat : \E S : Unsorted(S) /\ Cardinality(S) = k}
<1>1. SUFFICES ASSUME Unsorted(R) PROVE FALSE
  OBVIOUS
<1>2. PICK k \in sizes : \A m \in sizes : k <= m
  <2>1. sizes \subseteq Nat /\ sizes # {}
    BY <1>1, FS_CardinalityType
  <2> HIDE DEF sizes
  <2> QED
    BY <2>1, LeastElement
<1>3. PICK S \in SUBSET R : Descending(S) = {} /\ Cardinality(S) = k
  BY <1>2
<1>4. IsFiniteSet(S) /\ k \in Nat /\ S \in SUBSET Peers
  BY <1>2, <1>3, FS_Subset
<1>5. CASE S = {}
  <2>1. Cardinality(S) = 0
    BY <1>5, FS_EmptySet
  <2> DEFINE empty == [i \in 1 .. 0 |-> 0]
  <2>2. empty \in [1 .. Cardinality(S) -> S]
    BY <2>1
  <2>3. \A i, j \in 1 .. Cardinality(S) :
            i < j => empty[i] # empty[j] /\ reports[empty[i]] >= reports[empty[j]]
    BY <2>1
  <2> HIDE DEF empty
  <2>4. empty \in Descending(S)
    BY <2>2, <2>3 DEF Descending
  <2> QED
    BY <1>3, <2>4
<1>6. CASE S # {}
  <2> DEFINE values == {reports[q] : q \in S}
  <2>1. values \subseteq Nat /\ values # {}
    <3>1. ASSUME NEW q \in S PROVE reports[q] \in Nat
      BY <1>3 DEF TypeOK, Tips
    <3> QED
      BY <1>6, <3>1
  <2>2. PICK v \in values : \A u \in values : v <= u
    <3> HIDE DEF values
    <3> QED
      BY <2>1, LeastElement
  <2>3. PICK p \in S : \A q \in S : reports[p] <= reports[q]
    BY <2>2
  <2>4. Cardinality(S \ {p}) = k - 1 /\ k - 1 \in Nat /\ IsFiniteSet(S \ {p})
    <3>1. Cardinality(S \ {p}) = k - 1 /\ IsFiniteSet(S \ {p})
      BY <1>3, <1>4, FS_RemoveElement
    <3>2. Cardinality(S \ {p}) \in Nat
      BY <3>1, FS_CardinalityType
    <3> QED
      BY <3>1, <3>2
  <2>5. k - 1 \notin sizes
    <3>1. ~(k <= k - 1)
      BY <1>4
    <3> QED
      BY <1>2, <3>1
  <2>6. Descending(S \ {p}) # {}
    BY <2>4, <2>5
  <2>7. PICK o \in Descending(S \ {p}) : TRUE
    BY <2>6
  <2> QED
    BY <1>3, <1>4, <2>3, <2>7, DescendingGrows
<1> QED
  BY <1>5, <1>6

\* What is recorded is the participants'.
LEMMA RecordedParticipants ==
  ASSUME IInv
  PROVE  /\ Recorded \subseteq Nodes /\ Recorded \in SUBSET Peers
         /\ IsFiniteSet(Recorded) /\ Cardinality(Recorded) \in Nat
<1>1. Recorded \subseteq Nodes
  BY DEF IInv, StrangersIgnored, Recorded, Peers
<1>2. IsFiniteSet(Recorded)
  BY <1>1, FS_Subset
<1> QED
  BY <1>1, <1>2, FS_CardinalityType DEF Peers

\* Of the peers in descending order, the first m + 1 reached the report at m + 1
\* and no more than the first m a higher tip.
LEMMA ReachedInOrder ==
  ASSUME IInv, NEW o \in Descending(Recorded), MaxFaults < Cardinality(Recorded)
  PROVE  LET v == reports[o[MaxFaults + 1]]
         IN  /\ v \in Tips
             /\ Cardinality(Reached(v)) > MaxFaults
             /\ \A u \in Tips : u > v => Cardinality(Reached(u)) <= MaxFaults
<1> DEFINE n == Cardinality(Recorded)
           m == MaxFaults
           v == reports[o[m + 1]]
<1>1. /\ n \in Nat /\ o \in [1 .. n -> Recorded]
      /\ \A i, j \in 1 .. n : o[i] = o[j] => i = j
      /\ \A p \in Recorded : \E i \in 1 .. n : o[i] = p
  BY RecordedParticipants, DescendingLists
<1>2. \A i, j \in 1 .. n : i < j => reports[o[i]] >= reports[o[j]]
  BY DEF Descending
<1>3. m \in Nat /\ m < n
  BY MaxFaultsNat
<1> HIDE DEF n, m
<1>4. \A p \in Recorded : reports[p] \in Tips /\ p \in Peers
  BY DEF Recorded, IInv, TypeOK, Tips
<1>5. m + 1 \in 1 .. n /\ o[m + 1] \in Recorded /\ v \in Tips
  BY <1>1, <1>3, <1>4
<1>6. PICK w \in Tips : w = v
  BY <1>5
<1>7. w \in Nat
  BY DEF Tips
<1>8. Cardinality(Reached(w)) > m
  <2> DEFINE g == [i \in 1 .. m + 1 |-> o[i]]
  <2>1. ASSUME NEW i \in 1 .. m + 1 PROVE i \in 1 .. n /\ o[i] \in Reached(w)
    <3>1. i \in 1 .. n /\ o[i] \in Recorded
      BY <1>1, <1>3
    <3>2. reports[o[i]] >= reports[o[m + 1]]
      <4>1. CASE i = m + 1
        BY <1>4, <1>5, <4>1 DEF Tips
      <4>2. CASE i # m + 1
        BY <1>2, <1>3, <1>5, <3>1, <4>2
      <4> QED
        BY <4>1, <4>2
    <3> QED
      BY <1>4, <1>6, <3>1, <3>2 DEF Reached
  <2>2. g \in [1 .. m + 1 -> Reached(w)]
    BY <2>1
  <2>3. \A i, j \in 1 .. m + 1 : g[i] = g[j] => i = j
    BY <1>1, <2>1
  <2> HIDE DEF g
  <2>4. g \in Injection(1 .. m + 1, Reached(w))
    BY <2>2, <2>3 DEF Injection, IsInjective
  <2>5. IsFiniteSet(Reached(w)) /\ Cardinality(Reached(w)) \in Nat
    BY ReachedParticipants
  <2>6. Cardinality(1 .. m + 1) = m + 1
    BY <1>3, FS_Interval
  <2>7. Cardinality(1 .. m + 1) <= Cardinality(Reached(w))
    BY <2>4, <2>5, FS_Injection
  <2> QED
    BY <1>3, <2>5, <2>6, <2>7
<1>9. ASSUME NEW u \in Tips, u > w PROVE Cardinality(Reached(u)) <= m
  <2> DEFINE first == {o[i] : i \in 1 .. m}
             h == [i \in 1 .. m |-> o[i]]
  <2>1. Reached(u) \subseteq first
    <3> SUFFICES ASSUME NEW p \in Peers, reports[p] >= u PROVE p \in first
      BY DEF Reached
    <3>1. p \in Recorded
      <4>1. u \in Nat /\ reports[p] \in Int
        BY DEF IInv, TypeOK, Tips
      <4> QED
        BY <4>1 DEF Recorded
    <3>2. PICK i \in 1 .. n : o[i] = p
      BY <1>1, <3>1
    <3>3. u \in Nat /\ reports[p] \in Nat /\ reports[o[m + 1]] = w
      BY <1>4, <1>6, <3>1 DEF Tips
    <3>4. ~(reports[o[i]] <= w)
      BY <1>7, <1>9, <3>2, <3>3
    <3>5. ~(m + 1 < i) /\ i # m + 1
      BY <1>2, <1>5, <1>7, <3>2, <3>3, <3>4
    <3>6. i \in 1 .. m
      BY <1>3, <3>2, <3>5
    <3> QED
      BY <3>2, <3>6
  <2>2. h \in Surjection(1 .. m, first)
    BY DEF Surjection
  <2>3. IsFiniteSet(1 .. m) /\ Cardinality(1 .. m) = m
    BY <1>3, FS_Interval
  <2> HIDE DEF h, first
  <2>4. IsFiniteSet(first) /\ Cardinality(first) <= m
    BY <2>2, <2>3, FS_Surjection
  <2>5. Cardinality(Reached(u)) <= Cardinality(first)
    BY <2>1, <2>4, FS_Subset
  <2>6. Cardinality(Reached(u)) \in Nat /\ Cardinality(first) \in Nat
    BY <2>4, ReachedParticipants, FS_CardinalityType
  <2> QED
    BY <1>3, <2>4, <2>5, <2>6
<1> QED
  BY <1>5, <1>6, <1>8, <1>9 DEF m

\* With at most f reports no tip but the first is backed.
LEMMA FewReports ==
  ASSUME IInv, ~(MaxFaults < Cardinality(Recorded)), NEW u \in Tips, u # 0
  PROVE  ~Backed(u)
<1>1. Reached(u) \subseteq Recorded
  BY DEF Reached, Recorded, IInv, TypeOK, Tips
<1>2. Cardinality(Reached(u)) <= Cardinality(Recorded)
  BY <1>1, RecordedParticipants, FS_Subset
<1>3. Cardinality(Reached(u)) \in Nat /\ Cardinality(Recorded) \in Nat
  BY RecordedParticipants, ReachedParticipants
<1>4. ~(Cardinality(Reached(u)) > MaxFaults)
  BY <1>2, <1>3, MaxFaultsNat
<1> QED
  BY <1>4 DEF Backed

\* Counting the reports behind a tip and sorting them find the same safe tip.
LEMMA SortedTips == IInv => SafeTipSorted
<1> SUFFICES ASSUME IInv PROVE SafeTipSorted
  OBVIOUS
<1>1. Descending(Recorded) # {}
  <2>1. \A p \in Recorded : reports[p] >= 0
    BY DEF Recorded
  <2> QED
    BY <2>1, RecordedParticipants, Sortable DEF IInv
<1>2. ASSUME NEW o \in Descending(Recorded) PROVE SafeTip = SortedTip(o)
  <2>1. PICK t \in Tips : t = SafeTip /\ Backed(t) /\ \A u \in Tips : Backed(u) => u <= t
    BY SafeTipIsHighest DEF HighestBacked
  <2>2. CASE MaxFaults < Cardinality(Recorded)
    <3>1. PICK v \in Tips :
              /\ v = reports[o[MaxFaults + 1]]
              /\ Cardinality(Reached(v)) > MaxFaults
              /\ \A u \in Tips : u > v => Cardinality(Reached(u)) <= MaxFaults
      BY <2>2, ReachedInOrder
    <3>2. t \in Nat /\ v \in Nat
      BY DEF Tips
    <3>3. v <= t
      BY <2>1, <3>1 DEF Backed
    <3>4. ~(t > v)
      <4> SUFFICES ASSUME t > v PROVE FALSE
        OBVIOUS
      <4>1. Cardinality(Reached(t)) <= MaxFaults /\ Cardinality(Reached(t)) \in Nat
        BY <3>1, ReachedParticipants
      <4>2. t # 0
        BY <3>2
      <4> QED
        BY <2>1, <4>1, <4>2, MaxFaultsNat DEF Backed
    <3>5. t = v
      BY <3>2, <3>3, <3>4
    <3> QED
      BY <2>1, <2>2, <3>1, <3>5 DEF SortedTip
  <2>3. CASE ~(MaxFaults < Cardinality(Recorded))
    <3>1. t = 0
      BY <2>1, <2>3, FewReports
    <3> QED
      BY <2>1, <2>3, <3>1 DEF SortedTip
  <2> QED
    BY <2>2, <2>3
<1> QED
  BY <1>1, <1>2 DEF SafeTipSorted

\* The router's sort of the reports and its index max_faults give the tip that
\* more than f reports are behind (sequencer.rs:206-213).
THEOREM SafeTipIsSorted == Spec => []SafeTipSorted
BY TipInvariance, SortedTips, PTL
=============================================================================
