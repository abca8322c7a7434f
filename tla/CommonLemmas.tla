---------------------------- MODULE CommonLemmas ----------------------------
(* Facts on naturals and sequences that several proof modules rest on. *)
EXTENDS Integers, Sequences, TLAPS, WellFoundedInduction

-----------------------------------------------------------------------------
(* Extreme elements, for heights and tips.                                 *)

\* A nonempty set of naturals has a least element.
LEMMA LeastElement ==
  ASSUME NEW S, S \subseteq Nat, S # {}
  PROVE  \E x \in S : \A y \in S : x <= y
<1> DEFINE R == OpToRel(<, Nat)
<1>1. IsWellFoundedOn(R, Nat)
  BY NatLessThanWellFounded
<1>2. PICK x \in S : \A y \in S : ~ (<<y, x>> \in R)
  <2> HIDE DEF R
  <2> QED
    BY <1>1, WFMin
<1>3. ASSUME NEW y \in S PROVE x <= y
  <2>1. ~ (<<y, x>> \in R)
    BY <1>2
  <2>2. y < x => <<y, x>> \in R
    BY DEF OpToRel
  <2>3. x \in Nat /\ y \in Nat
    OBVIOUS
  <2> HIDE DEF R
  <2> QED
    BY <2>1, <2>2, <2>3
<1> QED
  BY <1>3

\* A nonempty set of naturals below a bound has a highest element.
LEMMA GreatestElement ==
  ASSUME NEW n \in Nat, NEW S, S \subseteq 0 .. n, S # {}
  PROVE  \E t \in S : \A u \in S : u <= t
<1> DEFINE D == {n - t : t \in S}
<1>1. D \subseteq Nat /\ D # {}
  <2>1. \A t \in S : n - t \in Nat
    OBVIOUS
  <2> QED
    BY <2>1
<1>2. PICK d \in D : \A e \in D : d <= e
  <2> HIDE DEF D
  <2> QED
    BY <1>1, LeastElement
<1>3. PICK t \in S : d = n - t
  OBVIOUS
<1>4. ASSUME NEW u \in S PROVE u <= t
  <2>1. d <= n - u
    BY <1>2
  <2> QED
    BY <1>3, <2>1
<1> QED
  BY <1>4

-----------------------------------------------------------------------------
(* Queues.                                                                 *)

\* What remains of a queue when its head is taken.
LEMMA TailShift ==
    ASSUME NEW S, NEW s \in Seq(S), s # <<>>
    PROVE  /\ Tail(s) \in Seq(S) /\ Len(Tail(s)) = Len(s) - 1
           /\ Head(s) = s[1] /\ 1 \in 1 .. Len(s) /\ Head(s) \in S
           /\ \A i \in 1 .. Len(Tail(s)) : i + 1 \in 1 .. Len(s) /\ Tail(s)[i] = s[i + 1]
OBVIOUS

\* What a queue is when an element is put behind it.
LEMMA AppendShift ==
    ASSUME NEW S, NEW s \in Seq(S), NEW e \in S
    PROVE  /\ Append(s, e) \in Seq(S) /\ Len(Append(s, e)) = Len(s) + 1
           /\ \A i \in 1 .. Len(s) : Append(s, e)[i] = s[i]
           /\ Append(s, e)[Len(s) + 1] = e
           /\ Len(s) \in Nat
OBVIOUS

\* A queue of elements of one set that are all in another.
LEMMA QueueOf ==
    ASSUME NEW S, NEW T, NEW s \in Seq(S), \A i \in 1 .. Len(s) : s[i] \in T
    PROVE  s \in Seq(T)
OBVIOUS

\* A function from the first naturals is a sequence.
LEMMA FunctionSeq ==
    ASSUME NEW S, NEW n \in Nat, NEW f \in [1 .. n -> S]
    PROVE  f \in Seq(S) /\ Len(f) = n
OBVIOUS

-----------------------------------------------------------------------------
(* Division.                                                               *)

\* Division of naturals rounds down, by less than the divisor.
LEMMA Rounding ==
    ASSUME NEW x \in Nat, NEW r \in Nat \ {0}
    PROVE  x \div r \in Nat /\ (x \div r) * r <= x /\ (x \div r) * r > x - r
<1>1. x \div r \in Int /\ x \div r >= 0
  OBVIOUS
<1>2. (x \div r) * r > x - r
  OBVIOUS
<1>3. (x \div r) * r <= x
  OBVIOUS
<1> QED
  BY <1>1, <1>2, <1>3

\* A product of naturals is one.
LEMMA NaturalProduct == ASSUME NEW a \in Nat, NEW b \in Nat PROVE a * b \in Nat
OBVIOUS

\* Twice a product, when its factor is doubled and raised.
LEMMA TwiceAtLeast ==
    ASSUME NEW d \in Nat, NEW r \in Nat, NEW c \in Nat
    PROVE  (2 * d + c) * r >= 2 * (d * r)
<1>1. (2 * d + c) * r = 2 * (d * r) + c * r
  OBVIOUS
<1>2. c * r >= 0 /\ d * r \in Nat
  OBVIOUS
<1> QED
  BY <1>1, <1>2
=============================================================================
