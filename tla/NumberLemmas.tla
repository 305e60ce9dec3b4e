---------------------------- MODULE NumberLemmas ----------------------------
(* Sets and sequences of natural numbers have a least and a greatest       *)
(* element.  The arguments go by the least counterexample, because natural *)
(* numbers are well founded. *)
EXTENDS Naturals, Sequences, TLAPS, WellFoundedInduction

(* A set of natural numbers has a least element. *)
LEMMA HasMinimum ==
    ASSUME NEW S \in SUBSET Nat, S # {}
    PROVE  \E m \in S : \A n \in S : m <= n
<1> DEFINE R == OpToRel(<, Nat)
<1>1. IsWellFoundedOn(R, Nat)
  BY NatLessThanWellFounded
<1>2. PICK m \in S : \A n \in S : ~(<<n, m>> \in R)
  <2> HIDE DEF R
  <2> QED
    BY <1>1, WFMin
<1>3. ASSUME NEW n \in S PROVE m <= n
  <2>1. ~(n < m)
    BY <1>2 DEF OpToRel
  <2> QED
    BY <2>1
<1> QED
  BY <1>3

(* A bounded one has a greatest element: the least bound. *)
LEMMA HasMaximum ==
    ASSUME NEW S \in SUBSET Nat, S # {}, NEW b \in Nat, \A n \in S : n <= b
    PROVE  \E m \in S : \A n \in S : n <= m
<1> DEFINE U == {u \in Nat : \A n \in S : n <= u}
<1>1. PICK m \in U : \A u \in U : m <= u
  BY HasMinimum
<1>2. CASE m \in S
  BY <1>2
<1>3. CASE m \notin S
  <2>1. PICK n \in S : TRUE
    OBVIOUS
  <2>2. m - 1 \in U
    BY <1>3, <2>1
  <2> QED
    BY <1>1, <2>2
<1> QED
  BY <1>2, <1>3

(* The numbers of a sequence have a bound: there is no shortest prefix     *)
(* without one. *)
LEMMA SequenceIsBounded ==
    ASSUME NEW s \in Seq(Nat)
    PROVE  \E b \in Nat : \A i \in DOMAIN s : s[i] <= b
<1> DEFINE Unbounded ==
        {k \in 0..Len(s) : \A b \in Nat : \E i \in 1..k : ~(s[i] <= b)}
<1>1. Len(s) \in Nat /\ DOMAIN s = 1..Len(s) /\ \A i \in 1..Len(s) : s[i] \in Nat
  OBVIOUS
<1>2. CASE Unbounded = {}
  <2>1. Len(s) \notin Unbounded
    BY <1>2
  <2> QED
    BY <1>1, <2>1
<1>3. CASE Unbounded # {}
  <2>1. Unbounded \in SUBSET Nat
    BY <1>1
  <2>2. PICK k \in Unbounded : \A l \in Unbounded : k <= l
    <3> HIDE DEF Unbounded
    <3> QED
      BY <1>3, <2>1, HasMinimum
  <2>3. k \in 1..Len(s)
    <3>1. k # 0
      BY 0 \in Nat
    <3> QED
      BY <1>1, <3>1
  <2>4. k - 1 \notin Unbounded /\ k - 1 \in 0..Len(s)
    <3> HIDE DEF Unbounded
    <3> QED
      BY <1>1, <2>1, <2>2, <2>3
  <2>5. PICK b \in Nat : \A i \in 1..(k - 1) : s[i] <= b
    BY <2>4
  <2>6. b + s[k] \in Nat
    BY <1>1, <2>3
  <2>7. \A i \in 1..k : s[i] <= b + s[k]
    BY <1>1, <2>3, <2>5
  <2> QED
    BY <2>6, <2>7
<1> QED
  BY <1>2, <1>3

(* A sequence of numbers that is not empty has a greatest one. *)
LEMMA SequenceHasMaximum ==
    ASSUME NEW s \in Seq(Nat), s # <<>>
    PROVE  \E m \in {s[i] : i \in DOMAIN s} : \A n \in {s[i] : i \in DOMAIN s} : n <= m
<1> DEFINE S == {s[i] : i \in DOMAIN s}
<1>1. S \in SUBSET Nat /\ S # {}
  <2>1. Len(s) \in Nat /\ DOMAIN s = 1..Len(s) /\ \A i \in 1..Len(s) : s[i] \in Nat
    OBVIOUS
  <2>2. Len(s) # 0
    OBVIOUS
  <2>3. s[1] \in S
    BY <2>1, <2>2
  <2> QED
    BY <2>1, <2>3
<1>2. PICK b \in Nat : \A i \in DOMAIN s : s[i] <= b
  BY SequenceIsBounded
<1>3. \A n \in S : n <= b
  BY <1>2
<1> QED
  BY <1>1, <1>3, HasMaximum
=============================================================================
