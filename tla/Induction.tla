------------------------------- MODULE Induction -------------------------------
(***************************************************************************)
(* Induction over numbers and sequences.  The library states it for a      *)
(* predicate, which would have to be a parameter of the theorem, and no    *)
(* prover here takes one.  A set does as well: that every non-empty set of *)
(* numbers has a least one is a fact about sets.                           *)
(***************************************************************************)
EXTENDS Integers, FiniteSetTheorems, SequenceTheorems, TLAPS

Below == {p \in Nat \X Nat : p[1] < p[2]}

LEMMA LeastNumber ==
    ASSUME NEW T, T \subseteq Nat, T # {} PROVE \E x \in T : \A y \in T : x <= y
<1>1. IsWellFoundedOn(Below, Nat)
  BY Zenon, NatLessThanWellFounded DEF OpToRel, Below
<1>2. \E x \in T : \A y \in T : ~(<<y, x>> \in Below)
  BY <1>1, WFMin
<1>3. PICK x \in T : \A y \in T : ~(<<y, x>> \in Below)
  BY <1>2
<1>4. ASSUME NEW y \in T PROVE x <= y
  <2>1. x \in Nat /\ y \in Nat
    OBVIOUS
  <2>2. <<y, x>> \in Below <=> y < x
    BY <2>1 DEF Below
  <2> QED
    BY <1>3, <2>1, <2>2
<1> QED
  BY <1>4

LEMMA NumberInduction ==
    ASSUME NEW P, 0 \in P, \A n \in Nat : n \in P => n + 1 \in P
    PROVE  \A n \in Nat : n \in P
<1> SUFFICES ASSUME NEW m \in Nat, m \notin P PROVE FALSE
  OBVIOUS
<1> DEFINE T == {n \in Nat : n \notin P}
<1>1. T # {} /\ T \subseteq Nat
  OBVIOUS
<1>2. PICK x \in T : \A y \in T : x <= y
  <2> HIDE DEF T
  <2> QED
    BY <1>1, LeastNumber
<1>3. x \in Nat \ {0} /\ x - 1 \in Nat /\ (x - 1) + 1 = x
  OBVIOUS
<1>4. x - 1 \in P
  BY <1>2, <1>3
<1> QED
  BY <1>3, <1>4

\* A set of sequences that has the empty one and every sequence that is one element
\* longer has them all.
LEMMA SequenceInduction ==
    ASSUME NEW S, NEW P, <<>> \in P,
           \A s \in Seq(S) : \A x \in S : s \in P => Append(s, x) \in P
    PROVE  \A s \in Seq(S) : s \in P
<1> DEFINE N == {n \in Nat : \A s \in Seq(S) : Len(s) = n => s \in P}
<1>1. 0 \in N
  OBVIOUS
<1>2. ASSUME NEW n \in Nat, n \in N PROVE n + 1 \in N
  <2> SUFFICES ASSUME NEW s \in Seq(S), Len(s) = n + 1 PROVE s \in P
    OBVIOUS
  <2>1. s # <<>>
    OBVIOUS
  <2>2. PICK t \in Seq(S), x \in S : s = Append(t, x)
    BY <2>1, SequenceEmptyOrAppend
  <2>3. Len(t) = n
    BY <2>2
  <2> QED
    BY <1>2, <2>2, <2>3
<1>3. \A n \in Nat : n \in N
  <2> HIDE DEF N
  <2> QED
    BY <1>1, <1>2, NumberInduction
<1> QED
  BY <1>3

LEMMA CountNone == Cardinality({}) = 0
BY FS_EmptySet

\* Members of a set among the numbers of a range that grows by one.
LEMMA CountOneMore ==
    \A C : \A a, b \in Int : a <= b + 1 =>
        /\ Cardinality({i \in a..b : i \in C}) \in Nat
        /\ Cardinality({i \in a..(b + 1) : i \in C})
              = Cardinality({i \in a..b : i \in C}) + (IF b + 1 \in C THEN 1 ELSE 0)
<1> SUFFICES ASSUME NEW C, NEW a \in Int, NEW b \in Int, a <= b + 1
             PROVE  /\ Cardinality({i \in a..b : i \in C}) \in Nat
                    /\ Cardinality({i \in a..(b + 1) : i \in C})
                          = Cardinality({i \in a..b : i \in C})
                               + (IF b + 1 \in C THEN 1 ELSE 0)
  OBVIOUS
<1> DEFINE N == {i \in a..b : i \in C}
           M == {i \in a..(b + 1) : i \in C}
<1>1. IsFiniteSet(N)
  <2>1. IsFiniteSet(a..b) /\ N \in SUBSET (a..b)
    BY FS_Interval
  <2> HIDE DEF N
  <2> QED
    BY <2>1, FS_Subset
<1>2. Cardinality(N) \in Nat
  BY <1>1, FS_CardinalityType
<1>3. b + 1 \notin N
  OBVIOUS
<1>4. CASE b + 1 \in C
  <2>1. M = N \cup {b + 1}
    BY <1>4
  <2> DEFINE x == b + 1
  <2> HIDE DEF N, M, x
  <2>2. Cardinality(N \cup {x}) = Cardinality(N) + 1
    BY <1>1, <1>3, FS_AddElement DEF x
  <2> QED
    BY <1>2, <1>4, <2>1, <2>2 DEF x, N, M
<1>5. CASE b + 1 \notin C
  <2>1. M = N
    BY <1>5
  <2> QED
    BY <1>2, <1>5, <2>1
<1> QED
  BY <1>4, <1>5
================================================================================
