----------------------------- MODULE ProofLemmas -----------------------------
(***************************************************************************)
(* Facts about numbers, sequences and finite sets that the proofs about    *)
(* the components keep needing.                                            *)
(***************************************************************************)
EXTENDS Naturals, Sequences, FiniteSets, SequencesExt, TLAPS, SequenceTheorems,
        FiniteSetTheorems, WellFoundedInduction

\* A set of naturals with a member has a smallest one: the form in which a
\* proof by induction over positions or counts is made.
LEMMA SmallestNat ==
    ASSUME NEW S, S \subseteq Nat, S # {}
    PROVE  \E n \in S : \A m \in S : n <= m
<1> DEFINE R == OpToRel(<, Nat)
<1>1. IsWellFoundedOn(R, Nat)
  BY NatLessThanWellFounded
<1>2. \A m, n \in Nat : m < n => <<m, n>> \in R
  BY DEF OpToRel
<1> HIDE DEF R
<1>3. PICK n \in S : \A m \in S : ~(<<m, n>> \in R)
  BY <1>1, WFMin
<1>4. ASSUME NEW m \in S PROVE n <= m
  <2>1. m \in Nat /\ n \in Nat /\ ~(m < n)
    BY <1>2, <1>3
  <2> QED  BY <2>1
<1> QED  BY <1>3, <1>4
\* The largest of a set of naturals that has a bound.
LEMMA LargestNat ==
    ASSUME NEW N \in Nat, NEW S, S \subseteq 0..N, S # {}
    PROVE  Max(S) \in S /\ \A y \in S : Max(S) >= y
<1> DEFINE B == {n \in Nat : \A y \in S : n >= y}
<1>1. N \in B
  OBVIOUS
<1>2. PICK n \in B : \A m \in B : n <= m
  <2> B \subseteq Nat /\ B # {}
    BY <1>1
  <2> HIDE DEF B
  <2> QED  BY SmallestNat
<1>3. n \in S
  <2> SUFFICES ASSUME n \notin S PROVE FALSE
    OBVIOUS
  <2>1. PICK z \in S : TRUE
    OBVIOUS
  <2>2. n \in Nat /\ z \in Nat /\ n >= z /\ n # z
    BY <1>2
  <2>3. n - 1 \in Nat /\ ~(n <= n - 1)
    BY <2>2
  <2>4. \A y \in S : n - 1 >= y
    BY <1>2
  <2> QED  BY <1>2, <2>3, <2>4
<1>4. \E x \in S : \A y \in S : x >= y
  BY <1>2, <1>3
<1> QED  BY <1>4 DEF Max

\* The elements of a sequence, when it grows at its end and shrinks at its head.
LEMMA ElementsOfAppend ==
    ASSUME NEW S, NEW s \in Seq(S), NEW e \in S
    PROVE  ToSet(Append(s, e)) = ToSet(s) \cup {e}
<1>1. /\ Len(s) \in Nat /\ DOMAIN s = 1..Len(s)
      /\ Append(s, e) \in Seq(S) /\ DOMAIN Append(s, e) = 1..(Len(s) + 1)
      /\ \A i \in 1..Len(s) : Append(s, e)[i] = s[i]
      /\ Append(s, e)[Len(s) + 1] = e
  BY AppendProperties, LenProperties
<1>2. 1..(Len(s) + 1) = 1..Len(s) \cup {Len(s) + 1}
  BY <1>1
<1> QED  BY <1>1, <1>2 DEF ToSet

LEMMA ElementsOfTail ==
    ASSUME NEW S, NEW s \in Seq(S), s # << >>
    PROVE  ToSet(s) = {Head(s)} \cup ToSet(Tail(s))
<1>1. /\ Len(s) \in Nat /\ Len(s) >= 1 /\ DOMAIN s = 1..Len(s) /\ Head(s) = s[1]
      /\ DOMAIN Tail(s) = 1..(Len(s) - 1)
      /\ \A i \in 1..(Len(s) - 1) : Tail(s)[i] = s[i + 1]
  BY HeadTailProperties, LenProperties, EmptySeq
<1>2. ASSUME NEW i \in 1..Len(s) PROVE s[i] \in {Head(s)} \cup ToSet(Tail(s))
  <2>1. CASE i = 1
    BY <1>1, <2>1
  <2>2. CASE i # 1
    <3>1. i - 1 \in 1..(Len(s) - 1) /\ (i - 1) + 1 = i
      BY <1>1, <2>2
    <3>2. Tail(s)[i - 1] = s[i]
      BY <1>1, <3>1
    <3> QED  BY <1>1, <3>1, <3>2 DEF ToSet
  <2> QED  BY <2>1, <2>2
<1>3. ASSUME NEW i \in 1..(Len(s) - 1) PROVE Tail(s)[i] \in ToSet(s)
  <2>1. i + 1 \in 1..Len(s)
    BY <1>1
  <2> QED  BY <1>1, <2>1 DEF ToSet
<1>4. Head(s) \in ToSet(s)
  <2>1. 1 \in 1..Len(s)
    BY <1>1
  <2> QED  BY <1>1, <2>1 DEF ToSet
<1> QED  BY <1>1, <1>2, <1>3, <1>4 DEF ToSet

LEMMA ElementsOfConcat ==
    ASSUME NEW S, NEW s \in Seq(S), NEW t \in Seq(S)
    PROVE  ToSet(s \o t) = ToSet(s) \cup ToSet(t)
<1>1. /\ Len(s) \in Nat /\ DOMAIN s = 1..Len(s) /\ Len(t) \in Nat /\ DOMAIN t = 1..Len(t)
      /\ DOMAIN (s \o t) = 1..(Len(s) + Len(t))
      /\ \A i \in 1..(Len(s) + Len(t)) :
            (s \o t)[i] = IF i <= Len(s) THEN s[i] ELSE t[i - Len(s)]
  BY ConcatProperties, LenProperties
<1>2. ASSUME NEW i \in 1..(Len(s) + Len(t)) PROVE (s \o t)[i] \in ToSet(s) \cup ToSet(t)
  <2>1. CASE i <= Len(s)
    BY <1>1, <2>1 DEF ToSet
  <2>2. CASE ~(i <= Len(s))
    <3>1. i - Len(s) \in 1..Len(t)
      BY <1>1, <2>2
    <3> QED  BY <1>1, <2>2, <3>1 DEF ToSet
  <2> QED  BY <2>1, <2>2
<1>3. ASSUME NEW i \in 1..Len(s) PROVE s[i] \in ToSet(s \o t)
  <2>1. i \in 1..(Len(s) + Len(t)) /\ i <= Len(s)
    BY <1>1
  <2> QED  BY <1>1, <2>1 DEF ToSet
<1>4. ASSUME NEW i \in 1..Len(t) PROVE t[i] \in ToSet(s \o t)
  <2>1. /\ Len(s) + i \in 1..(Len(s) + Len(t)) /\ ~(Len(s) + i <= Len(s))
        /\ (Len(s) + i) - Len(s) = i
    BY <1>1
  <2>2. (s \o t)[Len(s) + i] = t[i]
    BY <1>1, <2>1
  <2> QED  BY <1>1, <2>1, <2>2 DEF ToSet
<1> QED  BY <1>1, <1>2, <1>3, <1>4 DEF ToSet

\* An order of a finite set, SetToSeqs, has exactly its elements.
LEMMA ElementsOfOrder ==
    ASSUME NEW S, IsFiniteSet(S), NEW s \in SetToSeqs(S)
    PROVE  s \in Seq(S) /\ ToSet(s) = S
<1> DEFINE n == Cardinality(S)
<1>1. n \in Nat
  BY FS_CardinalityType
<1>2. s \in [1..n -> S] /\ \A i, j \in 1..n : i # j => s[i] # s[j]
  BY DEF SetToSeqs
<1>3. s \in Injection(1..n, S)
  BY <1>2 DEF Injection, IsInjective
<1>4. IsFiniteSet(1..n) /\ Cardinality(1..n) = n
  BY <1>1, FS_Interval
<1>5. s \in Surjection(1..n, S)
  BY <1>3, <1>4, FS_Injection
<1>6. s \in Seq(S) /\ DOMAIN s = 1..n
  BY <1>1, <1>2
<1> QED  BY <1>2, <1>5, <1>6 DEF ToSet, Surjection

-----------------------------------------------------------------------------
(* Folds, whose definitions are functions CHOOSEn by what they satisfy *)

\* Induction up to a bound, in a form without a statement as a parameter: a
\* set that has 0 and, with each number below the bound, the next.
LEMMA UpTo ==
    ASSUME NEW n \in Nat, NEW B, 0 \in B, \A k \in 1..n : k - 1 \in B => k \in B
    PROVE  \A k \in 0..n : k \in B
<1> SUFFICES ASSUME (0..n) \ B # {} PROVE FALSE
  OBVIOUS
<1>1. PICK k \in (0..n) \ B : \A m \in (0..n) \ B : k <= m
  <2> (0..n) \ B \subseteq Nat
    OBVIOUS
  <2> QED  BY SmallestNat
<1>2. k \in 1..n /\ k - 1 \in 0..n /\ ~(k <= k - 1)
  BY <1>1
<1>3. k - 1 \in B
  BY <1>1, <1>2
<1> QED  BY <1>1, <1>2, <1>3

\* g is what folding step over P from b comes to, set by set.
FoldsTo(g, P, S, b, step, pick) ==
    /\ g \in [SUBSET P -> S]
    /\ \A s \in SUBSET P : g[s] = IF s = {} THEN b ELSE step[<<pick[s], g[s \ {pick[s]}]>>]

\* pick chooses a member of every nonempty part of P.
Picks(pick, P) == \A s \in SUBSET P : s # {} => pick[s] \in s

\* The function a fold over a finite set is defined by exists: step says what
\* a member makes of what the others came to, pick which member is the last.
LEMMA FoldExists ==
    ASSUME NEW P, IsFiniteSet(P), NEW S, NEW b \in S, NEW step \in [P \X S -> S],
           NEW pick, Picks(pick, P)
    PROVE  \E g : FoldsTo(g, P, S, b, step, pick)
<1> DEFINE n == Cardinality(P)
           D(k) == {s \in SUBSET P : Cardinality(s) <= k}
           Solves(k, g) == /\ g \in [D(k) -> S]
                           /\ \A s \in D(k) :
                                 g[s] = IF s = {} THEN b ELSE step[<<pick[s], g[s \ {pick[s]}]>>]
           B == {k \in 0..n : \E g : Solves(k, g)}
<1>1. n \in Nat
  BY FS_CardinalityType
<1>2. ASSUME NEW s \in SUBSET P
      PROVE  /\ IsFiniteSet(s) /\ Cardinality(s) \in Nat /\ Cardinality(s) <= n
             /\ Cardinality(s) = 0 <=> s = {}
  BY FS_CardinalityType, FS_Subset, FS_EmptySet
<1> HIDE DEF n
<1>3. 0 \in B
  <2> DEFINE g == [s \in D(0) |-> b]
  <2>1. ASSUME NEW s \in D(0) PROVE s = {}
    <3>1. s \in SUBSET P /\ Cardinality(s) <= 0
      OBVIOUS
    <3>2. Cardinality(s) \in Nat /\ (Cardinality(s) = 0 <=> s = {})
      BY <1>2, <3>1
    <3> QED  BY <3>1, <3>2
  <2>2. Solves(0, g)
    <3> HIDE DEF D
    <3> QED  BY <2>1
  <2> HIDE DEF Solves
  <2> QED  BY <1>1, <2>2
<1>4. ASSUME NEW k \in 1..n, k - 1 \in B PROVE k \in B
  <2>1. PICK g : Solves(k - 1, g)
    BY <1>4
  <2>k. k \in Nat /\ k - 1 \in Nat
    OBVIOUS
  <2> DEFINE h == [s \in D(k) |-> IF s = {} THEN b ELSE step[<<pick[s], g[s \ {pick[s]}]>>]]
  <2>2. ASSUME NEW s \in D(k), s # {}
        PROVE  /\ pick[s] \in P /\ s \ {pick[s]} \in D(k - 1) /\ s \ {pick[s]} \in D(k)
    <3>1. s \in SUBSET P /\ Cardinality(s) <= k
      OBVIOUS
    <3>2. pick[s] \in s
      BY <2>2, <3>1 DEF Picks
    <3>3. IsFiniteSet(s) /\ Cardinality(s) \in Nat
      BY <1>2, <3>1
    <3>4. Cardinality(s \ {pick[s]}) = Cardinality(s) - 1
      BY <3>2, <3>3, FS_RemoveElement
    <3>5. Cardinality(s \ {pick[s]}) <= k - 1 /\ Cardinality(s \ {pick[s]}) <= k
      BY <2>k, <3>1, <3>3, <3>4
    <3> QED  BY <3>1, <3>2, <3>5
  <2>3. ASSUME NEW s \in D(k - 1) PROVE s \in D(k)
    <3>1. s \in SUBSET P /\ Cardinality(s) <= k - 1
      OBVIOUS
    <3>2. Cardinality(s) \in Nat
      BY <1>2, <3>1
    <3>3. Cardinality(s) <= k
      BY <2>k, <3>1, <3>2
    <3> QED  BY <3>1, <3>3
  <2> HIDE DEF D
  <2>4. \A s \in D(k - 1) : h[s] = g[s]
    BY <2>1, <2>3
  <2>5. h \in [D(k) -> S]
    BY <2>1, <2>2
  <2>6. \A s \in D(k) : h[s] = IF s = {} THEN b ELSE step[<<pick[s], h[s \ {pick[s]}]>>]
    BY <2>2, <2>4
  <2> HIDE DEF h
  <2>7. Solves(k, h)
    BY <2>5, <2>6
  <2> HIDE DEF Solves
  <2> QED  BY <2>7
<1>5. n \in B
  <2>1. \A k \in 0..n : k \in B
    <3> HIDE DEF B
    <3> QED  BY <1>1, <1>3, <1>4, UpTo
  <2> HIDE DEF B
  <2> QED  BY <1>1, <2>1
<1>6. D(n) = SUBSET P
  <2>1. \A s \in SUBSET P : Cardinality(s) <= n
    BY <1>2
  <2> QED  BY <2>1
<1> HIDE DEF D
<1> QED  BY <1>5, <1>6 DEF FoldsTo

\* Induction over the parts of a finite set, a picked member at a time.
LEMMA PartsUpTo ==
    ASSUME NEW P, IsFiniteSet(P), NEW pick, Picks(pick, P), NEW J, {} \in J,
           \A s \in SUBSET P : s # {} /\ s \ {pick[s]} \in J => s \in J
    PROVE  \A s \in SUBSET P : s \in J
<1> DEFINE n == Cardinality(P)
           D(k) == {s \in SUBSET P : Cardinality(s) = k}
           B == {k \in 0..n : D(k) \subseteq J}
<1>1. n \in Nat
  BY FS_CardinalityType
<1>2. ASSUME NEW s \in SUBSET P
      PROVE  /\ IsFiniteSet(s) /\ Cardinality(s) \in Nat /\ Cardinality(s) <= n
             /\ Cardinality(s) = 0 <=> s = {}
  BY FS_CardinalityType, FS_Subset, FS_EmptySet
<1> HIDE DEF n
<1>3. 0 \in B
  <2>1. ASSUME NEW s \in D(0) PROVE s \in J
    <3>1. s \in SUBSET P /\ Cardinality(s) = 0
      OBVIOUS
    <3> QED  BY <1>2, <3>1
  <2>2. D(0) \subseteq J
    <3> HIDE DEF D
    <3> QED  BY <2>1
  <2> HIDE DEF D
  <2> QED  BY <1>1, <2>2
<1>4. ASSUME NEW k \in 1..n, k - 1 \in B PROVE k \in B
  <2>1. ASSUME NEW s \in D(k) PROVE s \in J
    <3>1. s \in SUBSET P /\ Cardinality(s) = k /\ s # {}
      BY <1>2
    <3>2. pick[s] \in s
      BY <3>1 DEF Picks
    <3>3. Cardinality(s \ {pick[s]}) = k - 1
      BY <1>2, <3>1, <3>2, FS_RemoveElement
    <3>4. s \ {pick[s]} \in J
      BY <1>4, <3>1, <3>3
    <3> QED  BY <3>1, <3>4
  <2> HIDE DEF D
  <2> QED  BY <2>1
<1>5. \A k \in 0..n : k \in B
  <2> HIDE DEF B
  <2> QED  BY <1>1, <1>3, <1>4, UpTo
<1>6. ASSUME NEW s \in SUBSET P PROVE s \in J
  <2>1. Cardinality(s) \in 0..n
    BY <1>1, <1>2
  <2>2. s \in D(Cardinality(s)) /\ Cardinality(s) \in B
    BY <1>5, <2>1
  <2> QED  BY <2>2
<1> QED  BY <1>6

FoldsLeft(g, n, S, b, step) ==
    /\ g \in [SUBSET (1..n) -> S]
    /\ \A s \in SUBSET (1..n) :
          g[s] = IF s = {} THEN b ELSE step[<<Max(s), g[s \ {Max(s)}]>>]

\* The same over the places of a sequence, the last place being folded last.
LEMMA FoldLeftExists ==
    ASSUME NEW n \in Nat, NEW S, NEW b \in S, NEW step \in [(1..n) \X S -> S]
    PROVE  \E g : FoldsLeft(g, n, S, b, step)
<1>1. IsFiniteSet(1..n)
  BY FS_Interval
<1>2. ASSUME NEW s \in SUBSET (1..n), s # {} PROVE Max(s) \in s
  <2> s \subseteq 0..n
    OBVIOUS
  <2> QED  BY <1>2, LargestNat
<1>3. ASSUME NEW P, P = 1..n, NEW pick, pick = [s \in SUBSET P |-> Max(s)]
      PROVE  \E g : FoldsTo(g, P, S, b, step, pick)
  <2>1. IsFiniteSet(P) /\ step \in [P \X S -> S]
    BY <1>1, <1>3
  <2>2. Picks(pick, P)
    BY <1>2, <1>3 DEF Picks
  <2> QED  BY <2>1, <2>2, FoldExists
<1>4. PICK g : FoldsTo(g, 1..n, S, b, step, [s \in SUBSET (1..n) |-> Max(s)])
  BY <1>3
<1>5. /\ g \in [SUBSET (1..n) -> S]
      /\ \A s \in SUBSET (1..n) :
            g[s] = IF s = {} THEN b ELSE step[<<Max(s), g[s \ {Max(s)}]>>]
  <2> DEFINE pick == [s \in SUBSET (1..n) |-> Max(s)]
  <2>1. \A s \in SUBSET (1..n) : pick[s] = Max(s)
    OBVIOUS
  <2> HIDE DEF pick
  <2> QED  BY <1>4, <2>1 DEF FoldsTo, pick
<1> QED  BY <1>5 DEF FoldsLeft

\* The first k places are the k-th and those before it.
LEMMA PlacesUpTo ==
    ASSUME NEW k \in Nat, k # 0
    PROVE  Max(1..k) = k /\ (1..k) \ {k} = 1..(k - 1) /\ 1..k # {}
<1>1. k \in 1..k /\ \A y \in 1..k : k >= y
  OBVIOUS
<1>2. Max(1..k) \in 1..k /\ \A y \in 1..k : Max(1..k) >= y
  <2> 1..k \subseteq 0..k /\ 1..k # {}
    BY <1>1
  <2> QED  BY LargestNat
<1> QED  BY <1>1, <1>2
===============================================================================
