---------------------------- MODULE AlgorithmProofs ----------------------------
(***************************************************************************)
(* What is proved of the algorithms that answer one case at a time: the    *)
(* chunker's batches hold every chunk of a corpus once, within the limits, *)
(* a cross-reference table moves a path alike wherever it is met, the      *)
(* notebooks of a run lose no code of its outputs and repeat none, and a   *)
(* hydration plan holds what its corpus reads and loads it once.           *)
(*                                                                         *)
(* A case is drawn, answered once, and stays: the inductive invariants say *)
(* only that the answer is what the operator gives of the drawn input, and *)
(* the work is in the lemmas about the operators.  Their folds are proved  *)
(* about by induction over the places of a sequence (ProofLemmas).         *)
(***************************************************************************)
EXTENDS Batching, CrossReference, Notebooks, Hydration, ProofLemmas

-----------------------------------------------------------------------------
(* The groups of a corpus *)

Groups == [Places -> Places]

LEMMA SmallestOf ==
    ASSUME NEW S \in SUBSET Nat, S # {}
    PROVE  Min(S) \in S /\ \A y \in S : Min(S) <= y
BY SmallestNat DEF Min

LEMMA LargestOf ==
    ASSUME NEW n \in Nat, NEW S \in SUBSET (1..n), S # {}
    PROVE  Max(S) \in S /\ Max(S) \in 1..n
<1> S \subseteq 0..n
  OBVIOUS
<1> QED  BY LargestNat

LEMMA UnionKeeps ==
    ASSUME NEW g \in Groups, NEW a \in Places, NEW b \in Places
    PROVE  /\ Union(g, a, b) \in Groups
           /\ Union(g, a, b)[a] = Union(g, a, b)[b]
           /\ \A x, y \in Places : g[x] = g[y] => Union(g, a, b)[x] = Union(g, a, b)[y]
<1>1. Min({g[a], g[b]}) \in {g[a], g[b]}
  <2> {g[a], g[b]} \in SUBSET Nat /\ {g[a], g[b]} # {}
    BY BatchingAssumption DEF Groups, Places
  <2> QED  BY SmallestOf
<1>2. g[a] \in Places /\ g[b] \in Places
  BY DEF Groups
<1> DEFINE m == Min({g[a], g[b]})
<1>3. m \in Places
  BY <1>1, <1>2
<1>4. Union(g, a, b) = [i \in Places |-> IF g[i] \in {g[a], g[b]} THEN m ELSE g[i]]
  BY DEF Union
<1> HIDE DEF m
<1> QED  BY <1>3, <1>4 DEF Groups

\* Every pair is joined by UnionAll, and what was joined stays so.
LEMMA UnionAllJoins ==
    ASSUME NEW g \in Groups, NEW pairs \in SUBSET (Places \X Places)
    PROVE  /\ UnionAll(g, pairs) \in Groups
           /\ \A p \in pairs : UnionAll(g, pairs)[p[1]] = UnionAll(g, pairs)[p[2]]
           /\ \A x, y \in Places : g[x] = g[y] => UnionAll(g, pairs)[x] = UnionAll(g, pairs)[y]
<1> DEFINE pick == [s \in SUBSET pairs |-> CHOOSE x \in s : TRUE]
           step == [z \in pairs \X Groups |-> Union(z[2], z[1][1], z[1][2])]
           Eqn(f) == f = [s \in SUBSET pairs |->
                           IF s = {} THEN g
                           ELSE Union(f[s \ {CHOOSE x \in s : TRUE}],
                                      (CHOOSE x \in s : TRUE)[1], (CHOOSE x \in s : TRUE)[2])]
           c == CHOOSE f : Eqn(f)
<1>1. IsFiniteSet(pairs)
  <2>1. IsFiniteSet(Places)
    BY BatchingAssumption, FS_Interval DEF Places
  <2> QED  BY <2>1, FS_Product, FS_Subset
<1>2. \A s \in SUBSET pairs : pick[s] = CHOOSE x \in s : TRUE
  OBVIOUS
<1>3. Picks(pick, pairs)
  BY DEF Picks
<1>4. \A p \in pairs : p[1] \in Places /\ p[2] \in Places
  OBVIOUS
<1>5. step \in [pairs \X Groups -> Groups]
  BY <1>4, UnionKeeps
<1>6. \A p \in pairs : \A v \in Groups : step[<<p, v>>] = Union(v, p[1], p[2])
  OBVIOUS
<1> HIDE DEF pick, step
<1>7. PICK f : FoldsTo(f, pairs, Groups, g, step, pick)
  BY <1>1, <1>3, <1>5, FoldExists
<1>8. Eqn(f)
  <2>1. \A s \in SUBSET pairs : s # {} => pick[s] \in pairs /\ f[s \ {pick[s]}] \in Groups
    BY <1>3, <1>7 DEF Picks, FoldsTo
  <2>2. \A s \in SUBSET pairs :
           f[s] = IF s = {} THEN g ELSE Union(f[s \ {pick[s]}], pick[s][1], pick[s][2])
    BY <1>6, <1>7, <2>1 DEF FoldsTo
  <2>3. \A s \in SUBSET pairs :
           f[s] = IF s = {} THEN g
                  ELSE Union(f[s \ {CHOOSE x \in s : TRUE}],
                             (CHOOSE x \in s : TRUE)[1], (CHOOSE x \in s : TRUE)[2])
    BY <1>2, <2>2
  <2>4. f \in [SUBSET pairs -> Groups]
    BY <1>7 DEF FoldsTo
  <2> QED  BY <2>3, <2>4
<1>9. Eqn(c)
  <2> HIDE DEF Eqn
  <2> QED  BY <1>8
<1>10. UnionAll(g, pairs) = c[pairs]
  BY DEF UnionAll, FoldSet, MapThenFoldSet
<1>11. c[{}] = g /\ \A s \in SUBSET pairs : s # {} =>
         c[s] = Union(c[s \ {pick[s]}], pick[s][1], pick[s][2])
  <2> HIDE DEF c
  <2> QED  BY <1>2, <1>9
<1> HIDE DEF c
<1> DEFINE Joins(h, s) == /\ h \in Groups
                          /\ \A p \in s : h[p[1]] = h[p[2]]
                          /\ \A x, y \in Places : g[x] = g[y] => h[x] = h[y]
           J == {s \in SUBSET pairs : Joins(c[s], s)}
<1>12. {} \in J
  BY <1>11
<1>13. ASSUME NEW s \in SUBSET pairs, s # {}, s \ {pick[s]} \in J PROVE s \in J
  <2>1. pick[s] \in s /\ pick[s] \in pairs
    BY <1>3, <1>13 DEF Picks
  <2>2. c[s] = Union(c[s \ {pick[s]}], pick[s][1], pick[s][2])
    BY <1>11, <1>13
  <2> DEFINE h == c[s \ {pick[s]}]
             a == pick[s][1]
             b == pick[s][2]
  <2>3. Joins(h, s \ {pick[s]})
    BY <1>13
  <2>4. a \in Places /\ b \in Places
    BY <1>4, <2>1
  <2> HIDE DEF h, a, b
  <2>5. /\ Union(h, a, b) \in Groups /\ Union(h, a, b)[a] = Union(h, a, b)[b]
        /\ \A x, y \in Places : h[x] = h[y] => Union(h, a, b)[x] = Union(h, a, b)[y]
    BY <2>3, <2>4, UnionKeeps
  <2>6. \A p \in s : Union(h, a, b)[p[1]] = Union(h, a, b)[p[2]]
    BY <1>4, <2>3, <2>5 DEF a, b
  <2>7. c[s] = Union(h, a, b)
    BY <2>2 DEF h, a, b
  <2> QED  BY <2>3, <2>5, <2>6, <2>7
<1>14. pairs \in J
  <2> HIDE DEF J
  <2> QED  BY <1>1, <1>3, <1>12, <1>13, PartsUpTo
<1> QED  BY <1>10, <1>14

LEMMA ProducerIsBefore ==
    ASSUME NEW corpus, NEW name, NEW i \in Places
    PROVE  /\ Producer(corpus, name, i) \in 0..(i - 1)
           /\ Producer(corpus, name, i) # 0 =>
                 name \in corpus.chunk[Producer(corpus, name, i)].creates
           /\ \A j \in 1..(i - 1) :
                 name \in corpus.chunk[j].creates => j <= Producer(corpus, name, i)
<1> DEFINE S == {0} \cup {j \in 1..(i - 1) : name \in corpus.chunk[j].creates}
<1>1. i \in Nat /\ i - 1 \in Nat
  BY BatchingAssumption DEF Places
<1>2. S \subseteq 0..(i - 1) /\ S # {}
  BY <1>1
<1>3. Max(S) \in S /\ \A y \in S : Max(S) >= y
  <2> HIDE DEF S
  <2> QED  BY <1>1, <1>2, LargestNat
<1>4. Producer(corpus, name, i) = Max(S)
  BY DEF Producer, Nearest
<1>5. Producer(corpus, name, i) \in S /\ \A y \in S : Producer(corpus, name, i) >= y
  BY <1>3, <1>4
<1> HIDE DEF S
<1>6. Producer(corpus, name, i) \in 0..(i - 1)
  BY <1>2, <1>5
<1> QED  BY <1>1, <1>5, <1>6 DEF S

LEMMA EdgesAreOfPlaces ==
    ASSUME NEW corpus
    PROVE  /\ StrongEdges(corpus) \in SUBSET (Places \X Places)
           /\ WeakEdges(corpus) \in SUBSET (Places \X Places)
<1>1. ASSUME NEW from \in 0..CorpusLength, NEW i \in Places
      PROVE  Edge(from, i) \in SUBSET (Places \X Places)
  BY <1>1, BatchingAssumption DEF Edge, Places
<1>2. \A i \in Places : 0..(i - 1) \subseteq 0..CorpusLength
  BY BatchingAssumption DEF Places
<1>3. \A i \in Places : \A name : Edge(Producer(corpus, name, i), i) \in SUBSET (Places \X Places)
  BY <1>1, <1>2, ProducerIsBefore
<1>4. ASSUME NEW i \in Places, NEW v
      PROVE  Edge(Setter(corpus, v, i), i)
                \in SUBSET (Places \X Places)
  <2> DEFINE S == {0} \cup {j \in 1..(i - 1) : v \in corpus.chunk[j].sets}
  <2>1. S \subseteq 0..CorpusLength /\ S # {}
    <3>1. CorpusLength \in Nat /\ i \in 1..CorpusLength
      BY BatchingAssumption DEF Places
    <3> QED  BY <3>1
  <2>2. Max(S) \in S
    <3> HIDE DEF S
    <3> QED  BY <2>1, LargestNat, BatchingAssumption
  <2>3. Max(S) \in 0..CorpusLength
    <3> HIDE DEF S
    <3> QED  BY <2>1, <2>2
  <2> QED  BY <1>1, <2>3 DEF Setter, Nearest
<1>5. ASSUME NEW i \in Places, NEW m
      PROVE  Edge(Definition(corpus, m), i) \in SUBSET (Places \X Places)
  <2> DEFINE S == {0} \cup {j \in Places : m \in corpus.chunk[j].defines}
  <2>1. S \subseteq 0..CorpusLength /\ S # {}
    BY BatchingAssumption DEF Places
  <2>2. Max(S) \in 0..CorpusLength
    <3> HIDE DEF S
    <3> QED  BY <2>1, LargestNat, BatchingAssumption
  <2> QED  BY <1>1, <2>2 DEF Definition
<1>6. ASSUME NEW e \in StrongEdges(corpus) PROVE e \in Places \X Places
  <2>1. PICK i \in Places : \E name : e \in Edge(Producer(corpus, name, i), i)
    BY DEF StrongEdges
  <2> QED  BY <1>3, <2>1
<1>7. ASSUME NEW e \in WeakEdges(corpus) PROVE e \in Places \X Places
  <2>1. PICK i \in Places :
           \/ \E v : e \in Edge(Setter(corpus, v, i), i)
           \/ \E m : e \in Edge(Definition(corpus, m), i)
           \/ \E name : e \in Edge(Producer(corpus, name, i), i)
    BY DEF WeakEdges
  <2> QED  BY <1>3, <1>4, <1>5, <2>1
<1> QED  BY <1>6, <1>7

LEMMA ResolvedJoins ==
    ASSUME NEW strong \in Groups, NEW weak \in SUBSET (Places \X Places)
    PROVE  /\ Resolved(strong, weak).group \in Groups
           /\ \A x, y \in Places : strong[x] = strong[y] =>
                 Resolved(strong, weak).group[x] = Resolved(strong, weak).group[y]
<1> DEFINE feeds(p) == {strong[e[2]] : e \in {f \in weak : strong[f[1]] = p}} \ {p}
           producers == {p \in Places : strong[p] = p /\ feeds(p) # {}}
           globals == {p \in producers : Cardinality(feeds(p)) > 1}
           lone == UNION {{<<p, c>> : c \in feeds(p)} : p \in producers \ globals}
<1>1. Resolved(strong, weak).group = UnionAll(strong, lone \cup (globals \X globals))
  BY DEF Resolved
<1>2. \A p \in Places : feeds(p) \in SUBSET Places
  BY DEF Groups
<1>3. lone \cup (globals \X globals) \in SUBSET (Places \X Places)
  <2> HIDE DEF feeds
  <2> QED  BY <1>2
<1> HIDE DEF lone, globals
<1> QED  BY <1>1, <1>3, UnionAllJoins

LEMMA NextStepIsAPlace ==
    ASSUME NEW corpus, NEW i \in Places
    PROVE  NextStep(corpus, i) \in {0} \cup Places
<1> DEFINE after == {j \in (i + 1)..CorpusLength :
                        ~IsContext(corpus, j) /\ FileOf(corpus, j) = FileOf(corpus, i)}
<1>1. after \in SUBSET Nat /\ after \subseteq Places
  BY BatchingAssumption DEF Places
<1>2. NextStep(corpus, i) = IF after = {} THEN 0 ELSE Min(after)
  BY DEF NextStep
<1> HIDE DEF after
<1> QED  BY <1>1, <1>2, SmallestOf

LEMMA AbsorbKeeps ==
    ASSUME NEW corpus, NEW anchor, NEW g \in Groups, NEW i \in Places
    PROVE  /\ Absorb(corpus, anchor, g, i) \in Groups
           /\ \A x, y \in Places : g[x] = g[y] =>
                 Absorb(corpus, anchor, g, i)[x] = Absorb(corpus, anchor, g, i)[y]
<1>1. CASE Absorb(corpus, anchor, g, i) = g
  BY <1>1
<1>2. CASE /\ NextStep(corpus, i) \in Places
           /\ Absorb(corpus, anchor, g, i) = Union(g, i, NextStep(corpus, i))
  <2> DEFINE j == NextStep(corpus, i)
             h == Absorb(corpus, anchor, g, i)
  <2>1. j \in Places /\ h = Union(g, i, j)
    BY <1>2
  <2> HIDE DEF j, h
  <2>2. /\ Union(g, i, j) \in Groups
        /\ \A x, y \in Places : g[x] = g[y] => Union(g, i, j)[x] = Union(g, i, j)[y]
    <3>1. j \in Places
      BY <2>1
    <3> QED  BY <3>1, UnionKeeps
  <2> QED  BY <2>1, <2>2 DEF h
<1> QED  BY <1>1, <1>2, NextStepIsAPlace DEF Absorb

\* Drawing the options to their steps parts nobody.
LEMMA AbsorbedKeeps ==
    ASSUME NEW corpus, NEW g \in Groups, NEW anchor
    PROVE  /\ AbsorbAll(corpus, anchor, g) \in Groups
           /\ \A x, y \in Places : g[x] = g[y] =>
                 AbsorbAll(corpus, anchor, g)[x] = AbsorbAll(corpus, anchor, g)[y]
<1> DEFINE n == CorpusLength
           step == [z \in (1..n) \X Groups |-> Absorb(corpus, anchor, z[2], z[1])]
           Eqn(f) == f = [s \in SUBSET (1..n) |->
                            IF s = {} THEN g
                            ELSE Absorb(corpus, anchor, f[s \ {Max(s)}], Alone[Max(s)])]
           c == CHOOSE f : Eqn(f)
<1>1. n \in Nat /\ Places = 1..n /\ DOMAIN Alone = 1..n
  BY BatchingAssumption DEF Places, Alone
<1>2. AbsorbAll(corpus, anchor, g) = c[1..n]
  BY <1>1 DEF AbsorbAll, FoldLeft, MapThenFoldSet
<1>3. step \in [(1..n) \X Groups -> Groups]
  BY <1>1, AbsorbKeeps
<1>4. \A k \in 1..n : \A v \in Groups : step[<<k, v>>] = Absorb(corpus, anchor, v, Alone[k])
  BY <1>1 DEF Alone
<1> HIDE DEF step
<1>5. PICK f : FoldsLeft(f, n, Groups, g, step)
  BY <1>1, <1>3, FoldLeftExists
<1>6. Eqn(f)
  <2>1. \A s \in SUBSET (1..n) : s # {} => Max(s) \in 1..n /\ f[s \ {Max(s)}] \in Groups
    BY <1>1, <1>5, LargestOf DEF FoldsLeft
  <2>2. \A s \in SUBSET (1..n) :
           f[s] = IF s = {} THEN g ELSE Absorb(corpus, anchor, f[s \ {Max(s)}], Alone[Max(s)])
    BY <1>4, <1>5, <2>1 DEF FoldsLeft
  <2> QED  BY <1>5, <2>2 DEF FoldsLeft
<1>7. Eqn(c)
  <2> HIDE DEF Eqn
  <2> QED  BY <1>6
<1>8. /\ c[{}] = g
      /\ \A k \in 1..n : c[1..k] = Absorb(corpus, anchor, c[1..(k - 1)], k)
  <2>1. \A s \in SUBSET (1..n) :
           c[s] = IF s = {} THEN g ELSE Absorb(corpus, anchor, c[s \ {Max(s)}], Alone[Max(s)])
    <3> HIDE DEF c
    <3> QED  BY <1>7
  <2> HIDE DEF c
  <2>2. ASSUME NEW k \in 1..n PROVE c[1..k] = Absorb(corpus, anchor, c[1..(k - 1)], k)
    <3>1. k \in Nat /\ k # 0 /\ (1..k) \in SUBSET (1..n)
      BY <1>1
    <3>2. Max(1..k) = k /\ (1..k) \ {k} = 1..(k - 1) /\ 1..k # {}
      BY <3>1, PlacesUpTo
    <3>3. Alone[k] = k
      BY <1>1 DEF Alone
    <3> QED  BY <2>1, <3>1, <3>2, <3>3
  <2> QED  BY <2>1, <2>2
<1> HIDE DEF c, n
<1> DEFINE B == {k \in 0..n : /\ c[1..k] \in Groups
                              /\ \A x, y \in Places : g[x] = g[y] => c[1..k][x] = c[1..k][y]}
<1>9. 0 \in B
  <2>1. 1..0 = {}
    OBVIOUS
  <2> QED  BY <1>1, <1>8, <2>1
<1>10. ASSUME NEW k \in 1..n, k - 1 \in B PROVE k \in B
  <2> DEFINE h == c[1..(k - 1)]
  <2>1. h \in Groups /\ \A x, y \in Places : g[x] = g[y] => h[x] = h[y]
    BY <1>10
  <2>2. c[1..k] = Absorb(corpus, anchor, h, k)
    BY <1>8
  <2> HIDE DEF h
  <2>3. k \in Places /\ k \in 0..n
    BY <1>1
  <2> DEFINE a == Absorb(corpus, anchor, h, k)
  <2>4. a \in Groups /\ \A x, y \in Places : h[x] = h[y] => a[x] = a[y]
    BY <2>1, <2>3, AbsorbKeeps
  <2>5. c[1..k] = a
    BY <2>2
  <2> HIDE DEF a
  <2> QED  BY <2>1, <2>3, <2>4, <2>5
<1>11. n \in B
  <2> HIDE DEF B
  <2> QED  BY <1>1, <1>9, <1>10, UpTo
<1> QED  BY <1>2, <1>11

\* What a strong edge joins is of one group when the units are made.
LEMMA ComponentsJoin ==
    ASSUME NEW corpus
    PROVE  /\ Components(corpus).group \in Groups
           /\ \A e \in StrongEdges(corpus) :
                 Components(corpus).group[e[1]] = Components(corpus).group[e[2]]
<1> DEFINE strong == UnionAll(Alone, StrongEdges(corpus))
           resolved == Resolved(strong, WeakEdges(corpus))
           group == AbsorbAll(corpus, resolved.anchor, resolved.group)
<1>1. Alone \in Groups
  BY DEF Alone, Groups
<1>2. strong \in Groups /\ \A e \in StrongEdges(corpus) : strong[e[1]] = strong[e[2]]
  BY <1>1, UnionAllJoins, EdgesAreOfPlaces
<1>3. /\ resolved.group \in Groups
      /\ \A x, y \in Places : strong[x] = strong[y] => resolved.group[x] = resolved.group[y]
  <2> HIDE DEF strong
  <2> QED  BY <1>2, ResolvedJoins, EdgesAreOfPlaces
<1>4. Components(corpus).group = group
  BY DEF Components, Absorbed, Resolved
<1>5. /\ group \in Groups
      /\ \A x, y \in Places : resolved.group[x] = resolved.group[y] => group[x] = group[y]
  <2> HIDE DEF resolved
  <2> QED  BY <1>3, AbsorbedKeeps
<1>6. \A e \in StrongEdges(corpus) : e[1] \in Places /\ e[2] \in Places
  BY EdgesAreOfPlaces
<1> HIDE DEF strong, resolved, group
<1> QED  BY <1>2, <1>3, <1>4, <1>5, <1>6
-----------------------------------------------------------------------------
(* The items of a corpus *)

\* A set of places in order: every place of it, once.
LEMMA InOrderLists ==
    ASSUME NEW n \in Nat, NEW S \in SUBSET (1..n)
    PROVE  /\ Cardinality(S) \in Nat
           /\ InOrder(S) \in [1..Cardinality(S) -> S]
           /\ \A k, l \in 1..Cardinality(S) : InOrder(S)[k] = InOrder(S)[l] => k = l
           /\ \A i \in S : \E k \in 1..Cardinality(S) : InOrder(S)[k] = i
<1> DEFINE c == Cardinality(S)
           upTo(i) == {j \in S : j <= i}
           rank == [i \in S |-> Cardinality(upTo(i))]
<1>1. IsFiniteSet(1..n) /\ S \subseteq Nat
  BY FS_Interval
<1>2. IsFiniteSet(S) /\ c \in Nat
  BY <1>1, FS_Subset, FS_CardinalityType
<1> HIDE DEF c
<1>3. ASSUME NEW i \in S
      PROVE  IsFiniteSet(upTo(i)) /\ rank[i] \in 1..c
  <2>1. upTo(i) \in SUBSET S /\ i \in upTo(i)
    BY <1>1
  <2>2. IsFiniteSet(upTo(i)) /\ Cardinality(upTo(i)) <= Cardinality(S)
    BY <1>2, <2>1, FS_Subset
  <2>3. Cardinality(upTo(i)) \in Nat /\ Cardinality(upTo(i)) # 0
    BY <2>1, <2>2, FS_CardinalityType, FS_EmptySet
  <2> QED  BY <1>2, <2>2, <2>3 DEF c
<1>4. ASSUME NEW i \in S, NEW j \in S, i < j PROVE rank[i] # rank[j]
  <2>1. upTo(i) \in SUBSET upTo(j) /\ j \in upTo(j) /\ j \notin upTo(i)
    <3>1. i \in Nat /\ j \in Nat /\ j <= j /\ ~(j <= i)
      BY <1>1, <1>4
    <3>2. ASSUME NEW k \in S, k <= i PROVE k <= j
      <4>1. k \in Nat
        BY <1>1
      <4> QED  BY <1>4, <3>1, <3>2, <4>1
    <3> QED  BY <3>1, <3>2
  <2>2. Cardinality(upTo(i)) # Cardinality(upTo(j))
    <3> HIDE DEF upTo
    <3> QED  BY <1>3, <2>1, FS_Subset
  <2> QED  BY <2>2
<1>5. rank \in Injection(S, 1..c)
  <2>1. rank \in [S -> 1..c]
    BY <1>3
  <2>2. ASSUME NEW i \in S, NEW j \in S, rank[i] = rank[j] PROVE i = j
    <3> HIDE DEF rank
    <3>1. i < j \/ j < i \/ i = j
      BY <1>1
    <3> QED  BY <1>4, <2>2, <3>1
  <2> HIDE DEF rank
  <2> QED  BY <2>1, <2>2 DEF Injection, IsInjective
<1>6. IsFiniteSet(1..c) /\ Cardinality(1..c) = c
  BY <1>2, FS_Interval
<1>7. rank \in Surjection(S, 1..c)
  BY <1>5, <1>6, FS_Injection DEF c
<1>8. InOrder(S) = [k \in 1..c |-> CHOOSE i \in S : rank[i] = k]
  <2>1. \A k \in 1..c : (CHOOSE i \in S : Cardinality({j \in S : j <= i}) = k)
                          = CHOOSE i \in S : rank[i] = k
    OBVIOUS
  <2> QED  BY <2>1 DEF InOrder, c
<1>9. \A i \in S : rank[i] \in 1..c
  BY <1>3
<1> HIDE DEF rank
<1>10. \A k \in 1..c : \E i \in S : rank[i] = k
  BY <1>7 DEF Surjection
<1>11. \A k \in 1..c : InOrder(S)[k] \in S /\ rank[InOrder(S)[k]] = k
  BY <1>8, <1>10
<1>12. InOrder(S) \in [1..c -> S]
  BY <1>8, <1>11
<1>13. \A i \in S : InOrder(S)[rank[i]] = i
  BY <1>5, <1>9, <1>11 DEF Injection, IsInjective
<1> QED  BY <1>2, <1>9, <1>11, <1>12, <1>13 DEF c

ItemSet == [chunks : Seq(Places), batch : BOOLEAN, global : BOOLEAN]

\* What the packing is given: items that partition the places.
Partition(n, items) ==
    /\ n \in Nat /\ items \in [1..n -> ItemSet]
    /\ \A m \in 1..n : ~items[m].batch => ~items[m].global /\ Len(items[m].chunks) = 1
    /\ \A i \in Places : \E m \in 1..n : i \in ToSet(items[m].chunks)
    /\ \A a, b \in 1..n : \A x \in DOMAIN items[a].chunks, y \in DOMAIN items[b].chunks :
          items[a].chunks[x] = items[b].chunks[y] => a = b /\ x = y

\* The members of a set of them are the chunks of its item.
LEMMA ItemIsOfItsMembers ==
    ASSUME NEW S \in SUBSET Places, S # {}, NEW context
    PROVE  /\ Item(S, context) \in ItemSet
           /\ ~Item(S, context).batch =>
                 ~Item(S, context).global /\ Len(Item(S, context).chunks) = 1
           /\ ToSet(Item(S, context).chunks) = S
           /\ \A x, y \in DOMAIN Item(S, context).chunks :
                 Item(S, context).chunks[x] = Item(S, context).chunks[y] => x = y
<1> DEFINE c == Cardinality(S)
           s == InOrder(S)
<1>1. /\ c \in Nat /\ s \in [1..c -> S]
      /\ \A k, l \in 1..c : s[k] = s[l] => k = l
      /\ \A i \in S : \E k \in 1..c : s[k] = i
  BY BatchingAssumption, InOrderLists DEF Places
<1>2. c # 0
  <2>1. IsFiniteSet(S)
    <3>1. IsFiniteSet(Places)
      BY BatchingAssumption, FS_Interval DEF Places
    <3> QED  BY <3>1, FS_Subset
  <2> QED  BY <2>1, FS_EmptySet
<1>3. Item(S, context) = [chunks |-> s, batch |-> c > 1 \/ S = context, global |-> S = context]
  BY DEF Item
<1> HIDE DEF c, s
<1>4. s \in Seq(Places) /\ DOMAIN s = 1..c /\ Len(s) = c
  BY <1>1
<1>5. ToSet(s) = S
  BY <1>1, <1>4 DEF ToSet
<1>6. c > 1 \/ c = 1
  BY <1>1, <1>2
<1> DEFINE it == Item(S, context)
<1>7. /\ it.chunks = s /\ it.batch = (c > 1 \/ S = context) /\ it.global = (S = context)
      /\ it \in ItemSet
  BY <1>3, <1>4 DEF ItemSet
<1> HIDE DEF it
<1>8. ~it.batch => ~it.global /\ Len(it.chunks) = 1
  BY <1>4, <1>6, <1>7
<1>9. \A x, y \in DOMAIN it.chunks : it.chunks[x] = it.chunks[y] => x = y
  BY <1>1, <1>4, <1>7
<1> QED  BY <1>5, <1>7, <1>8, <1>9 DEF it

LEMMA ItemsPartition ==
    ASSUME NEW g \in Groups, NEW context \in SUBSET Places
    PROVE  \E n :
              /\ Partition(n, ItemsOf(g, context))
              /\ \A x, y \in Places : \A m \in 1..n :
                    /\ x \in ToSet(ItemsOf(g, context)[m].chunks)
                    /\ g[x] = g[y] /\ (x \in context <=> y \in context)
                    => y \in ToSet(ItemsOf(g, context)[m].chunks)
<1> DEFINE sets == ItemMembers(g, context)
           F == {Min(m) : m \in sets}
           n == Cardinality(F)
           firsts == InOrder(F)
           of(k) == CHOOSE m \in sets : Min(m) = firsts[k]
           items == ItemsOf(g, context)
<1>1. \A m \in sets : m \in SUBSET Places /\ m # {}
  BY DEF ItemMembers
<1>2. \A m \in sets : Min(m) \in m
  <2> Places \in SUBSET Nat
    BY BatchingAssumption DEF Places
  <2> HIDE DEF sets
  <2> QED  BY <1>1, SmallestOf
<1>3. \A l, m \in sets : \A i : i \in l /\ i \in m => l = m
  BY DEF ItemMembers
<1>4. \A i \in Places : \E m \in sets : i \in m
  <2>1. ASSUME NEW i \in context PROVE \E m \in sets : i \in m
    BY <2>1 DEF ItemMembers
  <2>2. ASSUME NEW i \in Places, i \notin context PROVE \E m \in sets : i \in m
    <3>1. g[i] \in Places
      BY DEF Groups
    <3>2. i \in {j \in Places \ context : g[j] = g[i]}
      BY <2>2
    <3>3. {j \in Places \ context : g[j] = g[i]} \in sets
      BY <3>1, <3>2 DEF ItemMembers
    <3> QED  BY <3>2, <3>3
  <2> QED  BY <2>1, <2>2
<1>5. \A x, y \in Places : \A m \in sets :
         x \in m /\ g[x] = g[y] /\ (x \in context <=> y \in context) => y \in m
  BY DEF ItemMembers
<1>6. items = [k \in 1..n |-> Item(of(k), context)]
  <2>1. DOMAIN firsts = 1..n
    BY DEF InOrder
  <2>2. items = [k \in DOMAIN firsts |-> Item(of(k), context)]
    BY DEF ItemsOf
  <2> QED  BY <2>1, <2>2
<1> HIDE DEF sets
<1>7. F \in SUBSET (1..CorpusLength)
  BY <1>1, <1>2 DEF Places
<1> HIDE DEF F
<1>8. /\ n \in Nat /\ firsts \in [1..n -> F]
      /\ \A k, l \in 1..n : firsts[k] = firsts[l] => k = l
      /\ \A i \in F : \E k \in 1..n : firsts[k] = i
  BY <1>7, BatchingAssumption, InOrderLists
<1> HIDE DEF n, firsts, items
<1>9. \A k \in 1..n : of(k) \in sets /\ Min(of(k)) = firsts[k]
  BY <1>8 DEF F
<1>10. \A k, l \in 1..n : \A i : i \in of(k) /\ i \in of(l) => k = l
  <2> HIDE DEF of
  <2> QED  BY <1>3, <1>8, <1>9
<1>11. \A m \in sets : \E k \in 1..n : of(k) = m
  <2>1. ASSUME NEW m \in sets PROVE \E k \in 1..n : of(k) = m
    <3>1. PICK k \in 1..n : firsts[k] = Min(m)
      BY <1>8 DEF F
    <3>2. Min(m) \in m /\ Min(m) \in of(k) /\ of(k) \in sets
      BY <1>2, <1>9, <3>1
    <3> QED  BY <1>3, <3>2
  <2> QED  BY <2>1
<1> HIDE DEF of
<1>12. ASSUME NEW k \in 1..n
       PROVE  /\ items[k] \in ItemSet
              /\ ~items[k].batch => ~items[k].global /\ Len(items[k].chunks) = 1
              /\ ToSet(items[k].chunks) = of(k)
              /\ \A x, y \in DOMAIN items[k].chunks :
                    items[k].chunks[x] = items[k].chunks[y] => x = y
  <2>1. items[k] = Item(of(k), context)
    BY <1>6
  <2>2. of(k) \in SUBSET Places /\ of(k) # {}
    BY <1>1, <1>9
  <2> QED  BY <2>1, <2>2, ItemIsOfItsMembers
<1>13. Partition(n, items)
  <2>1. items \in [1..n -> ItemSet]
    BY <1>6, <1>12
  <2>2. \A i \in Places : \E m \in 1..n : i \in ToSet(items[m].chunks)
    BY <1>4, <1>11, <1>12
  <2>3. ASSUME NEW a \in 1..n, NEW b \in 1..n,
               NEW x \in DOMAIN items[a].chunks, NEW y \in DOMAIN items[b].chunks,
               items[a].chunks[x] = items[b].chunks[y]
        PROVE  a = b /\ x = y
    <3>1. /\ items[a].chunks[x] \in ToSet(items[a].chunks)
          /\ items[b].chunks[y] \in ToSet(items[b].chunks)
      BY DEF ToSet
    <3>2. a = b
      BY <1>10, <1>12, <2>3, <3>1
    <3> QED  BY <1>12, <2>3, <3>2
  <2> QED  BY <1>8, <1>12, <2>1, <2>2, <2>3 DEF Partition
<1>14. ASSUME NEW x \in Places, NEW y \in Places, NEW m \in 1..n,
              x \in ToSet(items[m].chunks), g[x] = g[y], x \in context <=> y \in context
       PROVE  y \in ToSet(items[m].chunks)
  BY <1>5, <1>9, <1>12, <1>14
<1> QED  BY <1>13, <1>14 DEF items
-----------------------------------------------------------------------------
(* Packing *)

WindowSet ==
    [chunks : Seq(Places), batch : BOOLEAN, global : BOOLEAN, cost : Nat, items : Nat]

InBudget(corpus, w) ==
    /\ ~w.batch => ~w.global
    /\ w.items > 1 => /\ ~w.global
                      /\ Len(w.chunks) <= corpus.maxChunks
                      /\ corpus.maxTokens # 0 => w.cost <= corpus.maxTokens

\* What holds of the units once the first k items are packed.
Packs(corpus, items, k, units) ==
    /\ units \in Seq(WindowSet)
    /\ \A a \in DOMAIN units : InBudget(corpus, units[a])
    /\ \A a, b \in DOMAIN units : \A x \in DOMAIN units[a].chunks, y \in DOMAIN units[b].chunks :
          units[a].chunks[x] = units[b].chunks[y] => a = b /\ x = y
    /\ \A a \in DOMAIN units : \A x \in DOMAIN units[a].chunks :
          \E m \in 1..k : units[a].chunks[x] \in ToSet(items[m].chunks)
    /\ \A m \in 1..k : \E a \in DOMAIN units :
          ToSet(items[m].chunks) \subseteq ToSet(units[a].chunks)

LEMMA WindowIsTyped ==
    ASSUME NEW item \in ItemSet
    PROVE  /\ Window(item) \in WindowSet
           /\ Window(item).chunks = item.chunks /\ Window(item).items = 1
           /\ Window(item).batch = item.batch /\ Window(item).global = item.global
<1>1. Cost(item) \in Nat
  BY BatchingAssumption, LenProperties DEF Cost, ItemSet
<1> QED  BY <1>1 DEF Window, WindowSet, ItemSet

LEMMA ExtendedIsTyped ==
    ASSUME NEW w \in WindowSet, NEW item \in ItemSet
    PROVE  /\ Extended(w, item) \in WindowSet
           /\ Extended(w, item).chunks = w.chunks \o item.chunks
           /\ Extended(w, item).cost = w.cost + Cost(item)
           /\ Extended(w, item).batch = w.batch /\ Extended(w, item).global = w.global
<1>1. Cost(item) \in Nat
  BY BatchingAssumption, LenProperties DEF Cost, ItemSet
<1>2. w.chunks \o item.chunks \in Seq(Places)
  BY ConcatProperties DEF WindowSet, ItemSet
<1> DEFINE chunks == w.chunks \o item.chunks
           cost == w.cost + Cost(item)
<1>3. Extended(w, item) = [w EXCEPT !.chunks = chunks, !.cost = cost, !.items = w.items + 1]
  BY DEF Extended, WindowSet
<1>4. chunks \in Seq(Places) /\ cost \in Nat /\ w.items + 1 \in Nat
  BY <1>1, <1>2 DEF WindowSet
<1> HIDE DEF chunks, cost
<1>5. /\ Extended(w, item) \in WindowSet
      /\ Extended(w, item).chunks = chunks /\ Extended(w, item).cost = cost
      /\ Extended(w, item).batch = w.batch /\ Extended(w, item).global = w.global
  BY <1>3, <1>4 DEF WindowSet
<1> QED  BY <1>5 DEF chunks, cost

\* An item goes into a window of its own behind the units, or into the last.
LEMMA ItemIsAdded ==
    ASSUME NEW corpus, NEW units \in Seq(WindowSet), NEW item \in ItemSet
    PROVE  LET after == AddItem(corpus, units, item)
               n == Len(units)
           IN  /\ after \in Seq(WindowSet)
               /\ \/ /\ Len(after) = n + 1 /\ after[n + 1] = Window(item)
                     /\ \A a \in 1..n : after[a] = units[a]
                  \/ /\ Len(after) = n /\ n # 0 /\ Fits(corpus, units[n], item)
                     /\ after[n] = Extended(units[n], item)
                     /\ \A a \in 1..n : a # n => after[a] = units[a]
<1> DEFINE after == AddItem(corpus, units, item)
           n == Len(units)
<1>1. n \in Nat /\ DOMAIN units = 1..n /\ units \in [1..n -> WindowSet]
  BY LenProperties
<1>2. CASE units # << >> /\ Fits(corpus, Last(units), item)
  <2>1. n # 0
    BY <1>2, EmptySeq
  <2>2. Last(units) = units[n] /\ Front(units) = SubSeq(units, 1, n - 1)
    BY DEF Last, Front
  <2>3. /\ Front(units) \in Seq(WindowSet) /\ Len(Front(units)) = n - 1
        /\ \A a \in 1..(n - 1) : Front(units)[a] = units[a]
    <3>1. 1 \in Int /\ n - 1 \in Int /\ \A a \in 1..(n - 1) : units[a] \in WindowSet
      BY <1>1
    <3>2. /\ SubSeq(units, 1, n - 1) \in Seq(WindowSet)
          /\ Len(SubSeq(units, 1, n - 1)) = IF 1 <= n - 1 THEN (n - 1) - 1 + 1 ELSE 0
          /\ \A a \in 1..((n - 1) - 1 + 1) : SubSeq(units, 1, n - 1)[a] = units[1 + a - 1]
      <4> HIDE DEF n
      <4> QED  BY <3>1, SubSeqProperties
    <3>3. \A a \in 1..(n - 1) : a \in 1..((n - 1) - 1 + 1) /\ 1 + a - 1 = a
      BY <1>1
    <3> HIDE DEF n
    <3> QED  BY <1>1, <2>1, <2>2, <3>2, <3>3
  <2>4. Extended(units[n], item) \in WindowSet
    <3> HIDE DEF n
    <3>1. n \in 1..n
      BY <1>1, <2>1
    <3>2. units[n] \in WindowSet
      BY <1>1, <3>1
    <3> QED  BY <3>2, ExtendedIsTyped
  <2>5. after = Append(Front(units), Extended(units[n], item))
    BY <1>2, <2>2 DEF AddItem
  <2>6. /\ after \in Seq(WindowSet) /\ Len(after) = (n - 1) + 1
        /\ \A a \in 1..(n - 1) : after[a] = units[a]
        /\ after[(n - 1) + 1] = Extended(units[n], item)
    <3> HIDE DEF n, after
    <3> QED  BY <2>3, <2>4, <2>5, AppendProperties
  <2>7. (n - 1) + 1 = n /\ \A a \in 1..n : a # n => a \in 1..(n - 1)
    <3> HIDE DEF n
    <3> QED  BY <1>1
  <2> HIDE DEF n, after
  <2>8. /\ Len(after) = n /\ n # 0 /\ Fits(corpus, units[n], item)
        /\ after[n] = Extended(units[n], item)
        /\ \A a \in 1..n : a # n => after[a] = units[a]
    BY <1>2, <2>1, <2>2, <2>6, <2>7
  <2> QED  BY <2>6, <2>8 DEF n, after
<1>3. CASE ~(units # << >> /\ Fits(corpus, Last(units), item))
  <2>1. after = Append(units, Window(item))
    BY <1>3 DEF AddItem
  <2>2. Window(item) \in WindowSet
    BY WindowIsTyped
  <2>3. /\ after \in Seq(WindowSet) /\ Len(after) = n + 1
        /\ \A a \in 1..n : after[a] = units[a]
        /\ after[n + 1] = Window(item)
    <3> HIDE DEF after
    <3> QED  BY <2>1, <2>2, AppendProperties
  <2> QED  BY <2>3
<1> QED  BY <1>2, <1>3

LEMMA WindowStaysInBudget ==
    ASSUME NEW corpus \in Corpora, NEW w \in WindowSet, NEW item \in ItemSet,
           ~item.batch => ~item.global /\ Len(item.chunks) = 1,
           InBudget(corpus, w), Fits(corpus, w, item)
    PROVE  InBudget(corpus, Extended(w, item))
<1> DEFINE e == Extended(w, item)
<1>1. /\ e.chunks = w.chunks \o item.chunks /\ e.cost = w.cost + Cost(item)
      /\ e.batch = w.batch /\ e.global = w.global
  BY ExtendedIsTyped
<1>2. Len(e.chunks) = Len(w.chunks) + Len(item.chunks)
      /\ Len(w.chunks) \in Nat /\ Len(item.chunks) \in Nat
  BY <1>1, ConcatProperties, LenProperties DEF WindowSet, ItemSet
<1>3. corpus.maxChunks \in Nat /\ corpus.maxTokens \in Nat
  BY BatchingAssumption DEF Corpora
<1> HIDE DEF e
<1>4. CASE corpus.maxTokens = 0
  <2>1. ~item.batch /\ ~w.batch /\ Len(w.chunks) < corpus.maxChunks
    BY <1>4 DEF Fits
  <2>2. Len(e.chunks) <= corpus.maxChunks
    <3>1. Len(item.chunks) = 1
      BY <2>1
    <3>2. \A l \in Nat, most \in Nat : l < most => l + 1 <= most
      OBVIOUS
    <3> QED  BY <1>2, <1>3, <2>1, <3>1, <3>2
  <2> QED  BY <1>1, <1>4, <2>1, <2>2 DEF InBudget, e
<1>5. CASE corpus.maxTokens # 0
  <2>1. /\ ~w.global /\ Len(w.chunks) + Len(item.chunks) <= corpus.maxChunks
        /\ w.cost + Cost(item) <= corpus.maxTokens
    BY <1>5 DEF Fits
  <2> QED  BY <1>1, <1>2, <2>1 DEF InBudget, e
<1> QED  BY <1>4, <1>5

LEMMA ItemIsPacked ==
    ASSUME NEW corpus \in Corpora, NEW n, NEW items, Partition(n, items),
           NEW k \in 1..n, NEW units, Packs(corpus, items, k - 1, units)
    PROVE  Packs(corpus, items, k, AddItem(corpus, units, items[k]))
<1> DEFINE item == items[k]
           after == AddItem(corpus, units, item)
           len == Len(units)
<1>1. /\ item \in ItemSet
      /\ ~item.batch => ~item.global /\ Len(item.chunks) = 1
      /\ item.chunks \in Seq(Places) /\ DOMAIN item.chunks = 1..Len(item.chunks)
      /\ Len(item.chunks) \in Nat
  BY LenProperties DEF Partition, ItemSet
<1>2. /\ units \in Seq(WindowSet) /\ DOMAIN units = 1..len /\ len \in Nat
      /\ \A a \in 1..len :
            /\ units[a] \in WindowSet /\ units[a].chunks \in Seq(Places)
            /\ DOMAIN units[a].chunks = 1..Len(units[a].chunks)
            /\ Len(units[a].chunks) \in Nat
  <2>1. units \in Seq(WindowSet)
    BY DEF Packs
  <2>2. DOMAIN units = 1..len /\ len \in Nat /\ units \in [1..len -> WindowSet]
    BY <2>1, LenProperties
  <2> HIDE DEF len
  <2>3. ASSUME NEW a \in 1..len
        PROVE  /\ units[a] \in WindowSet /\ units[a].chunks \in Seq(Places)
               /\ DOMAIN units[a].chunks = 1..Len(units[a].chunks)
               /\ Len(units[a].chunks) \in Nat
    <3>1. units[a] \in WindowSet
      BY <2>2
    <3>2. units[a].chunks \in Seq(Places)
      BY <3>1 DEF WindowSet
    <3> QED  BY <3>1, <3>2, LenProperties
  <2> QED  BY <2>1, <2>2, <2>3
<1>3. k - 1 \in Nat /\ k \in Nat /\ 1..k = 1..(k - 1) \cup {k} /\ k \notin 1..(k - 1)
  BY DEF Partition
<1>k. n \in Nat /\ 1..(k - 1) \subseteq 1..n
  BY DEF Partition
<1>4. \* no place of the item is in the units yet
      \A a \in 1..len : \A x \in DOMAIN units[a].chunks : \A y \in DOMAIN item.chunks :
         units[a].chunks[x] # item.chunks[y]
  <2> SUFFICES ASSUME NEW a \in 1..len, NEW x \in DOMAIN units[a].chunks,
                      NEW y \in DOMAIN item.chunks, units[a].chunks[x] = item.chunks[y]
               PROVE  FALSE
    OBVIOUS
  <2>1. PICK m \in 1..(k - 1) : units[a].chunks[x] \in ToSet(items[m].chunks)
    BY <1>2 DEF Packs
  <2>2. PICK z \in DOMAIN items[m].chunks : items[m].chunks[z] = item.chunks[y]
    BY <2>1 DEF ToSet
  <2>3. m = k
    BY <1>k, <2>2 DEF Partition
  <2> QED  BY <1>3, <2>3
<1>5. /\ after \in Seq(WindowSet)
      /\ \/ /\ Len(after) = len + 1 /\ after[len + 1] = Window(item)
            /\ \A a \in 1..len : after[a] = units[a]
         \/ /\ Len(after) = len /\ len # 0 /\ Fits(corpus, units[len], item)
            /\ after[len] = Extended(units[len], item)
            /\ \A a \in 1..len : a # len => after[a] = units[a]
  BY <1>1, <1>2, ItemIsAdded
<1>6. Len(after) \in Nat /\ DOMAIN after = 1..Len(after)
  BY <1>5, LenProperties
<1>7. /\ \A a \in 1..len : InBudget(corpus, units[a])
      /\ \A a, b \in 1..len : \A x \in DOMAIN units[a].chunks, y \in DOMAIN units[b].chunks :
            units[a].chunks[x] = units[b].chunks[y] => a = b /\ x = y
      /\ \A a \in 1..len : \A x \in DOMAIN units[a].chunks :
            \E m \in 1..k : units[a].chunks[x] \in ToSet(items[m].chunks)
      /\ \A m \in 1..(k - 1) : \E a \in 1..len :
            ToSet(items[m].chunks) \subseteq ToSet(units[a].chunks)
  BY <1>2, <1>3 DEF Packs
<1>8. \A x, y \in DOMAIN item.chunks : item.chunks[x] = item.chunks[y] => x = y
  BY DEF Partition
<1>9. \A x \in DOMAIN item.chunks : \E m \in 1..k : item.chunks[x] \in ToSet(items[m].chunks)
  BY <1>3 DEF ToSet
<1> HIDE DEF after, len
<1>10. CASE /\ Len(after) = len + 1 /\ after[len + 1] = Window(item)
            /\ \A a \in 1..len : after[a] = units[a]
  <2>1. DOMAIN after = 1..len \cup {len + 1} /\ len + 1 \notin 1..len
    BY <1>2, <1>6, <1>10
  <2>2. /\ after[len + 1].chunks = item.chunks /\ after[len + 1].items = 1
        /\ after[len + 1].batch = item.batch /\ after[len + 1].global = item.global
    BY <1>1, <1>10, WindowIsTyped
  <2>3. \A a \in DOMAIN after : InBudget(corpus, after[a])
    <3>1. InBudget(corpus, after[len + 1])
      BY <1>1, <2>2 DEF InBudget
    <3> QED  BY <1>7, <1>10, <2>1, <3>1
  <2>4. ASSUME NEW a \in DOMAIN after, NEW b \in DOMAIN after,
               NEW x \in DOMAIN after[a].chunks, NEW y \in DOMAIN after[b].chunks,
               after[a].chunks[x] = after[b].chunks[y]
        PROVE  a = b /\ x = y
    <3> HIDE DEF item
    <3>1. CASE a = len + 1 /\ b = len + 1
      BY <1>8, <2>2, <2>4, <3>1
    <3>2. CASE a \in 1..len /\ b \in 1..len
      BY <1>7, <1>10, <2>4, <3>2
    <3>3. CASE a \in 1..len /\ b = len + 1
      BY <1>4, <1>10, <2>2, <2>4, <3>3
    <3>4. CASE a = len + 1 /\ b \in 1..len
      BY <1>4, <1>10, <2>2, <2>4, <3>4
    <3> QED  BY <2>1, <3>1, <3>2, <3>3, <3>4
  <2>5. \A a \in DOMAIN after : \A x \in DOMAIN after[a].chunks :
           \E m \in 1..k : after[a].chunks[x] \in ToSet(items[m].chunks)
    <3> HIDE DEF item
    <3> QED  BY <1>7, <1>9, <1>10, <2>1, <2>2
  <2>6. \A m \in 1..k : \E a \in DOMAIN after :
           ToSet(items[m].chunks) \subseteq ToSet(after[a].chunks)
    <3>1. ToSet(items[k].chunks) \subseteq ToSet(after[len + 1].chunks)
      BY <2>2
    <3>2. \A m \in 1..(k - 1) : \E a \in 1..len :
             ToSet(items[m].chunks) \subseteq ToSet(after[a].chunks)
      BY <1>7, <1>10
    <3> QED  BY <1>3, <2>1, <3>1, <3>2
  <2> QED  BY <1>5, <2>3, <2>4, <2>5, <2>6 DEF Packs, after
<1>11. CASE /\ Len(after) = len /\ len # 0 /\ Fits(corpus, units[len], item)
            /\ after[len] = Extended(units[len], item)
            /\ \A a \in 1..len : a # len => after[a] = units[a]
  <2>1. DOMAIN after = 1..len /\ len \in 1..len
    BY <1>2, <1>6, <1>11
  <2> DEFINE old == units[len].chunks
  <2>2. after[len].chunks = old \o item.chunks
    <3>1. units[len] \in WindowSet /\ item \in ItemSet
      BY <1>1, <1>2, <2>1
    <3> HIDE DEF item
    <3>2. Extended(units[len], item).chunks = old \o item.chunks
      BY <3>1, ExtendedIsTyped
    <3> QED  BY <1>11, <3>2
  <2>3. /\ DOMAIN after[len].chunks = 1..(Len(old) + Len(item.chunks))
        /\ Len(old) \in Nat
        /\ \A x \in 1..(Len(old) + Len(item.chunks)) :
              after[len].chunks[x] = IF x <= Len(old) THEN old[x] ELSE item.chunks[x - Len(old)]
    <3>1. old \in Seq(Places) /\ item.chunks \in Seq(Places)
      BY <1>1, <1>2, <2>1
    <3> HIDE DEF old, item
    <3>2. /\ old \o item.chunks \in Seq(Places) /\ Len(old) \in Nat
          /\ Len(old \o item.chunks) = Len(old) + Len(item.chunks)
          /\ \A x \in 1..(Len(old) + Len(item.chunks)) :
                (old \o item.chunks)[x] = IF x <= Len(old) THEN old[x] ELSE item.chunks[x - Len(old)]
      BY <3>1, ConcatProperties, LenProperties
    <3> QED  BY <2>2, <3>2, LenProperties
  <2>4. ToSet(after[len].chunks) = ToSet(old) \cup ToSet(item.chunks)
    BY <1>1, <1>2, <2>1, <2>2, ElementsOfConcat
  <2>5. DOMAIN old = 1..Len(old) /\ DOMAIN item.chunks = 1..Len(item.chunks)
        /\ Len(item.chunks) \in Nat
    BY <1>1, <1>2, <2>1
  <2>6. \A x \in DOMAIN after[len].chunks :
           \/ x \in DOMAIN old /\ after[len].chunks[x] = old[x]
           \/ /\ x - Len(old) \in DOMAIN item.chunks /\ x \in Nat
              /\ after[len].chunks[x] = item.chunks[x - Len(old)]
    <3> HIDE DEF old, item
    <3> QED  BY <2>3, <2>5
  <2>7. \A a \in DOMAIN after : InBudget(corpus, after[a])
    <3>1. InBudget(corpus, after[len])
      BY <1>1, <1>2, <1>7, <1>11, <2>1, WindowStaysInBudget
    <3> QED  BY <1>7, <1>11, <2>1, <3>1
  <2>8. ASSUME NEW a \in 1..len, a # len, NEW x \in DOMAIN after[a].chunks,
               NEW y \in DOMAIN after[len].chunks
        PROVE  after[a].chunks[x] # after[len].chunks[y]
    <3>1. after[a] = units[a]
      BY <1>11, <2>8
    <3>2. CASE y \in DOMAIN old /\ after[len].chunks[y] = old[y]
      BY <1>7, <2>1, <2>8, <3>1, <3>2
    <3>3. CASE y - Len(old) \in DOMAIN item.chunks /\
               after[len].chunks[y] = item.chunks[y - Len(old)]
      BY <1>4, <3>1, <3>3
    <3> HIDE DEF old
    <3> QED  BY <2>6, <3>2, <3>3
  <2>9. ASSUME NEW x \in DOMAIN after[len].chunks, NEW y \in DOMAIN after[len].chunks,
               after[len].chunks[x] = after[len].chunks[y]
        PROVE  x = y
    <3>1. \A i \in DOMAIN old : \A j \in DOMAIN item.chunks : old[i] # item.chunks[j]
      BY <1>4, <2>1
    <3>2. \A i, j \in DOMAIN old : old[i] = old[j] => i = j
      BY <1>7, <2>1
    <3> HIDE DEF old, item
    <3>3. CASE x \in DOMAIN old /\ after[len].chunks[x] = old[x]
      BY <2>6, <2>9, <3>1, <3>2, <3>3
    <3>4. CASE /\ x - Len(old) \in DOMAIN item.chunks /\ x \in Nat
               /\ after[len].chunks[x] = item.chunks[x - Len(old)]
      <4>1. /\ y - Len(old) \in DOMAIN item.chunks /\ y \in Nat
            /\ after[len].chunks[y] = item.chunks[y - Len(old)]
        BY <2>6, <2>9, <3>1, <3>4
      <4>2. x - Len(old) = y - Len(old)
        BY <1>8, <2>9, <3>4, <4>1
      <4> QED  BY <2>3, <3>4, <4>1, <4>2
    <3> QED  BY <2>6, <3>3, <3>4
  <2>10. ASSUME NEW a \in DOMAIN after, NEW b \in DOMAIN after,
                NEW x \in DOMAIN after[a].chunks, NEW y \in DOMAIN after[b].chunks,
                after[a].chunks[x] = after[b].chunks[y]
         PROVE  a = b /\ x = y
    <3>1. CASE a = len /\ b = len
      BY <2>9, <2>10, <3>1
    <3>2. CASE a # len /\ b # len
      BY <1>7, <1>11, <2>1, <2>10, <3>2
    <3>3. CASE a # len /\ b = len
      BY <2>1, <2>8, <2>10, <3>3
    <3>4. CASE a = len /\ b # len
      BY <2>1, <2>8, <2>10, <3>4
    <3> QED  BY <3>1, <3>2, <3>3, <3>4
  <2>11. \A a \in DOMAIN after : \A x \in DOMAIN after[a].chunks :
            \E m \in 1..k : after[a].chunks[x] \in ToSet(items[m].chunks)
    <3>1. \A x \in DOMAIN old : \E m \in 1..k : old[x] \in ToSet(items[m].chunks)
      BY <1>7, <2>1
    <3> HIDE DEF old, item
    <3>2. \A x \in DOMAIN after[len].chunks :
             \E m \in 1..k : after[len].chunks[x] \in ToSet(items[m].chunks)
      BY <1>9, <2>6, <3>1
    <3> QED  BY <1>7, <1>11, <2>1, <3>2
  <2>12. \A m \in 1..k : \E a \in DOMAIN after :
            ToSet(items[m].chunks) \subseteq ToSet(after[a].chunks)
    <3>1. ToSet(items[k].chunks) \subseteq ToSet(after[len].chunks)
      BY <2>4
    <3>2. ASSUME NEW m \in 1..(k - 1)
          PROVE  \E a \in 1..len : ToSet(items[m].chunks) \subseteq ToSet(after[a].chunks)
      <4>1. PICK a \in 1..len : ToSet(items[m].chunks) \subseteq ToSet(units[a].chunks)
        BY <1>7
      <4>2. ToSet(units[a].chunks) \subseteq ToSet(after[a].chunks)
        BY <1>11, <2>4
      <4> QED  BY <4>1, <4>2
    <3> QED  BY <1>3, <2>1, <3>1, <3>2
  <2> QED  BY <1>5, <2>7, <2>10, <2>11, <2>12 DEF Packs, after
<1> QED  BY <1>5, <1>10, <1>11
\* The units of a corpus, the packing being a fold over its items.
LEMMA UnitsArePacked ==
    ASSUME NEW corpus \in Corpora, NEW n, NEW items, Partition(n, items),
           items = Items(Components(corpus))
    PROVE  Packs(corpus, items, n, Packed(corpus))
<1> DEFINE S == Seq(WindowSet)
           step == [z \in (1..n) \X S |-> AddItem(corpus, z[2], items[z[1]])]
           Eqn(f) == f = [s \in SUBSET (1..n) |->
                            IF s = {} THEN << >>
                            ELSE AddItem(corpus, f[s \ {Max(s)}], items[Max(s)])]
           c == CHOOSE f : Eqn(f)
<1>1. n \in Nat /\ DOMAIN items = 1..n /\ \A k \in 1..n : items[k] \in ItemSet
  BY DEF Partition
<1>2. Packed(corpus) = c[1..n]
  BY <1>1 DEF Packed, FoldLeft, MapThenFoldSet
<1>3. step \in [(1..n) \X S -> S]
  <2>1. \A k \in 1..n : \A v \in S : AddItem(corpus, v, items[k]) \in S
    BY <1>1, ItemIsAdded
  <2> HIDE DEF S
  <2> QED  BY <2>1
<1>4. \A k \in 1..n : \A v \in S : step[<<k, v>>] = AddItem(corpus, v, items[k])
  OBVIOUS
<1>5. << >> \in S
  BY EmptySeq
<1> HIDE DEF step, S
<1>6. PICK f : FoldsLeft(f, n, S, << >>, step)
  BY <1>1, <1>3, <1>5, FoldLeftExists
<1>7. Eqn(f)
  <2>1. \A s \in SUBSET (1..n) : s # {} => Max(s) \in 1..n /\ f[s \ {Max(s)}] \in S
    BY <1>1, <1>6, LargestOf DEF FoldsLeft
  <2>2. \A s \in SUBSET (1..n) :
           f[s] = IF s = {} THEN << >> ELSE AddItem(corpus, f[s \ {Max(s)}], items[Max(s)])
    BY <1>4, <1>6, <2>1 DEF FoldsLeft
  <2> QED  BY <1>6, <2>2 DEF FoldsLeft
<1>8. Eqn(c)
  <2> HIDE DEF Eqn
  <2> QED  BY <1>7
<1>9. /\ c[{}] = << >>
      /\ \A k \in 1..n : c[1..k] = AddItem(corpus, c[1..(k - 1)], items[k])
  <2>1. \A s \in SUBSET (1..n) :
           c[s] = IF s = {} THEN << >> ELSE AddItem(corpus, c[s \ {Max(s)}], items[Max(s)])
    <3> HIDE DEF c
    <3> QED  BY <1>8
  <2> HIDE DEF c
  <2>2. ASSUME NEW k \in 1..n PROVE c[1..k] = AddItem(corpus, c[1..(k - 1)], items[k])
    <3>1. k \in Nat /\ k # 0 /\ (1..k) \in SUBSET (1..n)
      BY <1>1
    <3>2. Max(1..k) = k /\ (1..k) \ {k} = 1..(k - 1) /\ 1..k # {}
      BY <3>1, PlacesUpTo
    <3> QED  BY <2>1, <3>1, <3>2
  <2> QED  BY <2>1, <2>2
<1> HIDE DEF c
<1> DEFINE B == {k \in 0..n : Packs(corpus, items, k, c[1..k])}
<1>10. 0 \in B
  <2>1. 1..0 = {} /\ c[1..0] = << >>
    BY <1>9
  <2>2. Packs(corpus, items, 0, << >>)
    BY <2>1, EmptySeq DEF Packs
  <2> QED  BY <1>1, <2>1, <2>2
<1>11. ASSUME NEW k \in 1..n, k - 1 \in B PROVE k \in B
  <2>1. Packs(corpus, items, k - 1, c[1..(k - 1)])
    BY <1>11
  <2>2. Packs(corpus, items, k, AddItem(corpus, c[1..(k - 1)], items[k]))
    BY <2>1, ItemIsPacked
  <2>3. k \in 0..n
    BY <1>1
  <2> QED  BY <1>9, <2>2, <2>3
<1>12. n \in B
  <2>1. \A k \in 0..n : k \in B
    <3> HIDE DEF B
    <3> QED  BY <1>1, <1>10, <1>11, UpTo
  <2> HIDE DEF B
  <2> QED  BY <1>1, <2>1
<1> QED  BY <1>2, <1>12

-----------------------------------------------------------------------------
(* What a session would have read *)

\* The nearest chunk before that creates the table is the one that created it
\* last, as a session runs them.
LEMMA SessionWriterIsProducer ==
    ASSUME NEW corpus, NEW name, NEW i \in Places
    PROVE  SessionWriter(corpus, name, i) = Producer(corpus, name, i)
<1> DEFINE n == i - 1
           S == 0..n
           Writes(j) == name \in corpus.chunk[j].creates
           before == [j \in 1..n |-> j]
           step == [z \in (1..n) \X S |-> IF Writes(z[1]) THEN z[1] ELSE z[2]]
           Eqn(f) == f = [s \in SUBSET (1..n) |->
                            IF s = {} THEN 0
                            ELSE IF Writes(before[Max(s)]) THEN before[Max(s)]
                            ELSE f[s \ {Max(s)}]]
           c == CHOOSE f : Eqn(f)
<1>1. n \in Nat /\ 0 \in S /\ DOMAIN before = 1..n
  BY BatchingAssumption DEF Places
<1>2. SessionWriter(corpus, name, i) = c[1..n]
  BY <1>1 DEF SessionWriter, FoldLeft, MapThenFoldSet
<1> HIDE DEF n
<1>3. step \in [(1..n) \X S -> S]
  BY <1>1
<1>4. \A k \in 1..n : \A v \in S : /\ before[k] = k
                                   /\ step[<<k, v>>] = IF Writes(k) THEN k ELSE v
  OBVIOUS
<1> HIDE DEF step, before, S
<1>5. PICK f : FoldsLeft(f, n, S, 0, step)
  BY <1>1, <1>3, FoldLeftExists
<1> HIDE DEF Writes
<1>6. Eqn(f)
  <2>1. \A s \in SUBSET (1..n) : s # {} => Max(s) \in 1..n /\ f[s \ {Max(s)}] \in S
    BY <1>1, <1>5, LargestOf DEF FoldsLeft
  <2>2. \A s \in SUBSET (1..n) :
           f[s] = IF s = {} THEN 0
                  ELSE IF Writes(before[Max(s)]) THEN before[Max(s)] ELSE f[s \ {Max(s)}]
    <3>1. ASSUME NEW s \in SUBSET (1..n), s # {}
          PROVE  f[s] = IF Writes(before[Max(s)]) THEN before[Max(s)] ELSE f[s \ {Max(s)}]
      <4> DEFINE m == Max(s)
                 v == f[s \ {Max(s)}]
      <4>1. m \in 1..n /\ v \in S
        BY <2>1, <3>1
      <4>2. f[s] = step[<<m, v>>]
        BY <1>5, <3>1 DEF FoldsLeft
      <4> HIDE DEF m, v
      <4>3. f[s] = IF Writes(before[m]) THEN before[m] ELSE v
        BY <1>4, <4>1, <4>2
      <4> QED  BY <4>3 DEF m, v
    <3>2. f[{}] = 0
      BY <1>5 DEF FoldsLeft
    <3> QED  BY <3>1, <3>2
  <2> QED  BY <1>5, <2>2 DEF FoldsLeft
<1>7. Eqn(c)
  <2> HIDE DEF Eqn
  <2> QED  BY <1>6
<1>8. /\ c[{}] = 0
      /\ \A k \in 1..n : c[1..k] = IF Writes(k) THEN k ELSE c[1..(k - 1)]
  <2>1. \A s \in SUBSET (1..n) :
           c[s] = IF s = {} THEN 0
                  ELSE IF Writes(before[Max(s)]) THEN before[Max(s)] ELSE c[s \ {Max(s)}]
    <3> HIDE DEF c
    <3> QED  BY <1>7
  <2> HIDE DEF c
  <2>2. ASSUME NEW k \in 1..n PROVE c[1..k] = IF Writes(k) THEN k ELSE c[1..(k - 1)]
    <3>1. k \in Nat /\ k # 0 /\ (1..k) \in SUBSET (1..n) /\ before[k] = k
      BY <1>1 DEF before
    <3>2. Max(1..k) = k /\ (1..k) \ {k} = 1..(k - 1) /\ 1..k # {}
      BY <3>1, PlacesUpTo
    <3> QED  BY <2>1, <3>1, <3>2
  <2> QED  BY <2>1, <2>2
<1> HIDE DEF c
<1> DEFINE LastOf(k, w) == /\ w \in 0..k
                           /\ w # 0 => Writes(w)
                           /\ \A j \in 1..k : Writes(j) => j <= w
           B == {k \in 0..n : LastOf(k, c[1..k])}
<1>9. 0 \in B
  <2>1. 1..0 = {}
    OBVIOUS
  <2> QED  BY <1>1, <1>8, <2>1
<1>10. ASSUME NEW k \in 1..n, k - 1 \in B PROVE k \in B
  <2> DEFINE w == c[1..(k - 1)]
  <2>1. /\ w \in 0..(k - 1)
        /\ w # 0 => Writes(w)
        /\ \A j \in 1..(k - 1) : Writes(j) => j <= w
    BY <1>10
  <2>2. c[1..k] = IF Writes(k) THEN k ELSE w
    BY <1>8
  <2>3. k \in Nat /\ k \in 0..n /\ \A j \in 1..k : j \in Nat /\ (j = k \/ j \in 1..(k - 1))
    BY <1>1
  <2> HIDE DEF w
  <2>4. CASE Writes(k)
    <3>1. c[1..k] = k /\ k \in 0..k /\ \A j \in 1..k : j <= k
      BY <2>2, <2>3, <2>4
    <3> QED  BY <2>3, <2>4, <3>1
  <2>5. CASE ~Writes(k)
    <3>1. c[1..k] = w /\ w \in 0..k
      BY <2>1, <2>2, <2>3, <2>5
    <3>2. \A j \in 1..k : Writes(j) => j <= w
      BY <2>1, <2>3, <2>5
    <3> QED  BY <2>1, <2>3, <3>1, <3>2
  <2> QED  BY <2>4, <2>5
<1>11. LastOf(n, c[1..n])
  <2>1. \A k \in 0..n : k \in B
    <3> HIDE DEF B
    <3> QED  BY <1>1, <1>9, <1>10, UpTo
  <2> QED  BY <1>1, <2>1
<1>12. LastOf(n, Producer(corpus, name, i))
  BY ProducerIsBefore DEF n, Writes
<1>13. ASSUME NEW v, NEW w, LastOf(n, v), LastOf(n, w) PROVE v = w
  <2>1. v \in 0..n /\ w \in 0..n
    BY <1>13
  <2>2. v # 0 => v <= w
    <3>1. v # 0 => v \in 1..n /\ Writes(v)
      BY <1>13, <2>1
    <3> QED  BY <1>13, <3>1
  <2>3. w # 0 => w <= v
    <3>1. w # 0 => w \in 1..n /\ Writes(w)
      BY <1>13, <2>1
    <3> QED  BY <1>13, <3>1
  <2> QED  BY <2>1, <2>2, <2>3
<1> QED  BY <1>2, <1>11, <1>12, <1>13

-----------------------------------------------------------------------------
(* The units of every corpus are sound *)

\* The units hold every place once, are within budget, and keep together what
\* a strong edge joins.
LEMMA UnitsAreSound ==
    ASSUME NEW corpus \in Corpora
    PROVE  LET units == Packed(corpus)
           IN  /\ units \in Seq(WindowSet)
               /\ \A a \in DOMAIN units : InBudget(corpus, units[a])
               /\ \A i \in Places : \E a \in DOMAIN units : i \in ToSet(units[a].chunks)
               /\ \A a, b \in DOMAIN units :
                     \A x \in DOMAIN units[a].chunks, y \in DOMAIN units[b].chunks :
                        units[a].chunks[x] = units[b].chunks[y] => a = b /\ x = y
               /\ \A e \in StrongEdges(corpus) : \A a \in DOMAIN units :
                     e[2] \in ToSet(units[a].chunks) => e[1] \in ToSet(units[a].chunks)
<1> DEFINE group == Components(corpus).group
           context == GlobalContext(Components(corpus))
           items == Items(Components(corpus))
           units == Packed(corpus)
<1>1. group \in Groups /\ \A e \in StrongEdges(corpus) : group[e[1]] = group[e[2]]
  BY ComponentsJoin
<1>2. context \in SUBSET Places
  BY DEF GlobalContext
<1>3. \A x, y \in Places : group[x] = group[y] => (x \in context <=> y \in context)
  BY DEF GlobalContext
<1>4. items = ItemsOf(group, context)
  BY DEF Items
<1> HIDE DEF group, context, items
<1>5. PICK n : /\ Partition(n, items)
               /\ \A x, y \in Places : \A m \in 1..n :
                     /\ x \in ToSet(items[m].chunks)
                     /\ group[x] = group[y] /\ (x \in context <=> y \in context)
                     => y \in ToSet(items[m].chunks)
  BY <1>1, <1>2, <1>4, ItemsPartition
<1>6. Packs(corpus, items, n, units)
  BY <1>5, UnitsArePacked DEF items
<1> HIDE DEF units
<1>7. \A i \in Places : \E a \in DOMAIN units : i \in ToSet(units[a].chunks)
  BY <1>5, <1>6 DEF Packs, Partition
<1>8. ASSUME NEW e \in StrongEdges(corpus), NEW a \in DOMAIN units,
             e[2] \in ToSet(units[a].chunks)
      PROVE  e[1] \in ToSet(units[a].chunks)
  <2>1. e[1] \in Places /\ e[2] \in Places
    BY EdgesAreOfPlaces
  <2>2. PICK x \in DOMAIN units[a].chunks : units[a].chunks[x] = e[2]
    BY <1>8 DEF ToSet
  <2>3. PICK m \in 1..n : e[2] \in ToSet(items[m].chunks)
    BY <1>6, <2>2 DEF Packs
  <2>4. e[1] \in ToSet(items[m].chunks)
    BY <1>1, <1>3, <1>5, <2>1, <2>3
  <2>5. PICK b \in DOMAIN units : ToSet(items[m].chunks) \subseteq ToSet(units[b].chunks)
    BY <1>6 DEF Packs
  <2>6. PICK y \in DOMAIN units[b].chunks : units[b].chunks[y] = e[2]
    BY <2>3, <2>5 DEF ToSet
  <2>7. a = b
    BY <1>6, <2>2, <2>6 DEF Packs
  <2> QED  BY <2>4, <2>5, <2>7
<1> QED  BY <1>6, <1>7, <1>8 DEF Packs, units

BatchingInv ==
    subject = "batching" => input \in Corpora /\ (answered => result = Batched(input))

\* Whatever the corpus: every chunk is translated once, beside the chunk whose
\* table it reads, in units within budget that name what they need
\* (chunker.batcher).
THEOREM BatchesSound == BatchingSpec => []BatchesAreSound
<1>1. BatchingInit => BatchingInv
  BY DEF BatchingInit, Case, BatchingInv
<1>2. BatchingInv /\ [BatchingStep]_caseVars => BatchingInv'
  BY DEF BatchingInv, BatchingStep, Answer, caseVars
<1>3. BatchingInv => BatchesAreSound
  <2> SUFFICES ASSUME BatchingInv, Answered("batching") PROVE BatchesAreSound
    BY DEF BatchesAreSound, EachChunkOnce, ReaderWithWriter, UnitsWithinBudget, NeedsNamed
  <2> DEFINE units == Packed(input)
  <2>1. input \in Corpora /\ result = Named(input, units)
    BY DEF BatchingInv, Answered, Batched
  <2>2. /\ units \in Seq(WindowSet)
        /\ \A a \in DOMAIN units : InBudget(input, units[a])
        /\ \A i \in Places : \E a \in DOMAIN units : i \in ToSet(units[a].chunks)
        /\ \A a, b \in DOMAIN units :
              \A x \in DOMAIN units[a].chunks, y \in DOMAIN units[b].chunks :
                 units[a].chunks[x] = units[b].chunks[y] => a = b /\ x = y
        /\ \A e \in StrongEdges(input) : \A a \in DOMAIN units :
              e[2] \in ToSet(units[a].chunks) => e[1] \in ToSet(units[a].chunks)
    BY <2>1, UnitsAreSound
  <2> HIDE DEF units
  <2>3. /\ DOMAIN result = DOMAIN units
        /\ \A n \in DOMAIN units :
              /\ result[n].chunks = units[n].chunks /\ result[n].global = units[n].global
              /\ result[n].items = units[n].items /\ result[n].cost = units[n].cost
              /\ result[n].inputs = ExternalInputs(input, units[n].chunks)
              /\ result[n].macros = ExternalMacros(input, units[n].chunks)
              /\ result[n].variables = ExternalVariables(input, units[n].chunks)
    BY <2>1 DEF Named
  <2>4. \A n \in DOMAIN result : ToSet(result[n].chunks) \subseteq Places
    <3>1. ASSUME NEW n \in DOMAIN units PROVE units[n].chunks \in Seq(Places)
      <4>1. units[n] \in WindowSet
        BY <2>2, LenProperties
      <4> QED  BY <4>1 DEF WindowSet
    <3>2. ASSUME NEW n \in DOMAIN units PROVE ToSet(units[n].chunks) \subseteq Places
      BY <3>1, LenProperties DEF ToSet
    <3> QED  BY <2>3, <3>2
  <2>5. EachChunkOnce
    <3> SUFFICES ASSUME NEW i \in Places
                 PROVE  \E n \in DOMAIN result : \E k \in DOMAIN result[n].chunks :
                           \A m \in DOMAIN result : \A l \in DOMAIN result[m].chunks :
                              result[m].chunks[l] = i <=> m = n /\ l = k
      BY DEF EachChunkOnce
    <3>1. PICK n \in DOMAIN result : i \in ToSet(result[n].chunks)
      BY <2>2, <2>3
    <3>2. PICK k \in DOMAIN result[n].chunks : result[n].chunks[k] = i
      BY <3>1 DEF ToSet
    <3> QED  BY <2>2, <2>3, <3>2
  <2>6. ReaderWithWriter
    <3> SUFFICES ASSUME NEW n \in DOMAIN result, NEW i \in ToSet(result[n].chunks),
                        NEW name \in Reads(input, i) \cup input.chunk[i].body
                 PROVE  SessionWriter(input, name, i) \in {0} \cup ToSet(result[n].chunks)
      BY DEF ReaderWithWriter
    <3>1. i \in Places
      BY <2>4
    <3> DEFINE p == Producer(input, name, i)
    <3>2. SessionWriter(input, name, i) = p
      BY <3>1, SessionWriterIsProducer
    <3>3. CASE p # 0
      <4>1. i # 0
        BY <3>1, BatchingAssumption DEF Places
      <4>2. <<p, i>> \in StrongEdges(input)
        <5>1. <<p, i>> \in Edge(Producer(input, name, i), i)
          <6>1. p # i
            BY <3>1, ProducerIsBefore, BatchingAssumption DEF Places
          <6> QED  BY <3>3, <6>1 DEF Edge
        <5> HIDE DEF p
        <5> QED  BY <3>1, <5>1 DEF StrongEdges
      <4> HIDE DEF p
      <4>3. <<p, i>>[1] = p /\ <<p, i>>[2] = i
        OBVIOUS
      <4>4. p \in ToSet(result[n].chunks)
        BY <2>2, <2>3, <4>2, <4>3
      <4> QED  BY <3>2, <4>4
    <3> QED  BY <3>2, <3>3
  <2>7. UnitsWithinBudget
    BY <2>2, <2>3 DEF UnitsWithinBudget, InBudget
  <2>8. NeedsNamed
    <3> SUFFICES ASSUME NEW n \in DOMAIN result, NEW i \in ToSet(result[n].chunks)
                 PROVE  /\ \A name \in Reads(input, i) :
                              \/ name \in result[n].inputs
                              \/ \E j \in ToSet(result[n].chunks) :
                                    name \in input.chunk[j].creates
                        /\ input.chunk[i].invokes \ result[n].macros \subseteq
                              UNION {input.chunk[j].defines : j \in ToSet(result[n].chunks)}
                        /\ input.chunk[i].uses \ result[n].variables \subseteq
                              UNION {input.chunk[j].sets : j \in ToSet(result[n].chunks)}
      BY DEF NeedsNamed
    <3> DEFINE s == ToSet(result[n].chunks)
    <3>1. /\ result[n].inputs = (UNION {Reads(input, j) \cup input.chunk[j].body : j \in s})
                                   \ (UNION {input.chunk[j].creates : j \in s})
          /\ result[n].macros = (UNION {input.chunk[j].invokes : j \in s})
                                   \ (UNION {input.chunk[j].defines : j \in s})
          /\ result[n].variables = (UNION {input.chunk[j].uses : j \in s})
                                      \ (UNION {input.chunk[j].sets : j \in s})
      BY <2>3 DEF ExternalInputs, CreatedIn, ExternalMacros, ExternalVariables
    <3> HIDE DEF s
    <3>2. i \in s
      BY DEF s
    <3> QED  BY <3>1, <3>2 DEF s
  <2> QED  BY <2>5, <2>6, <2>7, <2>8 DEF BatchesAreSound
<1> QED  BY <1>1, <1>2, <1>3, PTL DEF BatchingSpec

-----------------------------------------------------------------------------
(* Paths and the rows that move them *)

\* What a component is once it is folded.
Parts == XrefNames \cup {"a", "b"}

Mapping(m) == DOMAIN m \subseteq Seq(Parts) /\ \A k \in DOMAIN m : m[k] \in Seq(Parts)

LEMMA LoweredIsPath ==
    ASSUME NEW v \in Seq(Parts)
    PROVE  /\ Lowered(v) \in Seq(Parts) /\ Len(Lowered(v)) = Len(v) /\ Len(v) \in Nat
           /\ \A i \in 1..Len(v) : Lowered(v)[i] = FoldName(v[i])
<1> DEFINE n == Len(v)
           w == [i \in 1..n |-> FoldName(v[i])]
<1>1. n \in Nat /\ DOMAIN v = 1..n /\ \A i \in 1..n : v[i] \in Parts
  BY LenProperties
<1>2. Lowered(v) = w
  BY <1>1 DEF Lowered
<1> HIDE DEF n
<1>3. \A i \in 1..n : FoldName(v[i]) \in Parts
  BY <1>1 DEF FoldName, Parts
<1>4. w \in Seq(Parts) /\ Len(w) = n
  BY <1>1, <1>3
<1> QED  BY <1>1, <1>2, <1>4 DEF n

\* A prefix, place by place.
LEMMA PrefixByPlaces ==
    ASSUME NEW s \in Seq(Parts), NEW t \in Seq(Parts)
    PROVE  /\ IsPrefix(s, t) <=> Len(s) <= Len(t) /\ \A i \in 1..Len(s) : s[i] = t[i]
           /\ IsStrictPrefix(s, t) <=> Len(s) < Len(t) /\ \A i \in 1..Len(s) : s[i] = t[i]
<1>1. Len(s) \in Nat /\ Len(t) \in Nat
  BY LenProperties
<1>2. SubSeq(s, 1, Len(s)) = s
  BY SubSeqFull
<1>3. ASSUME Len(s) <= Len(t)
      PROVE  SubSeq(t, 1, Len(s)) = s <=> \A i \in 1..Len(s) : s[i] = t[i]
  <2> DEFINE u == SubSeq(t, 1, Len(s))
             n == Len(s)
  <2>1. \A i \in 1..n : t[i] \in Parts
    BY <1>1, <1>3, ElementOfSeq
  <2>2. /\ u \in Seq(Parts) /\ Len(u) = IF 1 <= n THEN n - 1 + 1 ELSE 0
        /\ \A i \in 1..(n - 1 + 1) : u[i] = t[1 + i - 1]
    <3> n \in Int /\ 1 \in Int
      BY <1>1
    <3> HIDE DEF n
    <3> QED  BY <2>1, SubSeqProperties DEF n
  <2>3. n \in Nat /\ (IF 1 <= n THEN n - 1 + 1 ELSE 0) = n /\ n - 1 + 1 = n
        /\ \A i \in 1..n : 1 + i - 1 = i
    <3>1. n \in Nat
      BY <1>1
    <3> HIDE DEF n
    <3> QED  BY <3>1
  <2> HIDE DEF u
  <2>4. Len(u) = n /\ \A i \in 1..n : u[i] = t[i]
    <3> HIDE DEF n
    <3> QED  BY <2>2, <2>3
  <2>5. (\A i \in 1..n : s[i] = t[i]) => u = s
    BY <2>2, <2>4, SeqEqual
  <2> QED  BY <2>4, <2>5 DEF u
<1>4. IsPrefix(s, t) <=> Len(s) <= Len(t) /\ \A i \in 1..Len(s) : s[i] = t[i]
  BY <1>2, <1>3 DEF IsPrefix
<1>5. Len(s) = Len(t) /\ (\A i \in 1..Len(s) : s[i] = t[i]) => s = t
  BY SeqEqual
<1>6. IsStrictPrefix(s, t) <=> Len(s) < Len(t) /\ \A i \in 1..Len(s) : s[i] = t[i]
  BY <1>1, <1>4, <1>5 DEF IsStrictPrefix
<1> QED  BY <1>4, <1>6

\* The keys that are above a path.
Above(m, v) == {k \in DOMAIN m : IsStrictPrefix(k, Lowered(v))}

LEMMA LongestIsOne ==
    ASSUME NEW m, Mapping(m), NEW v \in Seq(Parts), Above(m, v) # {}
    PROVE  /\ LongestFirst(Above(m, v)) \in Above(m, v)
           /\ \A k \in Above(m, v) : Len(k) <= Len(LongestFirst(Above(m, v)))
<1> DEFINE S == {Len(k) : k \in Above(m, v)}
<1>1. \A k \in Above(m, v) : Len(k) \in 0..Len(v)
  BY LoweredIsPath, PrefixByPlaces, LenProperties DEF Above, Mapping
<1>2. S \subseteq 0..Len(v) /\ S # {} /\ Len(v) \in Nat
  <2>1. Len(v) \in Nat
    BY LenProperties
  <2>2. S \subseteq 0..Len(v)
    BY <1>1
  <2>3. PICK k \in Above(m, v) : TRUE
    OBVIOUS
  <2> QED  BY <2>1, <2>2, <2>3
<1>3. Max(S) \in S /\ \A l \in S : Max(S) >= l
  <2> HIDE DEF S
  <2> QED  BY <1>2, LargestNat
<1>4. PICK k \in Above(m, v) : \A j \in Above(m, v) : Len(j) <= Len(k)
  <2>1. PICK k \in Above(m, v) : Len(k) = Max(S)
    BY <1>3
  <2>2. \A j \in Above(m, v) : Max(S) >= Len(j)
    BY <1>3
  <2> HIDE DEF S
  <2> QED  BY <1>1, <2>1, <2>2
<1> QED  BY <1>4 DEF LongestFirst

LEMMA MapPathIs ==
    ASSUME NEW m, NEW v
    PROVE  MapPath(v, m) =
             IF Lowered(v) \in DOMAIN m THEN m[Lowered(v)]
             ELSE IF Above(m, v) = {} THEN v
             ELSE m[LongestFirst(Above(m, v))]
                    \o SubSeq(v, Len(LongestFirst(Above(m, v))) + 1, Len(v))
BY DEF MapPath, Above

LEMMA FrontOf ==
    ASSUME NEW v \in Seq(Parts), Len(v) > 1
    PROVE  /\ Front(v) \in Seq(Parts) /\ Len(Front(v)) = Len(v) - 1
           /\ \A i \in 1..(Len(v) - 1) : Front(v)[i] = v[i]
           /\ Last(v) \in Parts /\ v = Append(Front(v), Last(v))
<1> DEFINE n == Len(v)
<1>1. n \in Nat /\ n > 1 /\ \A i \in 1..n : v[i] \in Parts
  BY LenProperties
<1>2. Front(v) = SubSeq(v, 1, n - 1) /\ Last(v) = v[n]
  BY DEF Front, Last
<1> HIDE DEF n
<1>3. /\ SubSeq(v, 1, n - 1) \in Seq(Parts)
      /\ Len(SubSeq(v, 1, n - 1)) = IF 1 <= n - 1 THEN (n - 1) - 1 + 1 ELSE 0
      /\ \A i \in 1..((n - 1) - 1 + 1) : SubSeq(v, 1, n - 1)[i] = v[1 + i - 1]
  <2> 1 \in Int /\ n - 1 \in Int /\ \A i \in 1..(n - 1) : v[i] \in Parts
    BY <1>1
  <2> QED  BY SubSeqProperties
<1>4. /\ Front(v) \in Seq(Parts) /\ Len(Front(v)) = n - 1
      /\ \A i \in 1..(n - 1) : Front(v)[i] = v[i]
  BY <1>1, <1>2, <1>3
<1>5. Last(v) \in Parts
  BY <1>1, <1>2
<1> DEFINE u == Append(Front(v), Last(v))
<1>6. /\ u \in Seq(Parts) /\ Len(u) = (n - 1) + 1 /\ \A i \in 1..(n - 1) : u[i] = v[i]
      /\ u[(n - 1) + 1] = v[n]
  BY <1>2, <1>4, <1>5, AppendProperties
<1> HIDE DEF u
<1>7. Len(u) = n /\ \A i \in 1..n : u[i] = v[i]
  BY <1>1, <1>6
<1>8. u = v
  BY <1>6, <1>7, SeqEqual DEF n
<1> QED  BY <1>4, <1>5, <1>8 DEF n, u

\* What lies in a folder is moved with it.
LEMMA FolderMoves ==
    ASSUME NEW m, Mapping(m), NEW v \in Seq(Parts), Len(v) > 1, Lowered(v) \notin DOMAIN m
    PROVE  MapPath(v, m) = Append(MapPath(Front(v), m), Last(v))
<1> DEFINE n == Len(v)
           f == Front(v)
           e == Last(v)
           lv == Lowered(v)
           lf == Lowered(f)
<1>1. /\ f \in Seq(Parts) /\ Len(f) = n - 1 /\ \A i \in 1..(n - 1) : f[i] = v[i]
      /\ e \in Parts /\ v = Append(f, e) /\ n \in Nat /\ n > 1
  BY FrontOf, LenProperties
<1>2. /\ lv \in Seq(Parts) /\ Len(lv) = n /\ lf \in Seq(Parts) /\ Len(lf) = n - 1
      /\ \A i \in 1..(n - 1) : lf[i] = lv[i]
  <2>1. /\ lv \in Seq(Parts) /\ Len(lv) = n /\ \A i \in 1..n : lv[i] = FoldName(v[i])
    BY LoweredIsPath
  <2>2. /\ lf \in Seq(Parts) /\ Len(lf) = n - 1 /\ \A i \in 1..(n - 1) : lf[i] = FoldName(f[i])
    <3> HIDE DEF f, n
    <3> QED  BY <1>1, LoweredIsPath
  <2> HIDE DEF f, n, lv, lf
  <2> QED  BY <1>1, <2>1, <2>2
<1>3. \A k \in DOMAIN m : k \in Seq(Parts) /\ Len(k) \in Nat /\ m[k] \in Seq(Parts)
  BY LenProperties DEF Mapping
<1>4. \A k \in DOMAIN m :
         k \in Above(m, v) <=> Len(k) < n /\ \A i \in 1..Len(k) : k[i] = lv[i]
  BY <1>2, <1>3, PrefixByPlaces DEF Above
<1>5. \A k \in DOMAIN m :
         k \in Above(m, f) <=> Len(k) < n - 1 /\ \A i \in 1..Len(k) : k[i] = lf[i]
  BY <1>2, <1>3, PrefixByPlaces DEF Above
<1>6. ASSUME NEW k \in Above(m, v), Len(k) >= n - 1 PROVE k = lf
  <2>1. k \in Seq(Parts) /\ Len(k) \in Nat /\ Len(k) < n /\ \A i \in 1..Len(k) : k[i] = lv[i]
    BY <1>3, <1>4 DEF Above
  <2> HIDE DEF n, lf, lv
  <2>2. Len(k) = n - 1
    BY <1>1, <1>6, <2>1
  <2>3. \A i \in 1..(n - 1) : k[i] = lf[i]
    BY <1>2, <2>1, <2>2
  <2> QED  BY <1>2, <2>1, <2>2, <2>3, SeqEqual
<1>7. Above(m, f) \subseteq Above(m, v)
  <2> HIDE DEF n, lf, lv
  <2>1. ASSUME NEW k \in Above(m, f) PROVE k \in Above(m, v)
    <3>1. k \in DOMAIN m
      BY DEF Above
    <3>2. Len(k) \in Nat /\ Len(k) < n - 1 /\ \A i \in 1..Len(k) : k[i] = lf[i]
      BY <1>3, <1>5, <3>1
    <3>3. Len(k) < n /\ \A i \in 1..Len(k) : i \in 1..(n - 1)
      BY <1>1, <3>2
    <3> QED  BY <1>2, <1>4, <3>1, <3>2, <3>3
  <2> QED  BY <2>1
<1>8. CASE lf \in DOMAIN m
  <2>1. lf \in Above(m, v)
    <3> HIDE DEF n, lf, lv
    <3> QED  BY <1>1, <1>2, <1>4, <1>8
  <2> DEFINE key == LongestFirst(Above(m, v))
  <2>2. key \in Above(m, v) /\ Len(lf) <= Len(key)
    BY <2>1, LongestIsOne
  <2>3. Len(key) >= n - 1
    <3>1. Len(key) \in Nat
      BY <1>3, <2>2 DEF Above
    <3> HIDE DEF n, lf, lv, key
    <3> QED  BY <1>1, <1>2, <2>2, <3>1
  <2>4. key = lf
    <3> HIDE DEF n, lf, lv, key
    <3> QED  BY <1>6, <2>2, <2>3
  <2>5. MapPath(v, m) = m[key] \o SubSeq(v, Len(key) + 1, n)
    BY <2>2, MapPathIs
  <2>6. MapPath(f, m) = m[lf]
    BY <1>8, MapPathIs
  <2> HIDE DEF key, lf, f
  <2>7. SubSeq(v, Len(key) + 1, n) = <<e>>
    <3>1. Len(key) + 1 = n
      <4> HIDE DEF n
      <4> QED  BY <1>1, <1>2, <2>4
    <3>2. n \in 1..n
      <4> HIDE DEF n
      <4> QED  BY <1>1
    <3>3. SubSeq(v, n, n) = SubSeq(v, n, n - 1) \o <<v[n]>>
      BY <3>2, SubSeqRecursiveSecond
    <3>4. SubSeq(v, n, n - 1) = << >>
      <4>1. n \in Int /\ n - 1 \in Int /\ n - 1 < n
        <5> HIDE DEF n
        <5> QED  BY <1>1
      <4> QED  BY <4>1, SubSeqEmpty
    <3>5. <<v[n]>> \in Seq(Parts) /\ e = v[n]
      BY <1>1 DEF Last
    <3> QED  BY <3>1, <3>3, <3>4, <3>5, ConcatEmptySeq
  <2> QED  BY <1>1, <1>3, <1>8, <2>4, <2>5, <2>6, <2>7, AppendIsConcat DEF f
<1>9. CASE lf \notin DOMAIN m /\ Above(m, v) = {}
  <2>1. MapPath(v, m) = v
    BY <1>9, MapPathIs
  <2>2. MapPath(f, m) = f
    <3> HIDE DEF f
    <3> QED  BY <1>7, <1>9, MapPathIs DEF lf
  <2> QED  BY <1>1, <2>1, <2>2
<1>10. CASE lf \notin DOMAIN m /\ Above(m, v) # {}
  <2>1. Above(m, f) = Above(m, v)
    <3>1. ASSUME NEW k \in Above(m, v) PROVE k \in Above(m, f)
      <4>1. k \in DOMAIN m
        BY DEF Above
      <4> HIDE DEF n, lf, lv
      <4>2. Len(k) \in Nat /\ Len(k) < n /\ \A i \in 1..Len(k) : k[i] = lv[i]
        BY <1>3, <1>4, <4>1
      <4>3. Len(k) < n - 1
        BY <1>1, <1>6, <1>10, <4>1, <4>2
      <4>4. \A i \in 1..Len(k) : i \in 1..(n - 1)
        BY <1>1, <4>2, <4>3
      <4> QED  BY <1>2, <1>5, <4>1, <4>2, <4>3, <4>4
    <3> QED  BY <1>7, <3>1
  <2> DEFINE key == LongestFirst(Above(m, v))
             l == Len(key) + 1
  <2>2. key \in Above(m, v)
    BY <1>10, LongestIsOne
  <2>3. l \in 1..(n - 1) /\ key \in DOMAIN m
    <3>1. key \in DOMAIN m
      BY <2>2 DEF Above
    <3>2. Len(key) \in Nat /\ Len(key) < n - 1
      <4> HIDE DEF n, lf, lv, key
      <4> QED  BY <1>3, <1>5, <2>1, <2>2, <3>1
    <3> HIDE DEF n, key
    <3> QED  BY <1>1, <3>1, <3>2
  <2>4. MapPath(v, m) = m[key] \o SubSeq(v, l, n)
    BY <1>10, MapPathIs
  <2>5. MapPath(f, m) = m[key] \o SubSeq(f, l, n - 1)
    <3> HIDE DEF f, n
    <3> QED  BY <1>1, <1>10, <2>1, MapPathIs DEF lf
  <2> HIDE DEF key, l
  <2>6. /\ SubSeq(v, l, n) = SubSeq(v, l, n - 1) \o <<v[n]>> /\ e = v[n]
    <3>1. l \in 1..n /\ n \in l..n
      <4> HIDE DEF n
      <4> QED  BY <1>1, <2>3
    <3> QED  BY <3>1, SubSeqRecursiveSecond DEF Last
  <2>7. /\ SubSeq(f, l, n - 1) = SubSeq(v, l, n - 1) /\ SubSeq(v, l, n - 1) \in Seq(Parts)
    <3> DEFINE s == SubSeq(f, l, n - 1)
               t == SubSeq(v, l, n - 1)
               d == n - 1 - l + 1
    <3>1. /\ l \in Int /\ n - 1 \in Int /\ l <= n - 1 /\ d \in Nat
          /\ \A i \in l..(n - 1) : i \in 1..n /\ i \in 1..(n - 1)
          /\ \A i \in 1..d : l + i - 1 \in 1..(n - 1)
      <4> HIDE DEF n
      <4> QED  BY <1>1, <2>3
    <3>2. \A i \in l..(n - 1) : f[i] \in Parts /\ v[i] \in Parts
      <4> HIDE DEF n, f
      <4> QED  BY <1>1, <3>1, ElementOfSeq DEF n
    <3>3. /\ s \in Seq(Parts) /\ Len(s) = d
          /\ \A i \in 1..d : s[i] = f[l + i - 1]
      <4> HIDE DEF n, f
      <4> QED  BY <3>1, <3>2, SubSeqProperties
    <3>4. /\ t \in Seq(Parts) /\ Len(t) = d
          /\ \A i \in 1..d : t[i] = v[l + i - 1]
      <4> HIDE DEF n
      <4> QED  BY <3>1, <3>2, SubSeqProperties
    <3> HIDE DEF s, t, d, n, f
    <3>5. \A i \in 1..d : s[i] = t[i]
      BY <1>1, <3>1, <3>3, <3>4
    <3>6. s = t
      BY <3>3, <3>4, <3>5, SeqEqual
    <3> QED  BY <3>4, <3>6 DEF s, t
  <2> DEFINE g == m[key]
             r == SubSeq(v, l, n - 1)
  <2>8. g \in Seq(Parts) /\ r \in Seq(Parts) /\ <<e>> \in Seq(Parts)
    BY <1>1, <1>3, <2>3, <2>7
  <2>9. MapPath(v, m) = g \o (r \o <<e>>) /\ MapPath(f, m) = g \o r
    BY <2>4, <2>5, <2>6, <2>7
  <2> HIDE DEF g, r, e, f
  <2>10. g \o r \in Seq(Parts)
    BY <2>8, ConcatProperties
  <2>11. (g \o r) \o <<e>> = g \o (r \o <<e>>)
    BY <2>8, ConcatAssociative
  <2>12. Append(g \o r, e) = (g \o r) \o <<e>>
    BY <1>1, <2>10, AppendIsConcat
  <2> QED  BY <2>9, <2>11, <2>12 DEF e, f
<1> QED  BY <1>8, <1>9, <1>10

\* A path no row is at or above stays where it is.
LEMMA NothingMoves ==
    ASSUME NEW m, Mapping(m), NEW w \in Seq(Parts),
           \A j \in DOMAIN m : ~IsPrefix(j, Lowered(w))
    PROVE  MapPath(w, m) = w
<1>1. Lowered(w) \in Seq(Parts) /\ \A j \in DOMAIN m : j \in Seq(Parts)
  BY LoweredIsPath DEF Mapping
<1>2. Lowered(w) \notin DOMAIN m
  <2>1. IsPrefix(Lowered(w), Lowered(w))
    <3>1. Len(Lowered(w)) \in Nat
      BY <1>1, LenProperties
    <3> QED  BY <1>1, <3>1, PrefixByPlaces
  <2> QED  BY <2>1
<1>3. Above(m, w) = {}
  BY DEF Above, IsStrictPrefix
<1> QED  BY <1>2, <1>3, MapPathIs

\* No row moves a target, or a place above or beneath one.
Settled(m) ==
    \A k \in DOMAIN m : \A j \in DOMAIN m :
        ~IsPrefix(j, Lowered(m[k])) /\ ~IsPrefix(Lowered(m[k]), j)

\* What lies beneath a target is not moved again.
LEMMA BeneathTargetStays ==
    ASSUME NEW m, Mapping(m), Settled(m), NEW k \in DOMAIN m, NEW w \in Seq(Parts),
           Len(m[k]) <= Len(w), \A i \in 1..Len(m[k]) : w[i] = m[k][i]
    PROVE  MapPath(w, m) = w
<1> DEFINE t == m[k]
           lt == Lowered(t)
           lw == Lowered(w)
<1>1. t \in Seq(Parts) /\ Len(t) \in Nat /\ Len(w) \in Nat
  BY LenProperties DEF Mapping
<1>2. lt \in Seq(Parts) /\ Len(lt) = Len(t) /\ \A i \in 1..Len(t) : lt[i] = FoldName(t[i])
  BY <1>1, LoweredIsPath
<1>3. lw \in Seq(Parts) /\ Len(lw) = Len(w) /\ \A i \in 1..Len(w) : lw[i] = FoldName(w[i])
  BY LoweredIsPath
<1> HIDE DEF lt, lw
<1>4. \A i \in 1..Len(t) : lw[i] = lt[i]
  BY <1>1, <1>2, <1>3
<1>5. ASSUME NEW j \in DOMAIN m, IsPrefix(j, lw) PROVE FALSE
  <2>1. j \in Seq(Parts) /\ Len(j) \in Nat
    BY LenProperties DEF Mapping
  <2>2. Len(j) <= Len(w) /\ \A i \in 1..Len(j) : j[i] = lw[i]
    BY <1>3, <1>5, <2>1, PrefixByPlaces
  <2>3. CASE Len(j) <= Len(t)
    <3>1. \A i \in 1..Len(j) : j[i] = lt[i]
      BY <1>1, <1>4, <2>1, <2>2, <2>3
    <3>2. IsPrefix(j, lt)
      BY <1>2, <2>1, <2>3, <3>1, PrefixByPlaces
    <3> QED  BY <3>2 DEF Settled, lt
  <2>4. CASE Len(t) <= Len(j)
    <3>1. \A i \in 1..Len(lt) : lt[i] = j[i]
      BY <1>1, <1>2, <1>4, <2>1, <2>2, <2>4
    <3>2. IsPrefix(lt, j)
      BY <1>2, <2>1, <2>4, <3>1, PrefixByPlaces
    <3> QED  BY <3>2 DEF Settled, lt
  <2> QED  BY <1>1, <2>1, <2>3, <2>4
<1> QED  BY <1>5, NothingMoves DEF lw

\* A path that has been moved is not moved again.
LEMMA MovedStays ==
    ASSUME NEW m, Mapping(m), Settled(m), NEW v \in Seq(Parts)
    PROVE  MapPath(MapPath(v, m), m) = MapPath(v, m)
<1> DEFINE w == MapPath(v, m)
<1>1. CASE Lowered(v) \in DOMAIN m
  <2>1. w = m[Lowered(v)] /\ w \in Seq(Parts) /\ Len(w) \in Nat
    BY <1>1, MapPathIs, LenProperties DEF Mapping
  <2> HIDE DEF w
  <2>2. Len(m[Lowered(v)]) <= Len(w) /\ \A i \in 1..Len(m[Lowered(v)]) : w[i] = m[Lowered(v)][i]
    BY <2>1
  <2>3. MapPath(w, m) = w
    BY <1>1, <2>1, <2>2, BeneathTargetStays
  <2> QED  BY <2>3 DEF w
<1>2. CASE Lowered(v) \notin DOMAIN m /\ Above(m, v) = {}
  BY <1>2, MapPathIs
<1>3. CASE Lowered(v) \notin DOMAIN m /\ Above(m, v) # {}
  <2> DEFINE key == LongestFirst(Above(m, v))
             r == SubSeq(v, Len(key) + 1, Len(v))
  <2>1. key \in DOMAIN m /\ key \in Seq(Parts) /\ m[key] \in Seq(Parts)
    BY <1>3, LongestIsOne DEF Above, Mapping
  <2>2. r \in Seq(Parts)
    <3>1. Len(key) \in Nat /\ Len(v) \in Nat /\ Len(key) + 1 \in Int /\ Len(v) \in Int
      BY <2>1, LenProperties
    <3>2. \A i \in (Len(key) + 1)..Len(v) : i \in 1..Len(v)
      <4> HIDE DEF key
      <4> QED  BY <3>1
    <3>3. \A i \in (Len(key) + 1)..Len(v) : v[i] \in Parts
      BY <3>2, ElementOfSeq
    <3> HIDE DEF key
    <3> QED  BY <3>1, <3>3, SubSeqProperties
  <2>3. w = m[key] \o r
    BY <1>3, MapPathIs
  <2> HIDE DEF w, key, r
  <2>4. /\ w \in Seq(Parts) /\ Len(w) = Len(m[key]) + Len(r)
        /\ \A i \in 1..Len(m[key]) : w[i] = m[key][i]
    <3>1. Len(m[key]) \in Nat /\ Len(r) \in Nat
      BY <2>1, <2>2, LenProperties
    <3>2. /\ w \in Seq(Parts) /\ Len(w) = Len(m[key]) + Len(r)
          /\ \A i \in 1..(Len(m[key]) + Len(r)) :
                w[i] = IF i <= Len(m[key]) THEN m[key][i] ELSE r[i - Len(m[key])]
      BY <2>1, <2>2, <2>3, ConcatProperties
    <3> QED  BY <3>1, <3>2
  <2>5. Len(m[key]) <= Len(w)
    BY <2>1, <2>2, <2>4, LenProperties
  <2>6. MapPath(w, m) = w
    BY <2>1, <2>4, <2>5, BeneathTargetStays
  <2> QED  BY <2>6 DEF w
<1> QED  BY <1>1, <1>2, <1>3

\* The paths' mapping of the rows is one of paths to paths.
Row == [marker : STRING, source : Seq(XrefNames), target : Seq(XrefNames)]

LEMMA ByPathMaps ==
    ASSUME NEW rows \in Seq(Row)
    PROVE  Mapping(Classify(rows).by_path)
<1> DEFINE kept == {i \in DOMAIN rows : Usable(rows[i]) /\ rows[i].marker \in PathMarkers}
           of(k) == {i \in kept : rows[i].source = k}
           f == [k \in {rows[i].source : i \in kept} |-> rows[Max(of(k))].target]
<1>1. Classify(rows).by_path = f
  BY DEF Classify, Filed
<1>2. DOMAIN rows = 1..Len(rows) /\ Len(rows) \in Nat /\ \A i \in DOMAIN rows : rows[i] \in Row
  BY LenProperties
<1>3. \A i \in DOMAIN rows : rows[i].source \in Seq(Parts) /\ rows[i].target \in Seq(Parts)
  <2>1. \A s \in Seq(XrefNames) : s \in Seq(Parts)
    <3>1. SUFFICES ASSUME NEW s \in Seq(XrefNames) PROVE s \in Seq(Parts)
      OBVIOUS
    <3>2. \A i \in 1..Len(s) : s[i] \in Parts
      BY DEF Parts
    <3> QED  BY <3>2
  <2> QED  BY <1>2, <2>1 DEF Row
<1>4. ASSUME NEW k \in {rows[i].source : i \in kept}
      PROVE  Max(of(k)) \in DOMAIN rows
  <2>1. PICK i \in kept : rows[i].source = k
    BY <1>4
  <2>2. of(k) # {}
    BY <2>1
  <2>3. of(k) \subseteq 0..Len(rows)
    BY <1>2
  <2> HIDE DEF kept
  <2>4. Max(of(k)) \in of(k)
    <3> DEFINE S == of(k)
    <3> HIDE DEF S
    <3>1. S # {} /\ S \subseteq 0..Len(rows)
      BY <2>2, <2>3 DEF S
    <3>2. Max(S) \in S
      BY <1>2, <3>1, LargestNat
    <3> QED  BY <3>2 DEF S
  <2> QED  BY <2>4 DEF kept
<1>5. DOMAIN f = {rows[i].source : i \in kept}
  OBVIOUS
<1>6. \A k \in DOMAIN f : f[k] \in Seq(Parts) /\ k \in Seq(Parts)
  BY <1>3, <1>4
<1> HIDE DEF f
<1> QED  BY <1>1, <1>6 DEF Mapping

-----------------------------------------------------------------------------
(* A case of the rewriting *)

XrefCases ==
    [rows : XrefRows, uses : XrefUses,
     cell : [language : {"sql", "python", "r"}, parses : BOOLEAN]]

XrefInv ==
    subject = "xref" =>
        /\ input \in XrefCases
        /\ answered => result = [mode \in {"pre", "post", "both"} |-> Passed(mode, input)]

LEMMA XrefInvHolds == XrefSpec => []XrefInv
<1>1. XrefInit => XrefInv
  BY DEF XrefInit, Case, XrefInv, XrefCases
<1>2. XrefInv /\ [XrefStep]_caseVars => XrefInv'
  BY DEF XrefInv, XrefStep, Answer, caseVars
<1> QED  BY <1>1, <1>2, PTL DEF XrefSpec

LEMMA XrefCaseIs ==
    ASSUME XrefInv, Answered("xref")
    PROVE  /\ input.rows \in Seq(Row) /\ input.uses.ref.value \in Seq(Parts)
           /\ result = [mode \in {"pre", "post", "both"} |-> Passed(mode, input)]
<1>1. input \in XrefCases /\ result = [mode \in {"pre", "post", "both"} |-> Passed(mode, input)]
  BY DEF XrefInv, Answered
<1>2. input.rows \in Seq(Row) /\ input.uses \in XrefUses
  BY <1>1, XrefAssumption DEF XrefCases, Row
<1>3. input.uses.ref.value \in Seq(XrefNames)
  BY <1>2, XrefAssumption
<1>4. \A i \in 1..Len(input.uses.ref.value) : input.uses.ref.value[i] \in Parts
  BY <1>3 DEF Parts
<1>5. input.uses.ref.value \in Seq(Parts)
  <2> DEFINE v == input.uses.ref.value
  <2>1. v \in Seq(XrefNames) /\ \A i \in 1..Len(v) : v[i] \in Parts
    BY <1>3, <1>4
  <2> HIDE DEF v
  <2>2. v \in Seq(Parts)
    BY <2>1
  <2> QED  BY <2>2 DEF v
<1> QED  BY <1>1, <1>2, <1>5

(* Whatever rows a table holds and whatever path a program names, a path that
   has no row of its own lands where its folder is moved to, and both passes
   and each of them alone put a path in one place when no row moves a target
   (classify, map_path and the passes of xref). *)
THEOREM PathsMovedAlike == XrefSpec => []PathsAreMovedAlike
<1>1. XrefInv => FoldersMoveWhole
  <2> SUFFICES ASSUME XrefInv, Answered("xref"),
                      Len(input.uses.ref.value) > 1,
                      Lowered(input.uses.ref.value) \notin DOMAIN ByPath
               PROVE  MapPath(input.uses.ref.value, ByPath)
                        = Append(MapPath(Front(input.uses.ref.value), ByPath),
                                 Last(input.uses.ref.value))
    BY DEF FoldersMoveWhole
  <2>1. Mapping(ByPath) /\ input.uses.ref.value \in Seq(Parts)
    BY XrefCaseIs, ByPathMaps DEF ByPath
  <2> QED  BY <2>1, FolderMoves
<1>2. XrefInv => OnePlacePerPath
  <2> SUFFICES ASSUME XrefInv, Answered("xref"), Readable, TargetsStay
               PROVE  \A mode \in {"post", "both"} : result[mode].path = result["pre"].path
    BY DEF OnePlacePerPath
  <2> DEFINE v == input.uses.ref.value
  <2>1. Mapping(ByPath) /\ Settled(ByPath) /\ v \in Seq(Parts)
    BY XrefCaseIs, ByPathMaps DEF ByPath, TargetsStay, Settled
  <2>2. MapPath(MapPath(v, ByPath), ByPath) = MapPath(v, ByPath)
    BY <2>1, MovedStays
  <2>3. \A mode \in {"pre", "post", "both"} : result[mode] = Passed(mode, input)
    BY XrefCaseIs
  <2>4. PrePath(input.uses.ref, Classify(input.rows)) = MapPath(v, ByPath)
    BY DEF PrePath, Readable, ByPath
  <2>5. \A p : PostPath(p, input.cell, Classify(input.rows)) = MapPath(p, ByPath)
    BY DEF PostPath, Claimed, Readable, ByPath
  <2>6. result["pre"].path = MapPath(v, ByPath)
    BY <2>3, <2>4 DEF Passed
  <2>7. result["post"].path = MapPath(v, ByPath)
    BY <2>3, <2>5 DEF Passed
  <2>8. result["both"].path = MapPath(MapPath(v, ByPath), ByPath)
    BY <2>3, <2>4, <2>5 DEF Passed
  <2> QED  BY <2>2, <2>6, <2>7, <2>8
<1>3. XrefInv => PathsAreMovedAlike
  BY <1>1, <1>2 DEF PathsAreMovedAlike
<1> QED  BY <1>3, XrefInvHolds, PTL

-----------------------------------------------------------------------------
(* The cells of an output *)

CellLanguages == STRING \cup {"none", "python", "sql"}
NotebookCells == [item : Nat, place : Nat, kind : {"code", "prose"}, lang : CellLanguages]

IsOutput(output) ==
    /\ output.sources \in Seq(SasFiles) /\ IsInjective(output.sources)
    /\ output.document \in BOOLEAN /\ output.language \in STRING
    /\ output.cells \in Seq(OutputCells)

\* Code of the place p of item i.
IsCodeOf(cell, i, p) == cell.kind = "code" /\ cell.item = i /\ cell.place = p
Spots(cells, i, p) == {k \in DOMAIN cells : IsCodeOf(cells[k], i, p)}
One(S) == \E x : S = {x}

\* Cells of item n and of no other, its banner the first of them.
CellsOf(n, cells) ==
    /\ cells \in Seq(NotebookCells) /\ Len(cells) >= 1
    /\ \A k \in 1..Len(cells) : cells[k].item = n

LEMMA BannerIsCell ==
    ASSUME NEW n \in Nat
    PROVE  /\ Banner(n) \in NotebookCells /\ Banner(n).item = n /\ Banner(n).kind = "prose"
           /\ CellsOf(n, <<Banner(n)>>) /\ \A i, p : Spots(<<Banner(n)>>, i, p) = {}
<1>1. Banner(n) \in NotebookCells /\ Banner(n).item = n /\ Banner(n).kind = "prose"
  BY DEF Banner, ProseCell, NotebookCells, CellLanguages
<1> DEFINE b == Banner(n)
<1> HIDE DEF b
<1>2. b \in NotebookCells /\ b.item = n /\ b.kind = "prose"
  BY <1>1 DEF b
<1>3. <<b>> \in Seq(NotebookCells) /\ Len(<<b>>) = 1 /\ <<b>>[1] = b
  BY <1>2
<1>4. CellsOf(n, <<b>>)
  BY <1>2, <1>3 DEF CellsOf
<1>5. \A i, p : Spots(<<b>>, i, p) = {}
  BY <1>2, <1>3 DEF Spots, IsCodeOf
<1> QED  BY <1>1, <1>4, <1>5 DEF b

LEMMA DocumentCellIs ==
    ASSUME NEW n \in Nat, NEW place \in Nat, NEW cell \in OutputCells, NEW language \in CellLanguages
    PROVE  /\ DocumentCell(n, place, cell, language) \in NotebookCells
           /\ DocumentCell(n, place, cell, language).item = n
           /\ DocumentCell(n, place, cell, language).place = place
           /\ DocumentCell(n, place, cell, language).kind = cell.kind
<1>1. cell.kind \in {"code", "prose"} /\ cell.lang \in STRING
  BY DEF OutputCells
<1> QED  BY <1>1 DEF DocumentCell, ProseCell, CodeCell, NotebookCells, CellLanguages

LEMMA SpotsOfAppend ==
    ASSUME NEW s \in Seq(NotebookCells), NEW c \in NotebookCells, NEW i, NEW p
    PROVE  /\ IsCodeOf(c, i, p) => Spots(Append(s, c), i, p) = Spots(s, i, p) \cup {Len(s) + 1}
           /\ ~IsCodeOf(c, i, p) => Spots(Append(s, c), i, p) = Spots(s, i, p)
<1>1. Len(s) \in Nat /\ DOMAIN s = 1..Len(s)
  BY LenProperties
<1> DEFINE t == Append(s, c)
<1>2. /\ t \in Seq(NotebookCells) /\ Len(t) = Len(s) + 1 /\ DOMAIN t = 1..(Len(s) + 1)
      /\ \A k \in 1..Len(s) : t[k] = s[k]
      /\ t[Len(s) + 1] = c
  BY AppendProperties, LenProperties
<1> HIDE DEF t
<1>3. /\ IsCodeOf(c, i, p) => Spots(t, i, p) = Spots(s, i, p) \cup {Len(s) + 1}
      /\ ~IsCodeOf(c, i, p) => Spots(t, i, p) = Spots(s, i, p)
  BY <1>1, <1>2 DEF Spots
<1> QED  BY <1>3 DEF t

\* What the model meant to run is in an item's cells once.
LEMMA ItemCellsAre ==
    ASSUME NEW n \in Nat, NEW output, IsOutput(output)
    PROVE  /\ CellsOf(n, ItemCells(n, output))
           /\ \A p \in MeantToRun(output) : One(Spots(ItemCells(n, output), n, p))
<1> DEFINE C(place) == IF output.document
                       THEN DocumentCell(n, place, output.cells[place], output.language)
                       ELSE MarkdownCell(n, place, output, output.language)
           d == Len(output.cells)
           f == [place \in DOMAIN output.cells |-> C(place)]
           b == Banner(n)
           s == <<b>> \o f
<1>1. /\ d \in Nat /\ DOMAIN output.cells = 1..d
      /\ \A place \in 1..d : output.cells[place] \in OutputCells
      /\ output.language \in STRING /\ output.document \in BOOLEAN
  BY LenProperties DEF IsOutput
<1>2. ASSUME NEW place \in 1..d
      PROVE  C(place) \in NotebookCells /\ C(place).item = n /\ C(place).place = place
  <2>1. place \in Nat /\ output.cells[place] \in OutputCells
    BY <1>1
  <2>2. LET D == DocumentCell(n, place, output.cells[place], output.language)
        IN  D \in NotebookCells /\ D.item = n /\ D.place = place
    <3> DEFINE D == DocumentCell(n, place, output.cells[place], output.language)
    <3>1. D \in NotebookCells /\ D.item = n /\ D.place = place
      <4> HIDE DEF d
      <4>1. output.language \in CellLanguages
        BY <1>1 DEF CellLanguages
      <4> QED  BY <2>1, <4>1, DocumentCellIs
    <3> QED  BY <3>1
  <2>3. LET D == ProseCell(n, place)
        IN  D \in NotebookCells /\ D.item = n /\ D.place = place
    BY <2>1 DEF ProseCell, NotebookCells, CellLanguages
  <2> QED  BY <2>2, <2>3 DEF MarkdownCell
<1>3. ASSUME NEW place \in MeantToRun(output) PROVE place \in 1..d /\ C(place).kind = "code"
  <2>1. place \in 1..d /\ output.cells[place].kind = "code"
    BY <1>1, <1>3 DEF MeantToRun
  <2>2. DocumentCell(n, place, output.cells[place], output.language).kind = "code"
    <3>1. place \in Nat /\ output.cells[place] \in OutputCells /\ output.language \in CellLanguages
      BY <1>1, <2>1 DEF CellLanguages
    <3> QED  BY <2>1, <3>1, DocumentCellIs
  <2>3. output.document \/ Runnable(output, output.cells[place])
    BY <1>3 DEF MeantToRun, Runnable
  <2> QED  BY <2>1, <2>2, <2>3 DEF MarkdownCell
<1>4. ItemCells(n, output) = s
  BY DEF ItemCells
<1>5. f \in Seq(NotebookCells) /\ Len(f) = d /\ \A place \in 1..d : f[place] = C(place)
  <2> HIDE DEF C, d
  <2> QED  BY <1>1, <1>2
<1>6. b \in NotebookCells /\ b.item = n /\ b.kind = "prose"
  BY BannerIsCell
<1> HIDE DEF C, d, f, b
<1>7. <<b>> \in Seq(NotebookCells) /\ Len(<<b>>) = 1 /\ <<b>>[1] = b
  BY <1>6
<1>8. /\ s \in Seq(NotebookCells) /\ Len(s) = 1 + d
      /\ s[1] = b /\ \A k \in 2..(1 + d) : s[k] = C(k - 1)
  <2>1. /\ s \in Seq(NotebookCells) /\ Len(s) = Len(<<b>>) + Len(f)
        /\ \A k \in 1..(Len(<<b>>) + Len(f)) :
              s[k] = IF k <= Len(<<b>>) THEN <<b>>[k] ELSE f[k - Len(<<b>>)]
    BY <1>5, <1>7, ConcatProperties
  <2> HIDE DEF s
  <2>2. Len(s) = 1 + d /\ \A k \in 1..(1 + d) : s[k] = IF k <= 1 THEN <<b>>[k] ELSE f[k - 1]
    BY <1>5, <1>7, <2>1
  <2>3. s[1] = b
    BY <1>1, <1>7, <2>2
  <2>4. ASSUME NEW k \in 2..(1 + d) PROVE s[k] = C(k - 1)
    <3>1. k \in 1..(1 + d) /\ ~(k <= 1) /\ k - 1 \in 1..d
      BY <1>1
    <3> QED  BY <1>5, <2>2, <3>1
  <2> QED  BY <2>1, <2>2, <2>3, <2>4
<1> HIDE DEF s
<1>9. \A k \in 1..Len(s) : s[k].item = n
  BY <1>1, <1>2, <1>6, <1>8
<1>10. CellsOf(n, s)
  BY <1>1, <1>8, <1>9 DEF CellsOf
<1>11. ASSUME NEW p \in MeantToRun(output) PROVE Spots(s, n, p) = {p + 1}
  <2>1. p \in 1..d /\ C(p).kind = "code" /\ p + 1 \in 1..(1 + d) /\ p + 1 \in 2..(1 + d)
    BY <1>1, <1>3
  <2>2. DOMAIN s = 1..(1 + d)
    BY <1>8, LenProperties
  <2>3. s[p + 1] = C(p)
    BY <1>8, <2>1
  <2>4. p + 1 \in Spots(s, n, p)
    BY <1>2, <2>1, <2>2, <2>3 DEF Spots, IsCodeOf
  <2>5. ASSUME NEW k \in Spots(s, n, p) PROVE k = p + 1
    <3>1. k \in 1..(1 + d) /\ s[k].kind = "code" /\ s[k].place = p
      BY <2>2, <2>5 DEF Spots, IsCodeOf
    <3>2. k # 1
      BY <1>6, <1>8, <3>1
    <3>3. k \in 2..(1 + d) /\ k - 1 \in 1..d
      BY <1>1, <3>1, <3>2
    <3>4. k - 1 = p
      BY <1>2, <1>8, <3>1, <3>3
    <3> QED  BY <3>3, <3>4
  <2> QED  BY <2>4, <2>5
<1> QED  BY <1>4, <1>10, <1>11 DEF One

\* A split output's code is in the share of the source it resolves to, and in
\* no other.
LEMMA ShareIs ==
    ASSUME NEW n \in Nat, NEW output, IsOutput(output), Splits(output),
           NEW source \in SasFiles, NEW language \in CellLanguages
    PROVE  /\ CellsOf(n, Share(n, output, source, language))
           /\ \A p \in MeantToRun(output) :
                 IF SourceOf(output, output.cells[p]) = source
                 THEN One(Spots(Share(n, output, source, language), n, p))
                 ELSE Spots(Share(n, output, source, language), n, p) = {}
<1> DEFINE d == Len(output.cells)
           S == Seq(NotebookCells)
           places == [place \in DOMAIN output.cells |-> place]
           Add(v, k) == Routed(n, output, source, language, v, k)
           base == <<Banner(n)>>
           step == [z \in (1..d) \X S |-> Add(z[2], z[1])]
           Eqn(f) == f = [s \in SUBSET (1..d) |->
                            IF s = {} THEN base ELSE Add(f[s \ {Max(s)}], places[Max(s)])]
           c == CHOOSE f : Eqn(f)
<1>1. /\ d \in Nat /\ DOMAIN output.cells = 1..d /\ DOMAIN places = 1..d
      /\ \A place \in 1..d : output.cells[place] \in OutputCells /\ places[place] = place
  BY LenProperties DEF IsOutput
<1>2. Share(n, output, source, language) = c[1..d]
  BY <1>1 DEF Share, FoldLeft, MapThenFoldSet
<1>3. base \in S /\ CellsOf(n, base) /\ \A p : Spots(base, n, p) = {}
  BY BannerIsCell DEF CellsOf
<1>4. ASSUME NEW v \in S, NEW k \in 1..d
      PROVE  LET D == DocumentCell(n, k, output.cells[k], language)
             IN  /\ D \in NotebookCells /\ D.item = n /\ D.place = k /\ D.kind = output.cells[k].kind
                 /\ Add(v, k) = IF RoutedTo(output, k, source) THEN Append(v, D) ELSE v
                 /\ Add(v, k) \in S
  <2> DEFINE D == DocumentCell(n, k, output.cells[k], language)
  <2>1. D \in NotebookCells /\ D.item = n /\ D.place = k /\ D.kind = output.cells[k].kind
    <3> HIDE DEF d, S, Add, places
    <3>1. k \in Nat /\ output.cells[k] \in OutputCells
      BY <1>1
    <3> QED  BY <3>1, DocumentCellIs
  <2>2. Add(v, k) = IF RoutedTo(output, k, source) THEN Append(v, D) ELSE v
    BY DEF Routed
  <2> HIDE DEF D, Add
  <2>3. Add(v, k) \in S
    BY <2>1, <2>2, AppendProperties
  <2> QED  BY <2>1, <2>2, <2>3 DEF D
<1>5. step \in [(1..d) \X S -> S]
  <2>1. \A v \in S : \A k \in 1..d : Add(v, k) \in S
    BY <1>4
  <2> HIDE DEF Add, S, d
  <2> QED  BY <2>1
<1> HIDE DEF Add
<1>6. \A k \in 1..d : \A v \in S : step[<<k, v>>] = Add(v, k)
  OBVIOUS
<1> HIDE DEF step, d, S, base
<1>7. PICK f : FoldsLeft(f, d, S, base, step)
  BY <1>1, <1>3, <1>5, FoldLeftExists
<1>8. Eqn(f)
  <2>1. \A s \in SUBSET (1..d) : s # {} => Max(s) \in 1..d /\ f[s \ {Max(s)}] \in S
    BY <1>1, <1>7, LargestOf DEF FoldsLeft
  <2> HIDE DEF places
  <2>2. \A s \in SUBSET (1..d) :
           f[s] = IF s = {} THEN base ELSE Add(f[s \ {Max(s)}], places[Max(s)])
    BY <1>1, <1>6, <1>7, <2>1 DEF FoldsLeft
  <2> QED  BY <1>7, <2>2 DEF FoldsLeft
<1>9. Eqn(c)
  <2> HIDE DEF Eqn
  <2> QED  BY <1>8
<1>10. c[{}] = base /\ \A k \in 1..d : c[1..k] = Add(c[1..(k - 1)], k)
  <2>1. \A s \in SUBSET (1..d) :
           c[s] = IF s = {} THEN base ELSE Add(c[s \ {Max(s)}], places[Max(s)])
    <3> HIDE DEF c
    <3> QED  BY <1>9
  <2> HIDE DEF c, places
  <2>2. ASSUME NEW k \in 1..d PROVE c[1..k] = Add(c[1..(k - 1)], k)
    <3>1. k \in Nat /\ k # 0 /\ (1..k) \in SUBSET (1..d) /\ k \in 1..d
      BY <1>1
    <3>2. Max(1..k) = k /\ (1..k) \ {k} = 1..(k - 1) /\ 1..k # {}
      BY <3>1, PlacesUpTo
    <3> QED  BY <1>1, <2>1, <3>1, <3>2
  <2> QED  BY <2>1, <2>2
<1> HIDE DEF c, places
<1> DEFINE Mine(p) == SourceOf(output, output.cells[p]) = source
           Sound(k, v) == /\ CellsOf(n, v)
                          /\ \A p \in MeantToRun(output) :
                                IF Mine(p) /\ p <= k THEN One(Spots(v, n, p)) ELSE Spots(v, n, p) = {}
           B == {k \in 0..d : Sound(k, c[1..k])}
<1>a. \A p \in MeantToRun(output) : p \in 1..d /\ output.cells[p].kind = "code"
  BY <1>1 DEF MeantToRun
<1>11. 0 \in B
  <2>1. 1..0 = {} /\ c[1..0] = base
    BY <1>10
  <2>2. \A p \in MeantToRun(output) : ~(p <= 0)
    BY <1>1, <1>a
  <2>3. Sound(0, base)
    BY <1>3, <2>2
  <2> QED  BY <1>1, <2>1, <2>3
<1>12. ASSUME NEW k \in 1..d, k - 1 \in B PROVE k \in B
  <2> DEFINE v == c[1..(k - 1)]
             D == DocumentCell(n, k, output.cells[k], language)
             w == Add(v, k)
  <2>1. Sound(k - 1, v)
    BY <1>12
  <2>2. v \in S /\ c[1..k] = w
    BY <1>10, <2>1 DEF CellsOf, S
  <2>3. /\ D \in NotebookCells /\ D.item = n /\ D.place = k /\ D.kind = output.cells[k].kind
        /\ w = IF RoutedTo(output, k, source) THEN Append(v, D) ELSE v
    BY <1>4, <2>2
  <2> HIDE DEF v, D, w
  <2>4. CellsOf(n, w)
    <3>1. CASE RoutedTo(output, k, source)
      <4>1. w = Append(v, D) /\ v \in Seq(NotebookCells) /\ CellsOf(n, v)
        BY <2>1, <2>3, <3>1 DEF CellsOf
      <4>2. Len(v) \in Nat /\ Len(v) >= 1 /\ \A j \in 1..Len(v) : v[j].item = n
        BY <4>1, LenProperties DEF CellsOf
      <4>3. /\ w \in Seq(NotebookCells) /\ Len(w) = Len(v) + 1
            /\ \A j \in 1..Len(v) : w[j] = v[j]
            /\ w[Len(v) + 1] = D
        BY <2>3, <4>1, AppendProperties
      <4> QED  BY <2>3, <4>2, <4>3 DEF CellsOf
    <3>2. CASE ~RoutedTo(output, k, source)
      BY <2>1, <2>3, <3>2
    <3> QED  BY <3>1, <3>2
  <2>5. ASSUME NEW p \in MeantToRun(output)
        PROVE  IF Mine(p) /\ p <= k THEN One(Spots(w, n, p)) ELSE Spots(w, n, p) = {}
    <3>1. p \in 1..d /\ output.cells[p].kind = "code" /\ SourceOf(output, output.cells[p]) # CrossFile
      <4>1. p \in 1..d /\ output.cells[p].kind = "code"
        BY <1>a
      <4>2. output.cells[p] \in Range(output.cells)
        BY <1>1, <4>1 DEF Range
      <4> QED  BY <4>1, <4>2 DEF Splits
    <3>2. IF Mine(p) /\ p <= k - 1 THEN One(Spots(v, n, p)) ELSE Spots(v, n, p) = {}
      BY <2>1
    <3>3. v \in Seq(NotebookCells)
      BY <2>1 DEF CellsOf
    <3>4. CASE p # k
      <4>1. Spots(w, n, p) = Spots(v, n, p)
        <5>1. ~IsCodeOf(D, n, p)
          BY <2>3, <3>4 DEF IsCodeOf
        <5>2. Spots(Append(v, D), n, p) = Spots(v, n, p)
          BY <2>3, <3>3, <5>1, SpotsOfAppend
        <5> QED  BY <2>3, <5>2
      <4>2. p <= k <=> p <= k - 1
        BY <1>1, <3>1, <3>4
      <4> HIDE DEF Mine
      <4> QED  BY <3>2, <4>1, <4>2
    <3>5. CASE p = k
      <4>1. Spots(v, n, p) = {} /\ p <= k
        <5>1. ~(p <= k - 1) /\ p <= k
          BY <1>1, <3>1, <3>5
        <5> HIDE DEF Mine
        <5> QED  BY <3>2, <5>1
      <4>2. IsCodeOf(D, n, p)
        BY <2>3, <3>1, <3>5 DEF IsCodeOf
      <4>3. CASE Mine(p)
        <5>1. RoutedTo(output, k, source)
          BY <3>5, <4>3 DEF RoutedTo
        <5>2. Spots(w, n, p) = {Len(v) + 1}
          BY <2>3, <3>3, <4>1, <4>2, <5>1, SpotsOfAppend
        <5> QED  BY <4>1, <4>3, <5>2 DEF One
      <4>4. CASE ~Mine(p)
        <5>1. ~RoutedTo(output, k, source)
          BY <3>1, <3>5, <4>4 DEF RoutedTo
        <5>2. w = v
          BY <2>3, <5>1
        <5> HIDE DEF Mine
        <5> QED  BY <4>1, <4>4, <5>2
      <4> QED  BY <4>3, <4>4
    <3> QED  BY <3>4, <3>5
  <2>6. Sound(k, w)
    <3> HIDE DEF Mine
    <3> QED  BY <2>4, <2>5
  <2>7. k \in 0..d
    BY <1>1
  <2> HIDE DEF Sound
  <2> QED  BY <2>2, <2>6, <2>7
<1>13. Sound(d, c[1..d])
  <2>1. \A k \in 0..d : k \in B
    <3> HIDE DEF B
    <3> QED  BY <1>1, <1>11, <1>12, UpTo
  <2>2. d \in 0..d
    BY <1>1
  <2> HIDE DEF Sound
  <2> QED  BY <2>1, <2>2
<1>14. \A p \in MeantToRun(output) : p <= d
  BY <1>1, <1>a
<1> HIDE DEF Mine
<1> QED  BY <1>2, <1>13, <1>14 DEF Mine

-----------------------------------------------------------------------------
(* What goes where *)

NotebookKeys == SasFiles \cup {CrossFile}
ParcelSet == [key : NotebookKeys, cells : Seq(NotebookCells)]

\* Every file of the item is given something, and the code is given once.
ParcelsOf(n, output, parcels) ==
    /\ parcels \in Seq(ParcelSet)
    /\ \A k \in 1..Len(parcels) : CellsOf(n, parcels[k].cells)
    /\ \A x \in DOMAIN output.sources : \E k \in 1..Len(parcels) : parcels[k].key = output.sources[x]
    /\ \A p \in MeantToRun(output) : \E k \in 1..Len(parcels) :
          /\ One(Spots(parcels[k].cells, n, p))
          /\ \A j \in 1..Len(parcels) : j # k => Spots(parcels[j].cells, n, p) = {}

LEMMA ParcelIs ==
    ASSUME NEW n, NEW key \in NotebookKeys, NEW cells, CellsOf(n, cells)
    PROVE  /\ Parcel(key, cells) \in ParcelSet
           /\ Parcel(key, cells).key = key /\ Parcel(key, cells).cells = cells
BY DEF Parcel, ParcelSet, CellsOf

LEMMA ParcelsAre ==
    ASSUME NEW n \in Nat, NEW output, IsOutput(output), NEW language \in CellLanguages
    PROVE  ParcelsOf(n, output, Parcels(n, output, language))
<1> DEFINE src == output.sources
           m == Len(src)
           all == ItemCells(n, output)
<1>1. /\ src \in Seq(SasFiles) /\ m \in Nat /\ DOMAIN src = 1..m
      /\ \A x \in 1..m : src[x] \in NotebookKeys /\ src[x] \in SasFiles
      /\ \A x, y \in 1..m : src[x] = src[y] => x = y
  BY LenProperties DEF IsOutput, IsInjective, NotebookKeys
<1>2. CellsOf(n, all) /\ \A p \in MeantToRun(output) : One(Spots(all, n, p))
  BY ItemCellsAre
<1> HIDE DEF src, m, all
<1>3. CASE m = 1
  <2> DEFINE P == Parcel(src[1], all)
             s == <<P>>
  <2>1. Parcels(n, output, language) = s
    BY <1>3 DEF Parcels, src, m, all
  <2>2. P \in ParcelSet /\ P.key = src[1] /\ P.cells = all
    <3>1. src[1] \in NotebookKeys
      BY <1>1, <1>3
    <3> QED  BY <1>2, <3>1, ParcelIs
  <2> HIDE DEF P
  <2>3. s \in Seq(ParcelSet) /\ Len(s) = 1 /\ s[1] = P
    BY <2>2
  <2> HIDE DEF s
  <2>4. ParcelsOf(n, output, s)
    <3>1. \A k \in 1..Len(s) : k = 1
      BY <2>3
    <3>2. \A x \in DOMAIN src : x = 1
      BY <1>1, <1>3
    <3>3. 1 \in 1..Len(s)
      BY <2>3
    <3>4. \A x \in DOMAIN src : \E k \in 1..Len(s) : s[k].key = src[x]
      BY <2>2, <2>3, <3>2, <3>3
    <3> QED  BY <1>2, <2>2, <2>3, <3>1, <3>3, <3>4 DEF ParcelsOf, src
  <2> QED  BY <2>1, <2>4
<1>4. CASE m # 1 /\ Splits(output)
  <2> DEFINE sh(k) == Share(n, output, src[k], language)
             s == [k \in DOMAIN src |-> Parcel(src[k], sh(k))]
  <2>1. Parcels(n, output, language) = s
    BY <1>4 DEF Parcels, src, m
  <2>2. ASSUME NEW k \in 1..m
        PROVE  /\ CellsOf(n, sh(k))
               /\ \A p \in MeantToRun(output) :
                     IF SourceOf(output, output.cells[p]) = src[k]
                     THEN One(Spots(sh(k), n, p)) ELSE Spots(sh(k), n, p) = {}
    <3>1. src[k] \in SasFiles
      BY <1>1
    <3> QED  BY <1>4, <3>1, ShareIs
  <2> HIDE DEF sh
  <2>3. \A k \in 1..m : /\ Parcel(src[k], sh(k)) \in ParcelSet
                        /\ Parcel(src[k], sh(k)).key = src[k] /\ Parcel(src[k], sh(k)).cells = sh(k)
    BY <1>1, <2>2, ParcelIs
  <2>4. /\ s \in Seq(ParcelSet) /\ Len(s) = m
        /\ \A k \in 1..m : s[k].key = src[k] /\ s[k].cells = sh(k)
    BY <1>1, <2>3
  <2> HIDE DEF s
  <2>5. ASSUME NEW p \in MeantToRun(output)
        PROVE  \E k \in 1..m : SourceOf(output, output.cells[p]) = src[k]
    <3>1. p \in DOMAIN output.cells /\ output.cells[p].kind = "code"
      BY DEF MeantToRun
    <3>2. output.cells[p] \in Range(output.cells)
      BY <3>1 DEF Range
    <3>3. SourceOf(output, output.cells[p]) # CrossFile
      BY <1>4, <3>1, <3>2 DEF Splits
    <3>4. SourceOf(output, output.cells[p]) \in Range(src)
      BY <3>3 DEF SourceOf, src
    <3> QED  BY <1>1, <3>4 DEF Range
  <2>6. ParcelsOf(n, output, s)
    <3>1. \A k \in 1..m : CellsOf(n, s[k].cells)
      BY <2>2, <2>4
    <3>2. ASSUME NEW p \in MeantToRun(output)
          PROVE  \E k \in 1..m : /\ One(Spots(s[k].cells, n, p))
                                 /\ \A j \in 1..m : j # k => Spots(s[j].cells, n, p) = {}
      <4>1. PICK k \in 1..m : SourceOf(output, output.cells[p]) = src[k]
        BY <2>5
      <4>2. One(Spots(s[k].cells, n, p))
        BY <2>2, <2>4, <4>1
      <4>3. \A j \in 1..m : j # k => Spots(s[j].cells, n, p) = {}
        BY <1>1, <2>2, <2>4, <4>1
      <4> QED  BY <4>2, <4>3
    <3>3. \A x \in DOMAIN src : \E k \in 1..m : s[k].key = src[x]
      BY <1>1, <2>4
    <3> QED  BY <2>4, <3>1, <3>2, <3>3 DEF ParcelsOf, src
  <2> QED  BY <2>1, <2>6
<1>5. CASE m # 1 /\ ~Splits(output)
  <2> DEFINE b == <<Banner(n)>>
             P == Parcel(CrossFile, all)
             f == [k \in DOMAIN src |-> Parcel(src[k], b)]
             s == <<P>> \o f
  <2>1. Parcels(n, output, language) = s
    BY <1>5 DEF Parcels, src, m, all
  <2>2. CellsOf(n, b) /\ \A p : Spots(b, n, p) = {}
    BY BannerIsCell
  <2>3. P \in ParcelSet /\ P.key = CrossFile /\ P.cells = all
    BY <1>2, ParcelIs DEF NotebookKeys
  <2> HIDE DEF P, b
  <2>4. \A k \in 1..m : /\ Parcel(src[k], b) \in ParcelSet
                        /\ Parcel(src[k], b).key = src[k] /\ Parcel(src[k], b).cells = b
    BY <1>1, <2>2, ParcelIs
  <2>5. /\ f \in Seq(ParcelSet) /\ Len(f) = m
        /\ \A k \in 1..m : f[k].key = src[k] /\ f[k].cells = b
    BY <1>1, <2>4
  <2> HIDE DEF f
  <2>6. <<P>> \in Seq(ParcelSet) /\ Len(<<P>>) = 1 /\ <<P>>[1] = P
    BY <2>3
  <2>7. /\ s \in Seq(ParcelSet) /\ Len(s) = 1 + m /\ s[1] = P
        /\ \A k \in 1..m : s[k + 1] = f[k]
    <3>1. /\ s \in Seq(ParcelSet) /\ Len(s) = Len(<<P>>) + Len(f)
          /\ \A k \in 1..(Len(<<P>>) + Len(f)) :
                s[k] = IF k <= Len(<<P>>) THEN <<P>>[k] ELSE f[k - Len(<<P>>)]
      BY <2>5, <2>6, ConcatProperties
    <3> HIDE DEF s
    <3>2. Len(s) = 1 + m /\ \A k \in 1..(1 + m) : s[k] = IF k <= 1 THEN <<P>>[k] ELSE f[k - 1]
      BY <2>5, <2>6, <3>1
    <3>3. s[1] = P
      BY <1>1, <2>6, <3>2
    <3>4. ASSUME NEW k \in 1..m PROVE s[k + 1] = f[k]
      <4>1. k + 1 \in 1..(1 + m) /\ ~(k + 1 <= 1) /\ (k + 1) - 1 = k
        BY <1>1
      <4> QED  BY <3>2, <4>1
    <3> QED  BY <3>1, <3>2, <3>3, <3>4
  <2> HIDE DEF s
  <2>8. \A j \in 1..(1 + m) : j # 1 => j - 1 \in 1..m /\ s[j].cells = b
    <3>1. ASSUME NEW j \in 1..(1 + m), j # 1 PROVE j - 1 \in 1..m /\ s[j].cells = b
      <4>1. j - 1 \in 1..m /\ (j - 1) + 1 = j
        BY <1>1, <3>1
      <4> QED  BY <2>5, <2>7, <4>1
    <3> QED  BY <3>1
  <2>9. ParcelsOf(n, output, s)
    <3>1. 1 \in 1..(1 + m)
      BY <1>1
    <3>2. \A k \in 1..(1 + m) : CellsOf(n, s[k].cells)
      BY <1>2, <2>2, <2>3, <2>7, <2>8
    <3>3. \A x \in DOMAIN src : \E k \in 1..(1 + m) : s[k].key = src[x]
      <4>1. ASSUME NEW x \in 1..m PROVE s[x + 1].key = src[x] /\ x + 1 \in 1..(1 + m)
        BY <1>1, <2>5, <2>7
      <4> QED  BY <1>1, <4>1
    <3>4. \A p \in MeantToRun(output) :
             One(Spots(s[1].cells, n, p)) /\ \A j \in 1..(1 + m) : j # 1 => Spots(s[j].cells, n, p) = {}
      BY <1>2, <2>2, <2>3, <2>7, <2>8
    <3> QED  BY <2>7, <3>1, <3>2, <3>3, <3>4 DEF ParcelsOf, src
  <2> QED  BY <2>1, <2>9
<1> QED  BY <1>3, <1>4, <1>5

-----------------------------------------------------------------------------
(* Names *)

NotebookNames ==
    [folder : {"none"}, words : Seq(STRING) \cup {CrossFile.words}, numbers : Seq(Int)]

\* A name for each of the files met: the names of two files differ.
NamesApart(names) ==
    /\ DOMAIN names \subseteq NotebookKeys /\ IsFiniteSet(DOMAIN names)
    /\ \A k \in DOMAIN names :
          names[k] \in NotebookNames /\ (k # CrossFile => names[k].words = k.words)
    /\ \A k, l \in DOMAIN names : names[k] = names[l] => k = l

LEMMA NumberedIs ==
    ASSUME NEW stem \in NotebookNames, NEW n \in Int
    PROVE  /\ Numbered(stem, n) \in NotebookNames /\ Numbered(stem, n).words = stem.words
           /\ \A l \in Int : Numbered(stem, n) = Numbered(stem, l) => n = l
<1>1. stem.numbers \in Seq(Int) /\ Len(stem.numbers) \in Nat
  BY LenProperties DEF NotebookNames
<1>2. \A k \in Int : /\ Append(stem.numbers, k) \in Seq(Int)
                     /\ Len(Append(stem.numbers, k)) = Len(stem.numbers) + 1
                     /\ Append(stem.numbers, k)[Len(stem.numbers) + 1] = k
  BY <1>1, AppendProperties
<1> DEFINE A(k) == Append(stem.numbers, k)
<1> HIDE DEF A
<1>3. \A k \in Int : A(k) \in Seq(Int) /\ A(k) # stem.numbers /\ \A l \in Int : A(k) = A(l) => k = l
  BY <1>1, <1>2 DEF A
<1>4. \A k \in Int : Numbered(stem, k) = IF k = 1 THEN stem ELSE [stem EXCEPT !.numbers = A(k)]
  BY DEF Numbered, A
<1>5. \A k \in Int : /\ Numbered(stem, k) \in NotebookNames
                     /\ Numbered(stem, k).words = stem.words
                     /\ Numbered(stem, k).numbers = IF k = 1 THEN stem.numbers ELSE A(k)
  BY <1>3, <1>4 DEF NotebookNames
<1>6. ASSUME NEW l \in Int, Numbered(stem, n) = Numbered(stem, l) PROVE n = l
  <2>1. (IF n = 1 THEN stem.numbers ELSE A(n)) = (IF l = 1 THEN stem.numbers ELSE A(l))
    BY <1>5, <1>6
  <2> QED  BY <1>3, <2>1
<1> QED  BY <1>5, <1>6

\* A name is free: the numbers tried are more than the names taken.
LEMMA FileNameIs ==
    ASSUME NEW names, NamesApart(names), NEW key \in NotebookKeys
    PROVE  /\ FileName(names, key) \in NotebookNames
           /\ key \in DOMAIN names => FileName(names, key) = names[key]
           /\ key \notin DOMAIN names => FileName(names, key) \notin Range(names)
           /\ key # CrossFile => FileName(names, key).words = key.words
<1>1. CASE key \in DOMAIN names
  BY <1>1 DEF FileName, NamesApart
<1>2. CASE key \notin DOMAIN names /\ key = CrossFile
  <2>1. CrossFile \in NotebookNames
    BY EmptySeq DEF CrossFile, NotebookNames
  <2>2. \A k \in DOMAIN names : k # CrossFile /\ k \in SasFiles
    BY <1>2 DEF NamesApart, NotebookKeys
  <2>3. \A k \in DOMAIN names : names[k].words # CrossFile.words
    BY <2>2 DEF NamesApart, SasFiles
  <2>4. CrossFile \notin Range(names)
    BY <2>3 DEF Range
  <2> QED  BY <1>2, <2>1, <2>4 DEF FileName
<1>3. CASE key \notin DOMAIN names /\ key # CrossFile
  <2> DEFINE stem == [key EXCEPT !.folder = "none"]
             c == Cardinality(DOMAIN names)
             free == {n \in 1..(c + 1) : Numbered(stem, n) \notin Range(names)}
  <2>1. stem \in NotebookNames /\ stem.words = key.words
    BY <1>3 DEF NotebookKeys, SasFiles, NotebookNames
  <2>2. c \in Nat
    BY FS_CardinalityType DEF NamesApart
  <2>3. FileName(names, key) = Numbered(stem, Min(free))
    BY <1>3 DEF FileName
  <2> HIDE DEF stem, c
  <2>4. free # {}
    <3> SUFFICES ASSUME \A n \in 1..(c + 1) : Numbered(stem, n) \in Range(names) PROVE FALSE
      OBVIOUS
    <3> DEFINE S == 1..(c + 1)
               T == DOMAIN names
               g == [n \in S |-> CHOOSE k \in T : names[k] = Numbered(stem, n)]
    <3>1. \A n \in S : g[n] \in T /\ names[g[n]] = Numbered(stem, n)
      BY DEF Range
    <3>2. g \in [S -> T]
      BY <3>1
    <3>3. IsFiniteSet(S) /\ Cardinality(S) = c + 1
      BY <2>2, FS_Interval
    <3>4. IsFiniteSet(T) /\ Cardinality(T) < Cardinality(S)
      BY <2>2, <3>3 DEF NamesApart, c
    <3> HIDE DEF g, T
    <3>5. PICK x, y \in S : x # y /\ g[x] = g[y]
      BY <3>2, <3>3, <3>4, FS_PigeonHole
    <3>6. Numbered(stem, x) = Numbered(stem, y)
      BY <3>1, <3>5
    <3>7. x \in Int /\ y \in Int
      BY <2>2
    <3> QED  BY <2>1, <3>5, <3>6, <3>7, NumberedIs
  <2>5. Min(free) \in free
    <3> DEFINE S == free
    <3>1. S \in SUBSET Nat /\ S # {}
      BY <2>2, <2>4
    <3> HIDE DEF S
    <3>2. Min(S) \in S
      BY <3>1, SmallestOf
    <3> QED  BY <3>2 DEF S
  <2>6. Min(free) \in Int /\ Numbered(stem, Min(free)) \notin Range(names)
    BY <2>2, <2>5
  <2> HIDE DEF free
  <2> QED  BY <1>3, <2>1, <2>3, <2>6, NumberedIs
<1> QED  BY <1>1, <1>2, <1>3

-----------------------------------------------------------------------------
(* The notebooks as they are filled *)

NotebookStates ==
    {st \in [names : UNION {[D -> NotebookNames] : D \in SUBSET NotebookKeys},
             notebooks : UNION {[D -> Seq(NotebookCells)] : D \in SUBSET NotebookNames}] :
        /\ NamesApart(st.names)
        /\ \A k \in DOMAIN st.names : st.names[k] \in DOMAIN st.notebooks}

\* The notebook of a file shows an item.
Shows(st, key, i) ==
    /\ key \in DOMAIN st.names
    /\ \E k \in 1..Len(st.notebooks[st.names[key]]) : st.notebooks[st.names[key]][k].item = i

LEMMA StateIs ==
    ASSUME NEW st \in NotebookStates
    PROVE  /\ st.names \in [DOMAIN st.names -> NotebookNames] /\ NamesApart(st.names)
           /\ st.notebooks \in [DOMAIN st.notebooks -> Seq(NotebookCells)]
           /\ DOMAIN st.notebooks \subseteq NotebookNames
           /\ \A k \in DOMAIN st.names : st.names[k] \in DOMAIN st.notebooks
BY DEF NotebookStates

LEMMA CodeAtIs ==
    ASSUME NEW f, NEW i, NEW p
    PROVE  CodeAt(f, i, p) = UNION {{<<nb, k>> : k \in Spots(f[nb], i, p)} : nb \in DOMAIN f}
BY DEF CodeAt, Spots, IsCodeOf

LEMMA SpotsOfConcat ==
    ASSUME NEW s \in Seq(NotebookCells), NEW t \in Seq(NotebookCells), NEW i, NEW p
    PROVE  Spots(s \o t, i, p) = Spots(s, i, p) \cup {Len(s) + k : k \in Spots(t, i, p)}
<1> DEFINE u == s \o t
           l == Len(s)
           m == Len(t)
<1>1. l \in Nat /\ m \in Nat /\ DOMAIN s = 1..l /\ DOMAIN t = 1..m
  BY LenProperties
<1>2. /\ u \in Seq(NotebookCells) /\ Len(u) = l + m
      /\ \A k \in 1..(l + m) : u[k] = IF k <= l THEN s[k] ELSE t[k - l]
  BY ConcatProperties
<1>3. DOMAIN u = 1..(l + m)
  BY <1>2, LenProperties
<1> HIDE DEF u, l, m
<1>4. ASSUME NEW k \in Spots(u, i, p)
      PROVE  k \in Spots(s, i, p) \/ (k - l \in Spots(t, i, p) /\ k = l + (k - l))
  <2>1. k \in 1..(l + m) /\ IsCodeOf(u[k], i, p)
    BY <1>3 DEF Spots
  <2>2. CASE k <= l
    BY <1>1, <1>2, <2>1, <2>2 DEF Spots
  <2>3. CASE ~(k <= l)
    <3>1. k - l \in 1..m /\ k = l + (k - l) /\ u[k] = t[k - l]
      BY <1>1, <1>2, <2>1, <2>3
    <3> QED  BY <1>1, <2>1, <3>1 DEF Spots
  <2> QED  BY <2>2, <2>3
<1>5. ASSUME NEW k \in Spots(s, i, p) PROVE k \in Spots(u, i, p)
  <2>1. k \in 1..l /\ IsCodeOf(s[k], i, p)
    BY <1>1 DEF Spots
  <2>2. k \in 1..(l + m) /\ k <= l
    BY <1>1, <2>1
  <2> QED  BY <1>2, <1>3, <2>1, <2>2 DEF Spots
<1>6. ASSUME NEW k \in Spots(t, i, p) PROVE l + k \in Spots(u, i, p)
  <2>1. k \in 1..m /\ IsCodeOf(t[k], i, p)
    BY <1>1 DEF Spots
  <2>2. l + k \in 1..(l + m) /\ ~(l + k <= l) /\ (l + k) - l = k
    BY <1>1, <2>1
  <2>3. u[l + k] = t[k]
    BY <1>2, <2>2
  <2> QED  BY <1>3, <2>1, <2>2, <2>3 DEF Spots
<1>7. Spots(u, i, p) = Spots(s, i, p) \cup {l + k : k \in Spots(t, i, p)}
  BY <1>4, <1>5, <1>6
<1> QED  BY <1>7 DEF u, l

\* What putting cells into a notebook leaves of the others, and of itself.
LEMMA PutIs ==
    ASSUME NEW st \in NotebookStates, NEW key \in NotebookKeys, NEW n \in Nat,
           NEW cells, CellsOf(n, cells)
    PROVE  LET after == Put(st, key, cells)
           IN  /\ after \in NotebookStates
               /\ Shows(after, key, n)
               /\ \A other, i : Shows(st, other, i) => Shows(after, other, i)
               /\ \A i, p : Spots(cells, i, p) = {}
                              => CodeAt(after.notebooks, i, p) = CodeAt(st.notebooks, i, p)
               /\ \A i, p : CodeAt(st.notebooks, i, p) = {} /\ One(Spots(cells, i, p))
                              => One(CodeAt(after.notebooks, i, p))
<1> DEFINE name == FileName(st.names, key)
           had == IF name \in DOMAIN st.notebooks THEN st.notebooks[name] ELSE << >>
           after == Put(st, key, cells)
           f == st.names
           g == st.notebooks
           f2 == WithEntry(f, key, name)
           g2 == WithEntry(g, name, had \o cells)
<1>1. after.names = f2 /\ after.notebooks = g2 /\ after = [names |-> f2, notebooks |-> g2]
  BY DEF Put
<1>2. /\ f \in [DOMAIN f -> NotebookNames] /\ NamesApart(f)
      /\ g \in [DOMAIN g -> Seq(NotebookCells)] /\ DOMAIN g \subseteq NotebookNames
      /\ \A k \in DOMAIN f : f[k] \in DOMAIN g
  BY StateIs
<1>3. /\ name \in NotebookNames
      /\ key \in DOMAIN f => name = f[key]
      /\ key \notin DOMAIN f => name \notin Range(f)
      /\ key # CrossFile => name.words = key.words
  BY <1>2, FileNameIs
<1>4. cells \in Seq(NotebookCells) /\ Len(cells) \in Nat /\ Len(cells) >= 1
      /\ \A k \in 1..Len(cells) : cells[k].item = n
  BY LenProperties DEF CellsOf
<1>5. had \in Seq(NotebookCells) /\ Len(had) \in Nat
  BY <1>2, EmptySeq, LenProperties
<1> HIDE DEF name, had, after, f, g
<1> DEFINE new == had \o cells
<1>6. /\ new \in Seq(NotebookCells) /\ Len(new) = Len(had) + Len(cells)
      /\ \A k \in 1..Len(had) : new[k] = had[k]
      /\ \A k \in 1..Len(cells) : new[Len(had) + k] = cells[k]
  <2>1. /\ new \in Seq(NotebookCells) /\ Len(new) = Len(had) + Len(cells)
        /\ \A k \in 1..(Len(had) + Len(cells)) :
              new[k] = IF k <= Len(had) THEN had[k] ELSE cells[k - Len(had)]
    BY <1>4, <1>5, ConcatProperties
  <2> HIDE DEF new
  <2>2. ASSUME NEW k \in 1..Len(had) PROVE new[k] = had[k]
    <3>1. k \in 1..(Len(had) + Len(cells)) /\ k <= Len(had)
      BY <1>4, <1>5
    <3> QED  BY <2>1, <3>1
  <2>3. ASSUME NEW k \in 1..Len(cells) PROVE new[Len(had) + k] = cells[k]
    <3>1. /\ Len(had) + k \in 1..(Len(had) + Len(cells)) /\ ~(Len(had) + k <= Len(had))
          /\ (Len(had) + k) - Len(had) = k
      BY <1>4, <1>5
    <3> QED  BY <2>1, <3>1
  <2> QED  BY <2>1, <2>2, <2>3
<1>7. \A i, p : Spots(new, i, p) = Spots(had, i, p) \cup {Len(had) + k : k \in Spots(cells, i, p)}
  BY <1>4, <1>5, SpotsOfConcat
<1> HIDE DEF new
<1>8. /\ DOMAIN f2 = DOMAIN f \cup {key} /\ f2[key] = name
      /\ \A k \in DOMAIN f : f2[k] = f[k]
  BY <1>3 DEF WithEntry
<1>9. /\ DOMAIN g2 = DOMAIN g \cup {name} /\ g2[name] = new
      /\ \A nb \in DOMAIN g : nb # name => g2[nb] = g[nb]
      /\ f2 = [k \in DOMAIN f2 |-> f2[k]] /\ g2 = [nb \in DOMAIN g2 |-> g2[nb]]
  BY DEF WithEntry, new
<1> HIDE DEF f2, g2
<1>10. NamesApart(f2)
  <2>1. IsFiniteSet(DOMAIN f2)
    BY <1>2, <1>8, FS_AddElement DEF NamesApart
  <2>2. DOMAIN f2 \subseteq NotebookKeys
    BY <1>2, <1>8 DEF NamesApart
  <2>3. \A k \in DOMAIN f2 : f2[k] \in NotebookNames /\ (k # CrossFile => f2[k].words = k.words)
    BY <1>2, <1>3, <1>8 DEF NamesApart
  <2>4. ASSUME NEW k \in DOMAIN f2, NEW l \in DOMAIN f2, f2[k] = f2[l] PROVE k = l
    <3>1. CASE key \in DOMAIN f
      BY <1>2, <1>8, <2>4, <3>1 DEF NamesApart
    <3>2. CASE key \notin DOMAIN f
      <4>1. \A j \in DOMAIN f : f[j] # name
        BY <1>3, <3>2 DEF Range
      <4> QED  BY <1>2, <1>8, <2>4, <4>1 DEF NamesApart
    <3> QED  BY <3>1, <3>2
  <2> QED  BY <2>1, <2>2, <2>3, <2>4 DEF NamesApart
<1>11. after \in NotebookStates
  <2>1. f2 \in [DOMAIN f2 -> NotebookNames] /\ DOMAIN f2 \in SUBSET NotebookKeys
    BY <1>9, <1>10 DEF NamesApart
  <2>2. \A nb \in DOMAIN g2 : g2[nb] \in Seq(NotebookCells) /\ nb \in NotebookNames
    BY <1>2, <1>3, <1>6, <1>9
  <2>3. g2 \in [DOMAIN g2 -> Seq(NotebookCells)] /\ DOMAIN g2 \in SUBSET NotebookNames
    BY <1>9, <2>2
  <2>4. \A k \in DOMAIN f2 : f2[k] \in DOMAIN g2
    BY <1>2, <1>8, <1>9
  <2>5. after = [names |-> f2, notebooks |-> g2] /\ after.names = f2 /\ after.notebooks = g2
    BY <1>1
  <2>6. f2 \in UNION {[D -> NotebookNames] : D \in SUBSET NotebookKeys}
    BY <2>1
  <2>7. g2 \in UNION {[D -> Seq(NotebookCells)] : D \in SUBSET NotebookNames}
    BY <2>3
  <2> QED  BY <1>10, <2>4, <2>5, <2>6, <2>7 DEF NotebookStates
<1>12. Shows(after, key, n)
  <2>1. Len(had) + 1 \in 1..Len(new) /\ 1 \in 1..Len(cells)
    BY <1>4, <1>5, <1>6
  <2>2. new[Len(had) + 1].item = n
    BY <1>4, <1>6, <2>1
  <2> QED  BY <1>1, <1>8, <1>9, <2>1, <2>2 DEF Shows
<1>13. ASSUME NEW other, NEW i, Shows(st, other, i) PROVE Shows(after, other, i)
  <2>1. other \in DOMAIN f /\ f2[other] = f[other] /\ other \in DOMAIN f2 /\ f[other] \in DOMAIN g
    BY <1>2, <1>8, <1>13 DEF Shows, f
  <2>2. PICK k \in 1..Len(g[f[other]]) : g[f[other]][k].item = i
    BY <1>13 DEF Shows, f, g
  <2>3. CASE f[other] = name
    <3>1. had = g[name]
      BY <2>1, <2>3 DEF had, g
    <3>2. k \in 1..Len(new) /\ new[k].item = i
      BY <1>4, <1>5, <1>6, <2>2, <2>3, <3>1
    <3> QED  BY <1>1, <1>9, <2>1, <2>3, <3>2 DEF Shows
  <2>4. CASE f[other] # name
    BY <1>1, <1>9, <2>1, <2>2, <2>4 DEF Shows
  <2> QED  BY <2>3, <2>4
<1>14. \A i, p : /\ CodeAt(g, i, p) = UNION {{<<nb, k>> : k \in Spots(g[nb], i, p)} : nb \in DOMAIN g}
                 /\ CodeAt(g2, i, p) = UNION {{<<nb, k>> : k \in Spots(g2[nb], i, p)} : nb \in DOMAIN g2}
  BY CodeAtIs
<1>15. \A i, p : Spots(had, i, p) = IF name \in DOMAIN g THEN Spots(g[name], i, p) ELSE {}
  <2>1. \A i, p : Spots(<< >>, i, p) = {}
    BY EmptySeq DEF Spots
  <2> QED  BY <2>1 DEF had, g
<1>16. ASSUME NEW i, NEW p, Spots(cells, i, p) = {} PROVE CodeAt(g2, i, p) = CodeAt(g, i, p)
  <2>1. Spots(g2[name], i, p) = IF name \in DOMAIN g THEN Spots(g[name], i, p) ELSE {}
    <3>1. {Len(had) + k : k \in Spots(cells, i, p)} = {}
      BY <1>16
    <3>2. Spots(new, i, p) = Spots(had, i, p)
      BY <1>7, <3>1
    <3> QED  BY <1>9, <1>15, <3>2
  <2>2. \A nb \in DOMAIN g2 : Spots(g2[nb], i, p) = IF nb \in DOMAIN g THEN Spots(g[nb], i, p) ELSE {}
    BY <1>9, <2>1
  <2> QED  BY <1>9, <1>14, <2>2
<1>17. ASSUME NEW i, NEW p, CodeAt(g, i, p) = {}, One(Spots(cells, i, p)) PROVE One(CodeAt(g2, i, p))
  <2>1. PICK x : Spots(cells, i, p) = {x}
    BY <1>17 DEF One
  <2>2. \A nb \in DOMAIN g : Spots(g[nb], i, p) = {}
    <3>1. ASSUME NEW nb \in DOMAIN g, NEW k \in Spots(g[nb], i, p) PROVE <<nb, k>> \in CodeAt(g, i, p)
      BY <1>14
    <3> QED  BY <1>17, <3>1
  <2>3. Spots(g2[name], i, p) = {Len(had) + x}
    BY <1>7, <1>9, <1>15, <2>1, <2>2
  <2>4. \A nb \in DOMAIN g2 : nb # name => Spots(g2[nb], i, p) = {}
    BY <1>9, <2>2
  <2>5. CodeAt(g2, i, p) = {<<name, Len(had) + x>>}
    BY <1>9, <1>14, <2>3, <2>4
  <2> QED  BY <2>5 DEF One
<1> QED  BY <1>1, <1>11, <1>12, <1>13, <1>16, <1>17 DEF after, g

\* The k first parcels of item n are put where they belong.
Filled(st0, n, parcels, k, st) ==
    /\ st \in NotebookStates
    /\ \A other, i : Shows(st0, other, i) => Shows(st, other, i)
    /\ \A j \in 1..k : Shows(st, parcels[j].key, n)
    /\ \A i, p : i # n => CodeAt(st.notebooks, i, p) = CodeAt(st0.notebooks, i, p)
    /\ \A p : (\A j \in 1..k : Spots(parcels[j].cells, n, p) = {})
                 => CodeAt(st.notebooks, n, p) = CodeAt(st0.notebooks, n, p)
    /\ \A p : /\ CodeAt(st0.notebooks, n, p) = {}
              /\ \E j \in 1..k : /\ One(Spots(parcels[j].cells, n, p))
                                 /\ \A l \in 1..k : l # j => Spots(parcels[l].cells, n, p) = {}
              => One(CodeAt(st.notebooks, n, p))

LEMMA ParcelIsPut ==
    ASSUME NEW st0, NEW n \in Nat, NEW output, NEW parcels, ParcelsOf(n, output, parcels),
           NEW k \in 1..Len(parcels), NEW st, Filled(st0, n, parcels, k - 1, st)
    PROVE  Filled(st0, n, parcels, k, Put(st, parcels[k].key, parcels[k].cells))
<1> DEFINE key == parcels[k].key
           cells == parcels[k].cells
           after == Put(st, key, cells)
<1>1. Len(parcels) \in Nat /\ parcels[k] \in ParcelSet /\ CellsOf(n, cells)
  BY LenProperties DEF ParcelsOf
<1>2. key \in NotebookKeys /\ st \in NotebookStates
  BY <1>1 DEF ParcelSet, Filled
<1> HIDE DEF key, cells
<1>3. /\ after \in NotebookStates
      /\ Shows(after, key, n)
      /\ \A other, i : Shows(st, other, i) => Shows(after, other, i)
      /\ \A i, p : Spots(cells, i, p) = {}
                     => CodeAt(after.notebooks, i, p) = CodeAt(st.notebooks, i, p)
      /\ \A i, p : CodeAt(st.notebooks, i, p) = {} /\ One(Spots(cells, i, p))
                     => One(CodeAt(after.notebooks, i, p))
  BY <1>1, <1>2, PutIs
<1> HIDE DEF after
<1>4. \A j \in 1..k : j \in 1..(k - 1) \/ j = k
  BY <1>1
<1>5. \A j \in 1..(k - 1) : j \in 1..k /\ j # k
  BY <1>1
<1>6. k \in 1..k
  BY <1>1
<1>7. \A i, p : i # n => Spots(cells, i, p) = {}
  <2>1. \A x \in DOMAIN cells : cells[x].item = n
    BY <1>1, LenProperties DEF CellsOf
  <2> QED  BY <2>1 DEF Spots, IsCodeOf
<1>8. \A i, p : i # n => CodeAt(after.notebooks, i, p) = CodeAt(st0.notebooks, i, p)
  BY <1>3, <1>7 DEF Filled
<1>9. \A j \in 1..k : Shows(after, parcels[j].key, n)
  BY <1>3, <1>4 DEF Filled, key
<1>10. ASSUME NEW p, \A j \in 1..k : Spots(parcels[j].cells, n, p) = {}
       PROVE  CodeAt(after.notebooks, n, p) = CodeAt(st0.notebooks, n, p)
  <2>1. CodeAt(st.notebooks, n, p) = CodeAt(st0.notebooks, n, p)
    BY <1>5, <1>10 DEF Filled
  <2>2. Spots(cells, n, p) = {}
    BY <1>6, <1>10 DEF cells
  <2> QED  BY <1>3, <2>1, <2>2
<1>11. ASSUME NEW p, CodeAt(st0.notebooks, n, p) = {}, NEW j \in 1..k,
              One(Spots(parcels[j].cells, n, p)),
              \A l \in 1..k : l # j => Spots(parcels[l].cells, n, p) = {}
       PROVE  One(CodeAt(after.notebooks, n, p))
  <2>1. CASE j = k
    <3>1. \A l \in 1..(k - 1) : Spots(parcels[l].cells, n, p) = {}
      BY <1>5, <1>11, <2>1
    <3>2. CodeAt(st.notebooks, n, p) = {}
      BY <1>11, <3>1 DEF Filled
    <3> QED  BY <1>3, <1>11, <2>1, <3>2 DEF cells
  <2>2. CASE j # k
    <3>1. j \in 1..(k - 1)
      BY <1>4, <2>2
    <3>2. \A l \in 1..(k - 1) : l # j => Spots(parcels[l].cells, n, p) = {}
      BY <1>5, <1>11
    <3>3. One(CodeAt(st.notebooks, n, p))
      BY <1>11, <3>1, <3>2 DEF Filled
    <3>4. Spots(cells, n, p) = {}
      BY <1>6, <1>11, <2>2 DEF cells
    <3> QED  BY <1>3, <3>3, <3>4
  <2> QED  BY <2>1, <2>2
<1>12. \A other, i : Shows(st0, other, i) => Shows(after, other, i)
  BY <1>3 DEF Filled
<1>13. Filled(st0, n, parcels, k, after)
  BY <1>3, <1>8, <1>9, <1>10, <1>11, <1>12 DEF Filled
<1> QED  BY <1>13 DEF after, key, cells

LEMMA PutAllIs ==
    ASSUME NEW st0 \in NotebookStates, NEW n \in Nat, NEW output, NEW parcels,
           ParcelsOf(n, output, parcels)
    PROVE  Filled(st0, n, parcels, Len(parcels), PutAll(st0, parcels))
<1> DEFINE d == Len(parcels)
           S == NotebookStates
           Add(v, k) == Put(v, parcels[k].key, parcels[k].cells)
           step == [z \in (1..d) \X S |-> Add(z[2], z[1])]
           Eqn(f) == f = [s \in SUBSET (1..d) |->
                            IF s = {} THEN st0 ELSE Add(f[s \ {Max(s)}], Max(s))]
           c == CHOOSE f : Eqn(f)
<1>1. d \in Nat /\ DOMAIN parcels = 1..d /\ \A k \in 1..d : parcels[k] \in ParcelSet
  BY LenProperties DEF ParcelsOf
<1>2. PutAll(st0, parcels) = c[1..d]
  BY <1>1 DEF PutAll, FoldLeft, MapThenFoldSet
<1>3. \A v \in S : \A k \in 1..d : Add(v, k) \in S
  <2>1. SUFFICES ASSUME NEW v \in S, NEW k \in 1..d PROVE Add(v, k) \in S
    OBVIOUS
  <2>2. parcels[k].key \in NotebookKeys /\ CellsOf(n, parcels[k].cells)
    BY <1>1 DEF ParcelsOf, ParcelSet
  <2> QED  BY <2>2, PutIs
<1>4. step \in [(1..d) \X S -> S]
  <2> HIDE DEF Add, S, d
  <2> QED  BY <1>3
<1> HIDE DEF Add
<1>5. \A k \in 1..d : \A v \in S : step[<<k, v>>] = Add(v, k)
  OBVIOUS
<1> HIDE DEF step, d, S
<1>6. st0 \in S
  BY DEF S
<1>7. PICK f : FoldsLeft(f, d, S, st0, step)
  BY <1>1, <1>4, <1>6, FoldLeftExists
<1>8. Eqn(f)
  <2>1. \A s \in SUBSET (1..d) : s # {} => Max(s) \in 1..d /\ f[s \ {Max(s)}] \in S
    BY <1>1, <1>7, LargestOf DEF FoldsLeft
  <2>2. \A s \in SUBSET (1..d) : f[s] = IF s = {} THEN st0 ELSE Add(f[s \ {Max(s)}], Max(s))
    BY <1>5, <1>7, <2>1 DEF FoldsLeft
  <2> QED  BY <1>7, <2>2 DEF FoldsLeft
<1>9. Eqn(c)
  <2> HIDE DEF Eqn
  <2> QED  BY <1>8
<1>10. c[{}] = st0 /\ \A k \in 1..d : c[1..k] = Add(c[1..(k - 1)], k)
  <2>1. \A s \in SUBSET (1..d) : c[s] = IF s = {} THEN st0 ELSE Add(c[s \ {Max(s)}], Max(s))
    <3> HIDE DEF c
    <3> QED  BY <1>9
  <2> HIDE DEF c
  <2>2. ASSUME NEW k \in 1..d PROVE c[1..k] = Add(c[1..(k - 1)], k)
    <3>1. k \in Nat /\ k # 0 /\ (1..k) \in SUBSET (1..d) /\ k \in 1..d
      BY <1>1
    <3>2. Max(1..k) = k /\ (1..k) \ {k} = 1..(k - 1) /\ 1..k # {}
      BY <3>1, PlacesUpTo
    <3> QED  BY <2>1, <3>1, <3>2
  <2> QED  BY <2>1, <2>2
<1> HIDE DEF c
<1> DEFINE B == {k \in 0..d : Filled(st0, n, parcels, k, c[1..k])}
<1>11. 0 \in B
  <2>1. 1..0 = {} /\ c[1..0] = st0
    BY <1>10
  <2>2. Filled(st0, n, parcels, 0, st0)
    BY <2>1 DEF Filled
  <2> QED  BY <1>1, <2>1, <2>2
<1>12. ASSUME NEW k \in 1..d, k - 1 \in B PROVE k \in B
  <2>1. Filled(st0, n, parcels, k - 1, c[1..(k - 1)])
    BY <1>12
  <2>2. Filled(st0, n, parcels, k, c[1..k])
    BY <1>10, <2>1, ParcelIsPut DEF Add, d
  <2>3. k \in 0..d
    BY <1>1
  <2> QED  BY <2>2, <2>3
<1>13. d \in B
  <2>1. \A k \in 0..d : k \in B
    <3> HIDE DEF B
    <3> QED  BY <1>1, <1>11, <1>12, UpTo
  <2> HIDE DEF B
  <2> QED  BY <1>1, <2>1
<1> QED  BY <1>2, <1>13 DEF d

\* What the notebooks hold of the first k outputs.
WholeAfter(run, k, st) ==
    /\ st \in NotebookStates
    /\ \A i, p : ~(i \in 1..k) => CodeAt(st.notebooks, i, p) = {}
    /\ \A i \in 1..k : \A p \in MeantToRun(run.outputs[i]) : One(CodeAt(st.notebooks, i, p))
    /\ \A i \in 1..k : \A x \in DOMAIN run.outputs[i].sources :
          Shows(st, run.outputs[i].sources[x], i)

LEMMA OutputIsPut ==
    ASSUME NEW run, NEW d \in Nat, NEW k \in 1..d, IsOutput(run.outputs[k]),
           run.language \in CellLanguages, NEW st, WholeAfter(run, k - 1, st)
    PROVE  WholeAfter(run, k, PutOutput(run, st, k))
<1> DEFINE output == run.outputs[k]
           parcels == Parcels(k, output, run.language)
           m == Len(parcels)
           after == PutOutput(run, st, k)
<1>1. k \in Nat /\ st \in NotebookStates
  BY DEF WholeAfter
<1>2. ParcelsOf(k, output, parcels)
  BY <1>1, ParcelsAre
<1> HIDE DEF parcels
<1>3. Filled(st, k, parcels, m, after)
  BY <1>1, <1>2, PutAllIs DEF PutOutput, parcels
<1> HIDE DEF m, after, output
<1>4. \A j \in 1..k : j \in 1..(k - 1) \/ j = k
  OBVIOUS
<1>5. \A j \in 1..(k - 1) : j \in 1..k /\ j # k
  OBVIOUS
<1>6. k \in 1..k /\ k \notin 1..(k - 1)
  OBVIOUS
<1>7. ASSUME NEW i, NEW p, ~(i \in 1..k) PROVE CodeAt(after.notebooks, i, p) = {}
  <2>1. i # k /\ ~(i \in 1..(k - 1))
    BY <1>5, <1>6, <1>7
  <2> QED  BY <1>3, <2>1 DEF Filled, WholeAfter
<1>8. ASSUME NEW i \in 1..k, NEW p \in MeantToRun(run.outputs[i])
      PROVE  One(CodeAt(after.notebooks, i, p))
  <2>1. CASE i = k
    <3>1. CodeAt(st.notebooks, k, p) = {}
      BY <1>6 DEF WholeAfter
    <3>2. \E j \in 1..m : /\ One(Spots(parcels[j].cells, k, p))
                          /\ \A l \in 1..m : l # j => Spots(parcels[l].cells, k, p) = {}
      BY <1>2, <1>8, <2>1 DEF ParcelsOf, m, output
    <3> QED  BY <1>3, <2>1, <3>1, <3>2 DEF Filled
  <2>2. CASE i # k
    BY <1>3, <1>4, <1>8, <2>2 DEF Filled, WholeAfter
  <2> QED  BY <2>1, <2>2
<1>9. ASSUME NEW i \in 1..k, NEW x \in DOMAIN run.outputs[i].sources
      PROVE  Shows(after, run.outputs[i].sources[x], i)
  <2>1. CASE i = k
    BY <1>2, <1>3, <1>9, <2>1 DEF ParcelsOf, Filled, m, output
  <2>2. CASE i # k
    BY <1>3, <1>4, <1>9, <2>2 DEF Filled, WholeAfter
  <2> QED  BY <2>1, <2>2
<1>10. WholeAfter(run, k, after)
  BY <1>3, <1>7, <1>8, <1>9 DEF WholeAfter, Filled
<1> QED  BY <1>10 DEF after

LEMMA GroupedIs ==
    ASSUME NEW run \in Runs
    PROVE  WholeAfter(run, OutputCount, Grouped(run))
<1> DEFINE d == OutputCount
           S == NotebookStates
           order == [n \in DOMAIN run.outputs |-> n]
           st0 == [names |-> << >>, notebooks |-> << >>]
           step == [z \in (1..d) \X S |-> PutOutput(run, z[2], z[1])]
           Eqn(f) == f = [s \in SUBSET (1..d) |->
                            IF s = {} THEN st0 ELSE PutOutput(run, f[s \ {Max(s)}], order[Max(s)])]
           c == CHOOSE f : Eqn(f)
<1>1. /\ d \in Nat /\ DOMAIN run.outputs = 1..d /\ DOMAIN order = 1..d
      /\ \A k \in 1..d : order[k] = k /\ IsOutput(run.outputs[k])
  BY NotebooksAssumption DEF NotebooksAssumption, Runs, IsOutput
<1>2. run.language \in {"python", "sql"}
  BY DEF Runs
<1>3. Grouped(run) = c[1..d]
  BY <1>1 DEF Grouped, FoldLeft, MapThenFoldSet
<1>4. ASSUME NEW v \in S, NEW k \in 1..d PROVE PutOutput(run, v, k) \in S
  <2> DEFINE parcels == Parcels(k, run.outputs[k], run.language)
  <2>1. k \in Nat /\ IsOutput(run.outputs[k]) /\ run.language \in CellLanguages
    BY <1>1, <1>2 DEF CellLanguages
  <2>2. ParcelsOf(k, run.outputs[k], parcels)
    BY <2>1, ParcelsAre
  <2> HIDE DEF parcels, d
  <2>3. Filled(v, k, parcels, Len(parcels), PutAll(v, parcels))
    BY <2>1, <2>2, PutAllIs
  <2> QED  BY <2>3 DEF Filled, PutOutput, parcels
<1>5. step \in [(1..d) \X S -> S]
  <2> HIDE DEF S, d
  <2> QED  BY <1>4
<1>6. \A k \in 1..d : \A v \in S : step[<<k, v>>] = PutOutput(run, v, k)
  OBVIOUS
<1> HIDE DEF order
<1>7. WholeAfter(run, 0, st0)
  <2>1. << >> \in Seq(NotebookNames) /\ Len(<< >>) = 0 /\ DOMAIN << >> = {} /\ 1..0 = {}
    BY EmptySeq
  <2>2. << >> \in [{} -> NotebookNames] /\ << >> \in [{} -> Seq(NotebookCells)]
    BY <2>1
  <2>3. << >> \in UNION {[D -> NotebookNames] : D \in SUBSET NotebookKeys}
    BY <2>2
  <2>4. << >> \in UNION {[D -> Seq(NotebookCells)] : D \in SUBSET NotebookNames}
    BY <2>2
  <2>5. NamesApart(<< >>)
    BY <2>1, FS_EmptySet DEF NamesApart
  <2>6. st0 \in NotebookStates
    BY <2>1, <2>3, <2>4, <2>5 DEF NotebookStates
  <2>7. \A i, p : CodeAt(st0.notebooks, i, p) = {}
    BY <2>1 DEF CodeAt
  <2> QED  BY <2>1, <2>6, <2>7 DEF WholeAfter
<1>8. st0 \in S
  BY <1>7 DEF WholeAfter
<1> HIDE DEF step, d, S, st0
<1>9. PICK f : FoldsLeft(f, d, S, st0, step)
  BY <1>1, <1>5, <1>8, FoldLeftExists
<1>10. Eqn(f)
  <2>1. \A s \in SUBSET (1..d) : s # {} => Max(s) \in 1..d /\ f[s \ {Max(s)}] \in S
    BY <1>1, <1>9, LargestOf DEF FoldsLeft
  <2>2. \A s \in SUBSET (1..d) :
           f[s] = IF s = {} THEN st0 ELSE PutOutput(run, f[s \ {Max(s)}], order[Max(s)])
    BY <1>1, <1>6, <1>9, <2>1 DEF FoldsLeft
  <2> QED  BY <1>9, <2>2 DEF FoldsLeft
<1>11. Eqn(c)
  <2> HIDE DEF Eqn
  <2> QED  BY <1>10
<1>12. c[{}] = st0 /\ \A k \in 1..d : c[1..k] = PutOutput(run, c[1..(k - 1)], k)
  <2>1. \A s \in SUBSET (1..d) :
           c[s] = IF s = {} THEN st0 ELSE PutOutput(run, c[s \ {Max(s)}], order[Max(s)])
    <3> HIDE DEF c
    <3> QED  BY <1>11
  <2> HIDE DEF c
  <2>2. ASSUME NEW k \in 1..d PROVE c[1..k] = PutOutput(run, c[1..(k - 1)], k)
    <3>1. k \in Nat /\ k # 0 /\ (1..k) \in SUBSET (1..d) /\ k \in 1..d
      BY <1>1
    <3>2. Max(1..k) = k /\ (1..k) \ {k} = 1..(k - 1) /\ 1..k # {}
      BY <3>1, PlacesUpTo
    <3> QED  BY <1>1, <2>1, <3>1, <3>2
  <2> QED  BY <2>1, <2>2
<1> HIDE DEF c
<1> DEFINE B == {k \in 0..d : WholeAfter(run, k, c[1..k])}
<1>13. 0 \in B
  <2>1. 1..0 = {} /\ c[1..0] = st0
    BY <1>12
  <2> QED  BY <1>1, <1>7, <2>1
<1>14. ASSUME NEW k \in 1..d, k - 1 \in B PROVE k \in B
  <2>1. WholeAfter(run, k - 1, c[1..(k - 1)])
    BY <1>14
  <2>2. run.language \in CellLanguages
    BY <1>2 DEF CellLanguages
  <2>3. WholeAfter(run, k, c[1..k])
    <3> DEFINE v == c[1..(k - 1)]
    <3>1. d \in Nat /\ IsOutput(run.outputs[k]) /\ WholeAfter(run, k - 1, v) /\ c[1..k] = PutOutput(run, v, k)
      BY <1>1, <1>12, <2>1
    <3> HIDE DEF v
    <3>2. WholeAfter(run, k, PutOutput(run, v, k))
      BY <2>2, <3>1, OutputIsPut
    <3> QED  BY <3>1, <3>2
  <2>4. k \in 0..d
    BY <1>1
  <2> QED  BY <2>3, <2>4
<1>15. d \in B
  <2>1. \A k \in 0..d : k \in B
    <3> HIDE DEF B
    <3> QED  BY <1>1, <1>13, <1>14, UpTo
  <2> HIDE DEF B
  <2> QED  BY <1>1, <2>1
<1> QED  BY <1>3, <1>15 DEF d

NotebooksInv ==
    subject = "notebooks" => input \in Runs /\ (answered => result = Grouped(input))

(* Whatever the outputs of a run: what a model meant to run is a code cell of
   one notebook, programs of one name keep notebooks of their own, and no file
   of an item is without it or a pointer to it (pipeline.notebook). *)
THEOREM NotebooksWhole == NotebooksSpec => []NotebooksAreWhole
<1>1. NotebooksInit => NotebooksInv
  BY DEF NotebooksInit, Case, NotebooksInv
<1>2. NotebooksInv /\ [NotebooksStep]_caseVars => NotebooksInv'
  BY DEF NotebooksInv, NotebooksStep, Answer, caseVars
<1>3. NotebooksInv => NotebooksAreWhole
  <2> SUFFICES ASSUME NotebooksInv, Answered("notebooks") PROVE NotebooksAreWhole
    BY DEF NotebooksAreWhole, StepRunsOnce, NotebooksApart, NoFileSkipsAStep
  <2>1. input \in Runs /\ WholeAfter(input, OutputCount, result)
    BY GroupedIs DEF NotebooksInv, Answered
  <2>2. DOMAIN input.outputs = 1..OutputCount
    BY <2>1 DEF Runs
  <2>3. StepRunsOnce
    <3>1. ASSUME NEW n \in DOMAIN input.outputs, NEW p \in MeantToRun(input.outputs[n])
          PROVE  Cardinality(RunsAt(n, p)) = 1
      <4>1. PICK x : CodeAt(result.notebooks, n, p) = {x}
        BY <2>1, <2>2, <3>1 DEF WholeAfter, One
      <4> QED  BY <4>1, FS_Singleton DEF RunsAt
    <3> QED  BY <3>1 DEF StepRunsOnce
  <2>4. NotebooksApart
    BY <2>1, StateIs DEF WholeAfter, NotebooksApart, NamesApart
  <2>5. NoFileSkipsAStep
    <3> SUFFICES ASSUME NEW n \in DOMAIN input.outputs,
                        NEW source \in Range(input.outputs[n].sources)
                 PROVE  /\ source \in DOMAIN result.names
                        /\ \E cell \in Range(result.notebooks[result.names[source]]) : cell.item = n
      BY DEF NoFileSkipsAStep
    <3>1. PICK x \in DOMAIN input.outputs[n].sources : input.outputs[n].sources[x] = source
      BY DEF Range
    <3>2. Shows(result, source, n)
      BY <2>1, <2>2, <3>1 DEF WholeAfter
    <3>3. source \in DOMAIN result.names /\ result.notebooks[result.names[source]] \in Seq(NotebookCells)
      BY <2>1, <3>2, StateIs DEF WholeAfter, Shows
    <3> DEFINE cells == result.notebooks[result.names[source]]
    <3>4. PICK k \in 1..Len(cells) : cells[k].item = n
      BY <3>2 DEF Shows
    <3>5. cells[k] \in Range(cells)
      BY <3>3, LenProperties DEF Range
    <3> QED  BY <3>3, <3>4, <3>5
  <2> QED  BY <2>3, <2>4, <2>5 DEF NotebooksAreWhole
<1> QED  BY <1>1, <1>2, <1>3, PTL DEF NotebooksSpec

-----------------------------------------------------------------------------
(* Folds, place by place *)

Stays(c, n, S) == \A k \in 1..n : c[1..(k - 1)] \in S => c[1..k] \in S

\* What a fold comes to over the first places, place by place.
LEMMA StatesUpTo ==
    ASSUME NEW n \in Nat, NEW S, NEW c, c[{}] \in S,
           Stays(c, n, S)
    PROVE  \E h \in [0..n -> S] : h[0] = c[{}] /\ \A k \in 0..n : h[k] = c[1..k]
<1> DEFINE B == {k \in 0..n : c[1..k] \in S}
           h == [k \in 0..n |-> c[1..k]]
<1>1. 1..0 = {}
  OBVIOUS
<1>2. 0 \in B
  BY <1>1
<1>3. ASSUME NEW k \in 1..n, k - 1 \in B PROVE k \in B
  BY <1>3 DEF Stays
<1>4. \A k \in 0..n : k \in B
  <2> HIDE DEF B
  <2> QED  BY <1>2, <1>3, UpTo
<1>5. h \in [0..n -> S] /\ h[0] = c[{}] /\ \A k \in 0..n : h[k] = c[1..k]
  BY <1>1, <1>4
<1> HIDE DEF h
<1> QED  BY <1>5

-----------------------------------------------------------------------------
(* What the walk of a corpus keeps *)

LibraryRecs == [libref : STRING, dir : Paths]
Searches == UNION {[D -> Seq(LibraryRecs)] : D \in SUBSET STRING}
DataSets == STRING \X STRING
NamedRecs == [library : LibraryRecs, member : STRING, reader : Nat]
Walks ==
    [cwd : Paths, bound : Searches, env : Searches, file : Nat, here : SUBSET DataSets,
     named : Seq(NamedRecs), listed : SUBSET LibraryRecs, covered : SUBSET LibraryRecs,
     unassigned : Seq(STRING), unknown : BOOLEAN]
SasCorpora == Seq(Seq(SasStatements))

\* Distinct, place by place.
LEMMA DistinctIs ==
    ASSUME NEW T, NEW s \in Seq(T)
    PROVE  \E h \in [0..Len(s) -> Seq(T)] :
              /\ h[0] = << >>
              /\ \A k \in 1..Len(s) : h[k] = IF s[k] \in Range(h[k - 1]) THEN h[k - 1] ELSE Append(h[k - 1], s[k])
              /\ Distinct(s) = h[Len(s)]
<1> DEFINE d == Len(s)
           S == Seq(T)
           base == << >>
           seqn == s
           Add(v, e) == IF e \in Range(v) THEN v ELSE Append(v, e)
           step == [z \in (1..d) \X S |-> Add(z[2], seqn[z[1]])]
           Eqn(f) == f = [J \in SUBSET (1..d) |->
                            IF J = {} THEN base ELSE Add(f[J \ {Max(J)}], seqn[Max(J)])]
           c == CHOOSE f : Eqn(f)
<1>1. d \in Nat /\ DOMAIN seqn = 1..d
  BY LenProperties
<1>2. Distinct(s) = c[1..d]
  BY <1>1 DEF Distinct, FoldLeft, MapThenFoldSet
<1>3. base \in S
  BY EmptySeq
<1>4. ASSUME NEW v \in S, NEW k \in 1..d PROVE Add(v, seqn[k]) \in S
  <2> s[k] \in T
    BY <1>1, ElementOfSeq
  <2> QED  BY AppendProperties
<1> HIDE DEF Add
<1>5. step \in [(1..d) \X S -> S]
  <2> HIDE DEF S, d, seqn
  <2> QED  BY <1>4
<1>6. \A k \in 1..d : \A v \in S : step[<<k, v>>] = Add(v, seqn[k])
  OBVIOUS
<1> HIDE DEF step, d, S, base, seqn
<1>7. PICK f : FoldsLeft(f, d, S, base, step)
  BY <1>1, <1>3, <1>5, FoldLeftExists
<1>8. Eqn(f)
  <2>1. \A J \in SUBSET (1..d) : J # {} => Max(J) \in 1..d /\ f[J \ {Max(J)}] \in S
    BY <1>1, <1>7, LargestOf DEF FoldsLeft
  <2>2. \A J \in SUBSET (1..d) :
           f[J] = IF J = {} THEN base ELSE Add(f[J \ {Max(J)}], seqn[Max(J)])
    BY <1>1, <1>6, <1>7, <2>1 DEF FoldsLeft
  <2> QED  BY <1>7, <2>2 DEF FoldsLeft
<1>9. Eqn(c)
  <2> HIDE DEF Eqn
  <2> QED  BY <1>8
<1>10. \A J \in SUBSET (1..d) :
          c[J] = IF J = {} THEN base ELSE Add(c[J \ {Max(J)}], seqn[Max(J)])
  <2> HIDE DEF c
  <2> QED  BY <1>9
<1> HIDE DEF c, Eqn
<1>11. /\ c[{}] = base
       /\ \A k \in 1..d : c[1..(k - 1)] \in S => c[1..k] \in S
       /\ \A k \in 1..d : c[1..k] = Add(c[1..(k - 1)], seqn[k])
  <2>1. ASSUME NEW k \in 1..d PROVE c[1..k] = Add(c[1..(k - 1)], seqn[k])
    <3>1. k \in Nat /\ k # 0 /\ (1..k) \in SUBSET (1..d)
      BY <1>1
    <3>2. Max(1..k) = k /\ (1..k) \ {k} = 1..(k - 1) /\ 1..k # {}
      BY <3>1, PlacesUpTo
    <3> QED  BY <1>10, <3>1, <3>2
  <2>2. \A k \in 1..d : c[1..(k - 1)] \in S => c[1..k] \in S
    BY <1>4, <2>1
  <2> QED  BY <1>10, <2>1, <2>2
<1>12. PICK h \in [0..d -> S] : h[0] = c[{}] /\ \A k \in 0..d : h[k] = c[1..k]
  <2>1. d \in Nat /\ c[{}] \in S
    BY <1>1, <1>3, <1>11
  <2>2. Stays(c, d, S)
    BY <1>11 DEF Stays
  <2> QED  BY <2>1, <2>2, StatesUpTo
<1>13. \A k \in 1..d : h[k] = Add(h[k - 1], seqn[k])
  <2>1. \A k \in 1..d : k \in 0..d /\ k - 1 \in 0..d
    BY <1>1
  <2> QED  BY <1>11, <1>12, <2>1
<1>14. c[1..d] = h[d]
  BY <1>1, <1>12
<1>15. h \in [0..Len(s) -> Seq(T)] /\ h[0] = << >>
  BY <1>11, <1>12 DEF d, S, base
<1>16. \A k \in 1..Len(s) : h[k] = IF s[k] \in Range(h[k - 1]) THEN h[k - 1] ELSE Append(h[k - 1], s[k])
  BY <1>1, <1>13 DEF d, seqn, Add
<1>17. Distinct(s) = h[Len(s)]
  BY <1>2, <1>14 DEF d
<1> QED  BY <1>15, <1>16, <1>17

LEMMA StatementIs ==
    ASSUME NEW s \in SasStatements
    PROVE  /\ s.st \in {"libname", "setenv", "cd", "infile", "step"}
           /\ s.libref \in STRING /\ s.engine \in STRING /\ s.joins \in BOOLEAN
           /\ s.other \in STRING /\ s.path \in Paths /\ s.refs \in Seq(DataSetRefs)
           /\ s.st = "libname" => s.engine \in {"base", "spde"}
           /\ s.st = "setenv" => s.engine = "base" /\ s.other = ""
           /\ s.st = "infile" => s.path # NoPath
           /\ s.st # "step" => s.refs = << >>
BY DEF SasStatements

LEMMA RefIs ==
    ASSUME NEW ref \in DataSetRefs
    PROVE  /\ ref.role \in {"read", "update", "write"}
           /\ ref.libref \in STRING /\ ref.member \in STRING
           /\ ref.pattern \in BOOLEAN /\ ref.now \in BOOLEAN
BY DEF DataSetRefs

LEMMA OneLong ==
    ASSUME NEW S, NEW e \in S
    PROVE  <<e>> \in Seq(S) /\ Len(<<e>>) = 1 /\ DOMAIN <<e>> = {1} /\ <<e>>[1] = e
<1>1. <<e>> \in [1..1 -> S] /\ Len(<<e>>) = 1
  OBVIOUS
<1>2. 1..1 = {1}
  OBVIOUS
<1>3. <<e>> \in Seq(S)
  BY <1>1
<1> QED  BY <1>1, <1>2, <1>3

LEMMA PathsAre ==
    /\ NoPath \in Paths
    /\ \A p, q \in Paths : p \o q \in Paths
    /\ \A p \in Paths : \A name \in STRING : p \o <<name>> \in Paths
<1>1. NoPath \in Paths
  BY EmptySeq DEF NoPath, Paths
<1>2. ASSUME NEW p \in Paths, NEW q \in Paths PROVE p \o q \in Paths
  BY ConcatProperties DEF Paths
<1>3. ASSUME NEW name \in STRING PROVE <<name>> \in Paths
  BY OneLong DEF Paths
<1> QED  BY <1>1, <1>2, <1>3

LEMMA PlacesAre ==
    ASSUME NEW cwd \in Paths, NEW path \in Paths
    PROVE  /\ ChangeDirectory(cwd, path) \in Paths /\ Placed(cwd, path) \in Paths
           /\ path # NoPath => Placed(cwd, path) # NoPath
<1>1. cwd \o path \in Paths /\ (cwd \o path = << >> <=> cwd = << >> /\ path = << >>)
  BY ConcatProperties, ConcatEqualIffEmpty DEF Paths
<1> QED  BY <1>1, PathsAre DEF ChangeDirectory, Placed, NoPath

LEMMA LibraryIs ==
    ASSUME NEW cwd \in Paths, NEW s \in SasStatements
    PROVE  /\ LibraryOf(cwd, s) \in LibraryRecs /\ LibraryOf(cwd, s).libref = s.libref
           /\ s.st # "setenv" => LibraryOf(cwd, s).dir = Placed(cwd, s.path)
BY StatementIs, PlacesAre DEF LibraryOf, LibraryRecs

\* The current directory goes from each statement to the next.
LEMMA CwdIs ==
    ASSUME NEW flat \in Seq(SasStatements)
    PROVE  /\ CwdAt(flat, 1) = NoPath
           /\ \A g \in 1..(Len(flat) + 1) : CwdAt(flat, g) \in Paths
           /\ \A g \in 1..Len(flat) :
                 CwdAt(flat, g + 1) = IF flat[g].st = "cd" THEN ChangeDirectory(CwdAt(flat, g), flat[g].path)
                                      ELSE CwdAt(flat, g)
<1> DEFINE n == Len(flat)
           Next(v, k) == IF flat[k].st = "cd" THEN ChangeDirectory(v, flat[k].path) ELSE v
           step == [z \in (1..n) \X Paths |-> Next(z[2], z[1])]
           Eqn(f) == f = [h \in 1..(n + 1) |-> IF h = 1 THEN NoPath ELSE Next(f[h - 1], h - 1)]
           before == CHOOSE f : Eqn(f)
<1>1. n \in Nat /\ NoPath \in Paths /\ \A k \in 1..n : flat[k] \in SasStatements
  BY LenProperties, ElementOfSeq, PathsAre
<1>2. ASSUME NEW v \in Paths, NEW k \in 1..n PROVE Next(v, k) \in Paths
  BY <1>1, StatementIs, PlacesAre
<1>3. \A g : CwdAt(flat, g) = before[g]
  <2>1. ASSUME NEW g PROVE CwdAt(flat, g) = before[g]
    <3>1. CwdAt(flat, g) = (CHOOSE f : f = [h \in 1..(n + 1) |->
                               IF h = 1 THEN NoPath
                               ELSE IF flat[h - 1].st = "cd"
                               THEN ChangeDirectory(f[h - 1], flat[h - 1].path) ELSE f[h - 1]])[g]
      BY DEF CwdAt
    <3> QED  BY <3>1
  <2> QED  BY <2>1
<1> HIDE DEF Next
<1>4. step \in [(1..n) \X Paths -> Paths]
  <2> HIDE DEF n
  <2> QED  BY <1>2
<1>5. \A k \in 1..n : \A v \in Paths : step[<<k, v>>] = Next(v, k)
  OBVIOUS
<1> HIDE DEF step, n
<1>6. PICK f : FoldsLeft(f, n, Paths, NoPath, step)
  BY <1>1, <1>4, FoldLeftExists
<1> DEFINE F == [h \in 1..(n + 1) |-> f[1..(h - 1)]]
<1>7. F[1] = NoPath
  <2>1. 1..0 = {} /\ 1 \in 1..(n + 1) /\ {} \in SUBSET (1..n)
    BY <1>1
  <2>2. F[1] = f[{}]
    BY <2>1
  <2> QED  BY <2>1, <2>2, <1>6 DEF FoldsLeft
<1>8. ASSUME NEW k \in 1..n PROVE F[k + 1] = Next(F[k], k)
  <2>1. /\ k \in Nat /\ k # 0 /\ (1..k) \in SUBSET (1..n) /\ (1..(k - 1)) \in SUBSET (1..n)
        /\ k \in 1..(n + 1) /\ k + 1 \in 1..(n + 1) /\ (k + 1) - 1 = k
    BY <1>1
  <2>2. Max(1..k) = k /\ (1..k) \ {k} = 1..(k - 1) /\ 1..k # {}
    BY <2>1, PlacesUpTo
  <2>3. f[1..(k - 1)] \in Paths /\ f[1..k] = step[<<k, f[1..(k - 1)]>>]
    BY <1>6, <2>1, <2>2 DEF FoldsLeft
  <2>4. F[k + 1] = f[1..k] /\ F[k] = f[1..(k - 1)]
    BY <2>1
  <2> QED  BY <1>5, <2>3, <2>4
<1>9. Eqn(F)
  <2>1. \A h \in 1..(n + 1) : F[h] = IF h = 1 THEN NoPath ELSE Next(F[h - 1], h - 1)
    <3>1. \A h \in 1..(n + 1) : h # 1 => h - 1 \in 1..n /\ (h - 1) + 1 = h
      BY <1>1
    <3> HIDE DEF F
    <3> QED  BY <1>7, <1>8, <3>1
  <2>2. F = [h \in 1..(n + 1) |-> F[h]]
    OBVIOUS
  <2> HIDE DEF F
  <2> QED  BY <2>1, <2>2
<1>10. Eqn(before)
  <2> HIDE DEF Eqn, F
  <2> QED  BY <1>9
<1>11. \A h \in 1..(n + 1) : before[h] = IF h = 1 THEN NoPath ELSE Next(before[h - 1], h - 1)
  <2> HIDE DEF before
  <2> QED  BY <1>10
<1> HIDE DEF before, Eqn
<1>12. before[1] = NoPath
  BY <1>1, <1>11
<1>13. ASSUME NEW k \in 1..n PROVE before[k + 1] = Next(before[k], k)
  <2>1. k + 1 \in 1..(n + 1) /\ (k + 1) - 1 = k /\ k + 1 # 1
    BY <1>1
  <2> QED  BY <1>11, <2>1
<1> DEFINE B == {k \in 0..n : before[k + 1] \in Paths}
<1>14. 0 \in B
  BY <1>1, <1>12
<1>15. ASSUME NEW k \in 1..n, k - 1 \in B PROVE k \in B
  <2>1. before[k] \in Paths /\ k \in 0..n
    <3>1. (k - 1) + 1 = k /\ k \in 0..n
      BY <1>1
    <3> QED  BY <1>15, <3>1
  <2> QED  BY <1>2, <1>13, <2>1
<1>16. \A g \in 1..(n + 1) : before[g] \in Paths
  <2>1. \A k \in 0..n : k \in B
    <3> HIDE DEF B
    <3> QED  BY <1>1, <1>14, <1>15, UpTo
  <2>2. \A g \in 1..(n + 1) : g - 1 \in 0..n /\ (g - 1) + 1 = g
    BY <1>1
  <2> QED  BY <2>1, <2>2
<1>17. \A g \in 1..n : CwdAt(flat, g + 1) = IF flat[g].st = "cd" THEN ChangeDirectory(CwdAt(flat, g), flat[g].path)
                                            ELSE CwdAt(flat, g)
  BY <1>3, <1>13 DEF Next
<1> QED  BY <1>3, <1>12, <1>16, <1>17 DEF n

\* A LIBNAME statement that adds to no search is the one in force after it.
LEMMA InForceAfter ==
    ASSUME NEW flat \in Seq(SasStatements), NEW g \in 1..Len(flat), NEW l
    PROVE  /\ LibnameAt(flat, g, l) \in 0..(g - 1)
           /\ LibnameAt(flat, g + 1, l) =
                 IF flat[g].st = "libname" /\ flat[g].libref = l /\ ~flat[g].joins THEN g
                 ELSE LibnameAt(flat, g, l)
           /\ LibnameAt(flat, 1, l) = 0
<1> DEFINE Assigns(j) == flat[j].st = "libname" /\ flat[j].libref = l /\ ~flat[j].joins
           P(h) == {0} \cup {j \in 1..(h - 1) : Assigns(j)}
<1>1. \A h : LibnameAt(flat, h, l) = Max(P(h))
  BY DEF LibnameAt
<1> HIDE DEF Assigns
<1>2. g \in Nat /\ g # 0
  BY LenProperties
<1>3. ASSUME NEW h \in Nat, h # 0 PROVE Max(P(h)) \in P(h) /\ (\A y \in P(h) : Max(P(h)) >= y) /\ P(h) \subseteq 0..(h - 1)
  <2>1. P(h) \subseteq 0..(h - 1) /\ P(h) # {} /\ h - 1 \in Nat
    BY <1>3
  <2> HIDE DEF P
  <2> QED  BY <2>1, LargestNat
<1>4. P(g + 1) = IF Assigns(g) THEN P(g) \cup {g} ELSE P(g)
  <2>1. 1..((g + 1) - 1) = 1..(g - 1) \cup {g}
    BY <1>2
  <2> QED  BY <2>1
<1>5. P(1) = {0}
  BY <1>2
<1>6. Max(P(g + 1)) = IF Assigns(g) THEN g ELSE Max(P(g))
  <2>1. CASE Assigns(g)
    <3>1. Max(P(g + 1)) >= g /\ Max(P(g + 1)) \in 0..g
      <4>1. g \in P(g + 1) /\ g + 1 \in Nat /\ g + 1 # 0 /\ (g + 1) - 1 = g
        BY <1>2, <1>4, <2>1
      <4> HIDE DEF P
      <4> QED  BY <1>3, <4>1
    <3> HIDE DEF P
    <3> QED  BY <1>2, <2>1, <3>1
  <2>2. CASE ~Assigns(g)
    BY <1>4, <2>2
  <2> QED  BY <2>1, <2>2
<1>7. Max(P(1)) = 0
  <2>1. Max(P(1)) \in P(1)
    BY <1>3
  <2> QED  BY <1>5, <2>1
<1> HIDE DEF P
<1> QED  BY <1>1, <1>2, <1>3, <1>6, <1>7 DEF Assigns

LEMMA RangeOfAppend ==
    ASSUME NEW S, NEW s \in Seq(S), NEW e \in S
    PROVE  Range(Append(s, e)) = Range(s) \cup {e}
BY ElementsOfAppend DEF Range, ToSet

\* Distinct keeps the first of a sequence first, and adds nothing.
LEMMA DistinctKeeps ==
    ASSUME NEW T, NEW s \in Seq(T)
    PROVE  /\ Distinct(s) \in Seq(T) /\ Range(Distinct(s)) \subseteq Range(s)
           /\ s # << >> => Distinct(s) # << >> /\ Distinct(s)[1] = s[1]
           /\ Distinct(s) # << >> => s # << >>
<1> DEFINE n == Len(s)
<1>1. n \in Nat /\ DOMAIN s = 1..n /\ \A k \in 1..n : s[k] \in T /\ s[k] \in Range(s)
  BY LenProperties, ElementOfSeq DEF Range
<1>2. PICK h \in [0..n -> Seq(T)] :
         /\ h[0] = << >>
         /\ \A k \in 1..n : h[k] = IF s[k] \in Range(h[k - 1]) THEN h[k - 1] ELSE Append(h[k - 1], s[k])
         /\ Distinct(s) = h[n]
  BY DistinctIs
<1> DEFINE Good(k) == Range(h[k]) \subseteq Range(s) /\ (k # 0 => h[k] # << >> /\ h[k][1] = s[1])
           B == {k \in 0..n : Good(k)}
<1>3. 0 \in B
  BY <1>1, <1>2 DEF Range
<1>4. ASSUME NEW k \in 1..n, k - 1 \in B PROVE k \in B
  <2> DEFINE v == h[k - 1]
  <2>1. v \in Seq(T) /\ s[k] \in T /\ s[k] \in Range(s) /\ Range(v) \subseteq Range(s) /\ k \in 0..n
    BY <1>1, <1>2, <1>4
  <2>2. h[k] = IF s[k] \in Range(v) THEN v ELSE Append(v, s[k])
    BY <1>2
  <2>3. k - 1 # 0 => v # << >> /\ v[1] = s[1]
    BY <1>4
  <2>4. k - 1 = 0 => v = << >> /\ k = 1
    BY <1>1, <1>2
  <2> HIDE DEF v
  <2>5. /\ Range(Append(v, s[k])) = Range(v) \cup {s[k]} /\ Append(v, s[k]) # << >>
        /\ Len(v) \in Nat /\ (v # << >> => Len(v) # 0)
        /\ \A i \in 1..Len(v) : Append(v, s[k])[i] = v[i]
        /\ Append(v, s[k])[Len(v) + 1] = s[k]
    BY <2>1, RangeOfAppend, AppendProperties, LenProperties, EmptySeq
  <2>6. Range(h[k]) \subseteq Range(s)
    BY <2>1, <2>2, <2>5
  <2>7. h[k] # << >> /\ h[k][1] = s[1]
    <3>1. CASE k - 1 = 0
      <4>1. v = << >> /\ k = 1 /\ Range(v) = {} /\ Len(v) = 0
        BY <2>4, <3>1, EmptySeq DEF Range
      <4>2. h[k] = Append(v, s[k])
        BY <2>2, <4>1
      <4>3. Append(v, s[k])[1] = s[k]
        BY <2>5, <4>1
      <4> QED  BY <2>5, <4>1, <4>2, <4>3
    <3>2. CASE k - 1 # 0
      <4>1. 1 \in 1..Len(v) /\ v # << >> /\ v[1] = s[1]
        BY <2>3, <2>5, <3>2
      <4>2. Append(v, s[k])[1] = s[1]
        BY <2>5, <4>1
      <4> QED  BY <2>2, <2>5, <4>1, <4>2
    <3> QED  BY <3>1, <3>2
  <2> HIDE DEF n
  <2> QED  BY <2>1, <2>6, <2>7
<1>5. n \in B
  <2>1. \A k \in 0..n : k \in B
    <3> HIDE DEF B
    <3> QED  BY <1>1, <1>3, <1>4, UpTo
  <2> QED  BY <1>1, <2>1
<1>6. s # << >> => n # 0
  BY EmptySeq
<1>7. s = << >> => Distinct(s) = << >>
  <2>1. s = << >> => n = 0
    OBVIOUS
  <2> QED  BY <1>2, <2>1
<1> QED  BY <1>2, <1>5, <1>6, <1>7

LEMMA SearchIsSet ==
    ASSUME NEW f \in Searches, NEW key \in STRING, NEW value \in Seq(LibraryRecs)
    PROVE  /\ WithKey(f, key, value) \in Searches
           /\ DOMAIN WithKey(f, key, value) = DOMAIN f \cup {key}
           /\ WithKey(f, key, value)[key] = value
           /\ \A k \in DOMAIN f : k # key => WithKey(f, key, value)[k] = f[k]
<1>1. PICK D \in SUBSET STRING : f \in [D -> Seq(LibraryRecs)]
  BY DEF Searches
<1> DEFINE E == D \cup {key}
<1>2. WithKey(f, key, value) = [k \in E |-> IF k = key THEN value ELSE f[k]]
  BY <1>1 DEF WithKey
<1>3. E \in SUBSET STRING /\ WithKey(f, key, value) \in [E -> Seq(LibraryRecs)]
  BY <1>1, <1>2
<1> QED  BY <1>1, <1>2, <1>3 DEF Searches

LEMMA SearchIs ==
    ASSUME NEW walk \in Walks, NEW l
    PROVE  /\ Search(walk, l) \in Seq(LibraryRecs)
           /\ \A k \in DOMAIN walk.bound : walk.bound[k] \in Seq(LibraryRecs)
           /\ \A k \in DOMAIN walk.env : walk.env[k] \in Seq(LibraryRecs)
<1>1. walk.bound \in Searches /\ walk.env \in Searches
  BY DEF Walks
<1>2. \A f \in Searches : \A k \in DOMAIN f : f[k] \in Seq(LibraryRecs)
  BY DEF Searches
<1>3. << >> \in Seq(LibraryRecs)
  BY EmptySeq
<1> QED  BY <1>1, <1>2, <1>3 DEF Search

LEMMA OutsideIs ==
    ASSUME NEW l \in STRING
    PROVE  Outside(l) \in LibraryRecs
BY PathsAre DEF Outside, LibraryRecs

\* What one library adds to a search.
LEMMA PlacesOfIs ==
    ASSUME NEW walk \in Walks, NEW s \in SasStatements
    PROVE  PlacesOf(walk, s) \in Seq(LibraryRecs)
<1>1. walk.cwd \in Paths
  BY DEF Walks
<1>2. LibraryOf(walk.cwd, s) \in LibraryRecs /\ Outside(s.other) \in LibraryRecs
  BY <1>1, LibraryIs, OutsideIs, StatementIs
<1>3. <<LibraryOf(walk.cwd, s)>> \in Seq(LibraryRecs) /\ <<Outside(s.other)>> \in Seq(LibraryRecs)
  BY <1>2, OneLong
<1>4. << >> \in Seq(LibraryRecs) /\ Search(walk, s.other) \in Seq(LibraryRecs)
  BY EmptySeq, SearchIs
<1> QED  BY <1>3, <1>4 DEF PlacesOf

LEMMA BindIs ==
    ASSUME NEW walk \in Walks, NEW s \in SasStatements
    PROVE  /\ Bind(walk, s) \in Walks
           /\ Bind(walk, s) = [walk EXCEPT !.env = Bind(walk, s).env, !.bound = Bind(walk, s).bound]
           /\ s.st = "setenv" => /\ Bind(walk, s).bound = walk.bound
                                 /\ Bind(walk, s).env = WithKey(walk.env, s.libref, <<LibraryOf(walk.cwd, s)>>)
           /\ s.st # "setenv" => Bind(walk, s).env = walk.env
<1>1. /\ walk.cwd \in Paths /\ walk.bound \in Searches /\ walk.env \in Searches
      /\ s.libref \in STRING
  BY StatementIs DEF Walks
<1> DEFINE had == IF s.joins /\ s.libref \in DOMAIN walk.bound THEN walk.bound[s.libref] ELSE << >>
           L == Distinct(had \o PlacesOf(walk, s))
<1>2. had \in Seq(LibraryRecs) /\ PlacesOf(walk, s) \in Seq(LibraryRecs)
  BY EmptySeq, SearchIs, PlacesOfIs
<1>3. had \o PlacesOf(walk, s) \in Seq(LibraryRecs)
  <2> HIDE DEF had
  <2> QED  BY <1>2, ConcatProperties
<1>4. L \in Seq(LibraryRecs)
  <2> HIDE DEF had
  <2> QED  BY <1>3, DistinctKeeps
<1>5. <<LibraryOf(walk.cwd, s)>> \in Seq(LibraryRecs)
  BY <1>1, LibraryIs, OneLong
<1>6. /\ WithKey(walk.env, s.libref, <<LibraryOf(walk.cwd, s)>>) \in Searches
      /\ WithKey(walk.bound, s.libref, L) \in Searches
  <2> HIDE DEF L
  <2> QED  BY <1>1, <1>4, <1>5, SearchIsSet
<1>7. Bind(walk, s) =
         IF s.st = "setenv"
         THEN [walk EXCEPT !.env = WithKey(walk.env, s.libref, <<LibraryOf(walk.cwd, s)>>)]
         ELSE IF s.engine # "base" /\ ~s.joins THEN walk
         ELSE [walk EXCEPT !.bound = WithKey(walk.bound, s.libref, L)]
  BY DEF Bind, Walks
<1> HIDE DEF L, had
<1> QED  BY <1>6, <1>7 DEF Walks

\* Reference k of step s names the first directory its library searches.
Names(files, walk, s, k) ==
    LET places == Search(walk, s.refs[k].libref)
    IN  /\ s.refs[k].role # "write" /\ places # << >> /\ places[1].dir # NoPath
        /\ ~s.refs[k].pattern /\ ~Made(files, walk, s, k, NameOf(s.refs[k]))

MemberAt(walk, s, k) ==
    [library |-> Search(walk, s.refs[k].libref)[1], member |-> s.refs[k].member, reader |-> walk.file]

\* A reference moves neither the searches nor the current directory.
SameSearches(walk, after) ==
    /\ after.cwd = walk.cwd /\ after.bound = walk.bound /\ after.env = walk.env
    /\ after.file = walk.file /\ after.here = walk.here

LEMMA PlacesWithout ==
    ASSUME NEW ps \in Seq(LibraryRecs)
    PROVE  /\ {p \in Range(ps) : p.dir # NoPath} \in SUBSET LibraryRecs
           /\ ps # << >> => {p \in Range(Tail(ps)) : p.dir # NoPath} \in SUBSET LibraryRecs
<1>1. Range(ps) \in SUBSET LibraryRecs
  BY RangeOfSeq
<1>2. ASSUME ps # << >> PROVE Range(Tail(ps)) \in SUBSET LibraryRecs
  <2>1. Tail(ps) \in Seq(LibraryRecs)
    BY <1>2, HeadTailProperties
  <2> QED  BY <2>1, RangeOfSeq
<1> QED  BY <1>1, <1>2

LEMMA ReadOutsideIs ==
    ASSUME NEW files, NEW walk \in Walks, NEW l \in STRING, NEW made, NEW concatenated \in BOOLEAN
    PROVE  LET after == ReadOutside(files, walk, l, made, concatenated)
           IN  after \in Walks /\ SameSearches(walk, after) /\ after.named = walk.named
<1>1. walk.unassigned \in Seq(STRING) /\ Append(walk.unassigned, l) \in Seq(STRING)
  BY AppendProperties DEF Walks
<1>2. (walk.unknown \/ concatenated) \in BOOLEAN
  BY DEF Walks
<1> QED  BY <1>1, <1>2 DEF ReadOutside, Walks, SameSearches

LEMMA ReadRefIs ==
    ASSUME NEW files, NEW walk \in Walks, NEW s \in SasStatements, NEW k \in 1..Len(s.refs)
    PROVE  LET after == ReadRef(files, walk, s, k)
               place == Search(walk, s.refs[k].libref)[1]
           IN  /\ after \in Walks /\ SameSearches(walk, after)
               /\ Names(files, walk, s, k) => MemberAt(walk, s, k) \in NamedRecs
               /\ after.named = IF Names(files, walk, s, k) /\ ~Known(walk, place, s.refs[k].member)
                                THEN Append(walk.named, MemberAt(walk, s, k)) ELSE walk.named
<1> DEFINE ref == s.refs[k]
           places == Search(walk, ref.libref)
           made == Made(files, walk, s, k, NameOf(ref))
           member == MemberAt(walk, s, k)
           known == Known(walk, places[1], ref.member)
           named == IF known THEN walk.named ELSE Append(walk.named, member)
           covered == walk.covered \cup {p \in Range(Tail(places)) : p.dir # NoPath}
           listed == walk.listed \cup {p \in Range(places) : p.dir # NoPath}
           after == ReadRef(files, walk, s, k)
<1>1. /\ ref \in DataSetRefs /\ ref.libref \in STRING /\ ref.member \in STRING
  BY StatementIs, ElementOfSeq, RefIs
<1>2. places \in Seq(LibraryRecs) /\ walk.file \in Nat
  BY SearchIs DEF Walks
<1>3. places # << >> => places[1] \in LibraryRecs /\ places[1].libref \in STRING
  <2>1. places # << >> => 1 \in 1..Len(places)
    BY <1>2, EmptySeq
  <2> HIDE DEF places
  <2>2. places # << >> => places[1] \in LibraryRecs
    BY <1>2, <2>1, ElementOfSeq
  <2> QED  BY <2>2 DEF LibraryRecs
<1>4. places # << >> => member \in NamedRecs
  BY <1>1, <1>2, <1>3 DEF MemberAt, NamedRecs
<1>5. places # << >> => named \in Seq(NamedRecs)
  <2>1. walk.named \in Seq(NamedRecs)
    BY DEF Walks
  <2> HIDE DEF places, member, known
  <2> QED  BY <1>4, <2>1, AppendProperties
<1>6. listed \in SUBSET LibraryRecs /\ (places # << >> => covered \in SUBSET LibraryRecs)
  <2>1. walk.listed \in SUBSET LibraryRecs /\ walk.covered \in SUBSET LibraryRecs
    BY DEF Walks
  <2> HIDE DEF places
  <2> QED  BY <1>2, <2>1, PlacesWithout
<1>7. after =
         IF ref.role = "write" THEN walk
         ELSE IF places = << >> THEN ReadOutside(files, walk, ref.libref, made, FALSE)
         ELSE IF places[1].dir = NoPath THEN ReadOutside(files, walk, places[1].libref, made, TRUE)
         ELSE IF ref.pattern THEN [walk EXCEPT !.listed = listed]
         ELSE IF made THEN walk
         ELSE [walk EXCEPT !.named = named, !.covered = covered]
  BY DEF ReadRef, MemberAt, Walks
<1>8. Names(files, walk, s, k) <=> /\ ref.role # "write" /\ places # << >> /\ places[1].dir # NoPath
                                   /\ ~ref.pattern /\ ~made
  BY DEF Names
<1> HIDE DEF after, listed, covered, made, known, member, places, ref
<1>9. CASE ref.role = "write" \/ (places # << >> /\ places[1].dir # NoPath /\ ~ref.pattern /\ made)
  BY <1>7, <1>8, <1>9 DEF SameSearches, after, places, ref, known, member
<1>10. CASE ref.role # "write" /\ places = << >>
  <2>1. after = ReadOutside(files, walk, ref.libref, made, FALSE)
    BY <1>7, <1>10
  <2>2. after \in Walks /\ SameSearches(walk, after) /\ after.named = walk.named
    BY <1>1, <2>1, ReadOutsideIs
  <2> QED  BY <1>8, <1>10, <2>2 DEF after, places, ref, known, member
<1>11. CASE ref.role # "write" /\ places # << >> /\ places[1].dir = NoPath
  <2>1. after = ReadOutside(files, walk, places[1].libref, made, TRUE)
    BY <1>7, <1>11
  <2>2. after \in Walks /\ SameSearches(walk, after) /\ after.named = walk.named
    BY <1>3, <1>11, <2>1, ReadOutsideIs
  <2> QED  BY <1>8, <1>11, <2>2 DEF after, places, ref, known, member
<1>12. CASE ref.role # "write" /\ places # << >> /\ places[1].dir # NoPath /\ ref.pattern
  <2>1. after = [walk EXCEPT !.listed = listed]
    BY <1>7, <1>12
  <2>2. after \in Walks /\ SameSearches(walk, after) /\ after.named = walk.named
    BY <1>6, <2>1 DEF Walks, SameSearches
  <2> QED  BY <1>8, <1>12, <2>2 DEF after, places, ref, known, member
<1>13. CASE ref.role # "write" /\ places # << >> /\ places[1].dir # NoPath /\ ~ref.pattern /\ ~made
  <2>1. after = [walk EXCEPT !.named = named, !.covered = covered]
    BY <1>7, <1>13
  <2> HIDE DEF named
  <2>2. after \in Walks /\ SameSearches(walk, after) /\ after.named = named
    BY <1>5, <1>6, <1>13, <2>1 DEF Walks, SameSearches
  <2>3. after.named = IF ~known THEN Append(walk.named, member) ELSE walk.named
    BY <2>2 DEF named
  <2> QED  BY <1>4, <1>8, <1>13, <2>2, <2>3 DEF after, places, ref, known, member
<1> QED  BY <1>9, <1>10, <1>11, <1>12, <1>13

\* A step, reference by reference.
LEMMA StepIsRead ==
    ASSUME NEW files, NEW walk \in Walks, NEW s \in SasStatements
    PROVE  \E h \in [0..Len(s.refs) -> Walks] :
              /\ h[0] = walk
              /\ \A k \in 1..Len(s.refs) : h[k] = ReadRef(files, h[k - 1], s, k)
              /\ ReadStep(files, walk, s) = h[Len(s.refs)]
<1> DEFINE d == Len(s.refs)
           S == Walks
           base == walk
           seqn == [k \in DOMAIN s.refs |-> k]
           Add(v, e) == ReadRef(files, v, s, e)
           step == [z \in (1..d) \X S |-> Add(z[2], seqn[z[1]])]
           Eqn(f) == f = [J \in SUBSET (1..d) |->
                            IF J = {} THEN base ELSE Add(f[J \ {Max(J)}], seqn[Max(J)])]
           c == CHOOSE f : Eqn(f)
<1>1. d \in Nat /\ DOMAIN seqn = 1..d /\ \A k \in 1..d : seqn[k] = k
  BY StatementIs, LenProperties
<1>2. ReadStep(files, walk, s) = c[1..d]
  BY <1>1 DEF ReadStep, FoldLeft, MapThenFoldSet
<1>3. base \in S
  OBVIOUS
<1>4. ASSUME NEW v \in S, NEW k \in 1..d PROVE Add(v, seqn[k]) \in S
  <2> HIDE DEF Add
  <2>1. Add(v, seqn[k]) = ReadRef(files, v, s, k)
    BY <1>1 DEF Add
  <2>2. k \in 1..Len(s.refs)
    OBVIOUS
  <2> QED  BY <2>1, <2>2, ReadRefIs
<1> HIDE DEF Add
<1>5. step \in [(1..d) \X S -> S]
  <2> HIDE DEF S, d, seqn
  <2> QED  BY <1>4
<1>6. \A k \in 1..d : \A v \in S : step[<<k, v>>] = Add(v, seqn[k])
  OBVIOUS
<1> HIDE DEF step, d, S, base, seqn
<1>7. PICK f : FoldsLeft(f, d, S, base, step)
  BY <1>1, <1>3, <1>5, FoldLeftExists
<1>8. Eqn(f)
  <2>1. \A J \in SUBSET (1..d) : J # {} => Max(J) \in 1..d /\ f[J \ {Max(J)}] \in S
    BY <1>1, <1>7, LargestOf DEF FoldsLeft
  <2>2. \A J \in SUBSET (1..d) :
           f[J] = IF J = {} THEN base ELSE Add(f[J \ {Max(J)}], seqn[Max(J)])
    BY <1>1, <1>6, <1>7, <2>1 DEF FoldsLeft
  <2> QED  BY <1>7, <2>2 DEF FoldsLeft
<1>9. Eqn(c)
  <2> HIDE DEF Eqn
  <2> QED  BY <1>8
<1>10. \A J \in SUBSET (1..d) :
          c[J] = IF J = {} THEN base ELSE Add(c[J \ {Max(J)}], seqn[Max(J)])
  <2> HIDE DEF c
  <2> QED  BY <1>9
<1> HIDE DEF c, Eqn
<1>11. /\ c[{}] = base
       /\ \A k \in 1..d : c[1..(k - 1)] \in S => c[1..k] \in S
       /\ \A k \in 1..d : c[1..k] = Add(c[1..(k - 1)], seqn[k])
  <2>1. ASSUME NEW k \in 1..d PROVE c[1..k] = Add(c[1..(k - 1)], seqn[k])
    <3>1. k \in Nat /\ k # 0 /\ (1..k) \in SUBSET (1..d)
      BY <1>1
    <3>2. Max(1..k) = k /\ (1..k) \ {k} = 1..(k - 1) /\ 1..k # {}
      BY <3>1, PlacesUpTo
    <3> QED  BY <1>10, <3>1, <3>2
  <2>2. \A k \in 1..d : c[1..(k - 1)] \in S => c[1..k] \in S
    BY <1>4, <2>1
  <2> QED  BY <1>10, <2>1, <2>2
<1>12. PICK h \in [0..d -> S] : h[0] = c[{}] /\ \A k \in 0..d : h[k] = c[1..k]
  <2>1. d \in Nat /\ c[{}] \in S
    BY <1>1, <1>3, <1>11
  <2>2. Stays(c, d, S)
    BY <1>11 DEF Stays
  <2> QED  BY <2>1, <2>2, StatesUpTo
<1>13. \A k \in 1..d : h[k] = Add(h[k - 1], seqn[k])
  <2>1. \A k \in 1..d : k \in 0..d /\ k - 1 \in 0..d
    BY <1>1
  <2> QED  BY <1>11, <1>12, <2>1
<1>14. c[1..d] = h[d]
  BY <1>1, <1>12
<1>15. h \in [0..Len(s.refs) -> Walks] /\ h[0] = walk
  BY <1>11, <1>12 DEF d, S, base
<1>16. \A k \in 1..Len(s.refs) : h[k] = ReadRef(files, h[k - 1], s, k)
  BY <1>1, <1>13 DEF d, seqn, Add
<1>17. ReadStep(files, walk, s) = h[Len(s.refs)]
  BY <1>2, <1>14 DEF d
<1> QED  BY <1>15, <1>16, <1>17

LEMMA StepKeeps ==
    ASSUME NEW files, NEW walk \in Walks, NEW s \in SasStatements
    PROVE  ReadStep(files, walk, s) \in Walks /\ SameSearches(walk, ReadStep(files, walk, s))
<1> DEFINE n == Len(s.refs)
<1>1. n \in Nat
  BY StatementIs, LenProperties
<1>2. PICK h \in [0..n -> Walks] :
         /\ h[0] = walk
         /\ \A k \in 1..n : h[k] = ReadRef(files, h[k - 1], s, k)
         /\ ReadStep(files, walk, s) = h[n]
  BY StepIsRead
<1> DEFINE B == {k \in 0..n : SameSearches(walk, h[k])}
<1>3. 0 \in B
  BY <1>1, <1>2 DEF SameSearches
<1>4. ASSUME NEW k \in 1..n, k - 1 \in B PROVE k \in B
  <2>1. h[k - 1] \in Walks /\ SameSearches(walk, h[k - 1]) /\ k \in 0..n
    BY <1>1, <1>2, <1>4
  <2>2. SameSearches(h[k - 1], h[k])
    BY <1>2, <2>1, ReadRefIs
  <2> QED  BY <2>1, <2>2 DEF SameSearches
<1>5. \A k \in 0..n : k \in B
  <2> HIDE DEF B
  <2> QED  BY <1>1, <1>3, <1>4, UpTo
<1> QED  BY <1>1, <1>2, <1>5

LEMMA WritesAre ==
    ASSUME NEW s \in SasStatements
    PROVE  WritesOf(s) \in SUBSET DataSets
<1>1. Range(s.refs) \in SUBSET DataSetRefs
  BY StatementIs, RangeOfSeq
<1>2. \A r \in DataSetRefs : NameOf(r) \in DataSets
  BY RefIs DEF NameOf, DataSets
<1> QED  BY <1>1, <1>2 DEF WritesOf

LEMMA StatementKeepsWalk ==
    ASSUME NEW files, NEW walk \in Walks, NEW s \in SasStatements
    PROVE  LET after == WalkStatement(files, walk, s)
           IN  /\ after \in Walks /\ after.file = walk.file
               /\ s.st \in {"libname", "setenv"} => after = Bind(walk, s)
               /\ s.st \notin {"libname", "setenv"} => after.bound = walk.bound /\ after.env = walk.env
               /\ after.cwd = IF s.st = "cd" THEN ChangeDirectory(walk.cwd, s.path) ELSE walk.cwd
               /\ after.named = IF s.st = "step" THEN ReadStep(files, walk, s).named ELSE walk.named
               /\ after.here = IF s.st = "step" THEN walk.here \cup WritesOf(s) ELSE walk.here
<1>1. walk.cwd \in Paths /\ ChangeDirectory(walk.cwd, s.path) \in Paths
  BY StatementIs, PlacesAre DEF Walks
<1>2. CASE s.st \in {"libname", "setenv"}
  <2>1. WalkStatement(files, walk, s) = Bind(walk, s)
    BY <1>2 DEF WalkStatement
  <2>2. /\ Bind(walk, s) \in Walks
        /\ Bind(walk, s) = [walk EXCEPT !.env = Bind(walk, s).env, !.bound = Bind(walk, s).bound]
    BY BindIs
  <2> DEFINE after == Bind(walk, s)
  <2>3. after.file = walk.file /\ after.cwd = walk.cwd /\ after.named = walk.named /\ after.here = walk.here
    <3> HIDE DEF after
    <3>1. after = [walk EXCEPT !.env = after.env, !.bound = after.bound]
      BY <2>2 DEF after
    <3> QED  BY <3>1 DEF Walks
  <2> QED  BY <1>2, <2>1, <2>2, <2>3
<1>3. CASE s.st = "cd"
  <2>1. WalkStatement(files, walk, s) = [walk EXCEPT !.cwd = ChangeDirectory(walk.cwd, s.path)]
    BY <1>3 DEF WalkStatement, Walks
  <2> QED  BY <1>1, <1>3, <2>1 DEF Walks
<1>4. CASE s.st = "step"
  <2> DEFINE read == ReadStep(files, walk, s)
  <2>1. read \in Walks /\ SameSearches(walk, read) /\ WritesOf(s) \in SUBSET DataSets
    BY StepKeeps, WritesAre
  <2>2. WalkStatement(files, walk, s) = [read EXCEPT !.here = read.here \cup WritesOf(s)]
    BY <1>4, <2>1 DEF WalkStatement, Walks
  <2> HIDE DEF read
  <2>3. /\ WalkStatement(files, walk, s) \in Walks
        /\ WalkStatement(files, walk, s).named = read.named
        /\ WalkStatement(files, walk, s).here = read.here \cup WritesOf(s)
        /\ WalkStatement(files, walk, s).cwd = read.cwd /\ WalkStatement(files, walk, s).file = read.file
        /\ WalkStatement(files, walk, s).bound = read.bound /\ WalkStatement(files, walk, s).env = read.env
    BY <2>1, <2>2 DEF Walks
  <2> QED  BY <1>4, <2>1, <2>3 DEF SameSearches, read
<1>5. CASE s.st = "infile"
  BY <1>5 DEF WalkStatement
<1> QED  BY <1>2, <1>3, <1>4, <1>5, StatementIs

AtFile(walk, f) == [walk EXCEPT !.file = f, !.here = {}]

LEMMA FileStartIs ==
    ASSUME NEW walk \in Walks, NEW f \in Nat
    PROVE  LET start == AtFile(walk, f)
           IN  /\ start \in Walks /\ start.file = f /\ start.here = {} /\ start.cwd = walk.cwd
               /\ start.bound = walk.bound /\ start.env = walk.env /\ start.named = walk.named
BY DEF AtFile, Walks

\* A file, statement by statement.
LEMMA FileIsWalked ==
    ASSUME NEW files, NEW walk \in Walks, NEW at \in Nat, files[at] \in Seq(SasStatements)
    PROVE  \E h \in [0..Len(files[at]) -> Walks] :
              /\ h[0] = AtFile(walk, at)
              /\ \A k \in 1..Len(files[at]) : h[k] = WalkStatement(files, h[k - 1], files[at][k])
              /\ WalkFile(files, walk, at) = h[Len(files[at])]
<1> DEFINE d == Len(files[at])
           S == Walks
           base == AtFile(walk, at)
           seqn == files[at]
           Add(v, e) == WalkStatement(files, v, e)
           step == [z \in (1..d) \X S |-> Add(z[2], seqn[z[1]])]
           Eqn(f) == f = [J \in SUBSET (1..d) |->
                            IF J = {} THEN base ELSE Add(f[J \ {Max(J)}], seqn[Max(J)])]
           c == CHOOSE f : Eqn(f)
<1>1. d \in Nat /\ DOMAIN seqn = 1..d
  BY LenProperties
<1>2. WalkFile(files, walk, at) = c[1..d]
  BY <1>1 DEF WalkFile, AtFile, FoldLeft, MapThenFoldSet
<1>3. base \in S
  BY FileStartIs
<1>4. ASSUME NEW v \in S, NEW k \in 1..d PROVE Add(v, seqn[k]) \in S
  <2>1. files[at][k] \in SasStatements
    BY ElementOfSeq
  <2> QED  BY <2>1, StatementKeepsWalk
<1> HIDE DEF Add
<1>5. step \in [(1..d) \X S -> S]
  <2> HIDE DEF S, d, seqn
  <2> QED  BY <1>4
<1>6. \A k \in 1..d : \A v \in S : step[<<k, v>>] = Add(v, seqn[k])
  OBVIOUS
<1> HIDE DEF step, d, S, base, seqn
<1>7. PICK f : FoldsLeft(f, d, S, base, step)
  BY <1>1, <1>3, <1>5, FoldLeftExists
<1>8. Eqn(f)
  <2>1. \A J \in SUBSET (1..d) : J # {} => Max(J) \in 1..d /\ f[J \ {Max(J)}] \in S
    BY <1>1, <1>7, LargestOf DEF FoldsLeft
  <2>2. \A J \in SUBSET (1..d) :
           f[J] = IF J = {} THEN base ELSE Add(f[J \ {Max(J)}], seqn[Max(J)])
    BY <1>1, <1>6, <1>7, <2>1 DEF FoldsLeft
  <2> QED  BY <1>7, <2>2 DEF FoldsLeft
<1>9. Eqn(c)
  <2> HIDE DEF Eqn
  <2> QED  BY <1>8
<1>10. \A J \in SUBSET (1..d) :
          c[J] = IF J = {} THEN base ELSE Add(c[J \ {Max(J)}], seqn[Max(J)])
  <2> HIDE DEF c
  <2> QED  BY <1>9
<1> HIDE DEF c, Eqn
<1>11. /\ c[{}] = base
       /\ \A k \in 1..d : c[1..(k - 1)] \in S => c[1..k] \in S
       /\ \A k \in 1..d : c[1..k] = Add(c[1..(k - 1)], seqn[k])
  <2>1. ASSUME NEW k \in 1..d PROVE c[1..k] = Add(c[1..(k - 1)], seqn[k])
    <3>1. k \in Nat /\ k # 0 /\ (1..k) \in SUBSET (1..d)
      BY <1>1
    <3>2. Max(1..k) = k /\ (1..k) \ {k} = 1..(k - 1) /\ 1..k # {}
      BY <3>1, PlacesUpTo
    <3> QED  BY <1>10, <3>1, <3>2
  <2>2. \A k \in 1..d : c[1..(k - 1)] \in S => c[1..k] \in S
    BY <1>4, <2>1
  <2> QED  BY <1>10, <2>1, <2>2
<1>12. PICK h \in [0..d -> S] : h[0] = c[{}] /\ \A k \in 0..d : h[k] = c[1..k]
  <2>1. d \in Nat /\ c[{}] \in S
    BY <1>1, <1>3, <1>11
  <2>2. Stays(c, d, S)
    BY <1>11 DEF Stays
  <2> QED  BY <2>1, <2>2, StatesUpTo
<1>13. \A k \in 1..d : h[k] = Add(h[k - 1], seqn[k])
  <2>1. \A k \in 1..d : k \in 0..d /\ k - 1 \in 0..d
    BY <1>1
  <2> QED  BY <1>11, <1>12, <2>1
<1>14. c[1..d] = h[d]
  BY <1>1, <1>12
<1>15. h \in [0..Len(files[at]) -> Walks] /\ h[0] = AtFile(walk, at)
  BY <1>11, <1>12 DEF d, S, base
<1>16. \A k \in 1..Len(files[at]) : h[k] = WalkStatement(files, h[k - 1], files[at][k])
  BY <1>1, <1>13 DEF d, seqn, Add
<1>17. WalkFile(files, walk, at) = h[Len(files[at])]
  BY <1>2, <1>14 DEF d
<1> QED  BY <1>15, <1>16, <1>17

StartWalk ==
    [cwd |-> NoPath, bound |-> << >>, env |-> << >>, file |-> 0, here |-> {},
     named |-> << >>, listed |-> {}, covered |-> {}, unassigned |-> << >>,
     unknown |-> FALSE]

LEMMA StartIsWalk == StartWalk \in Walks
<1>1. << >> \in [{} -> Seq(LibraryRecs)]
  <2>1. DOMAIN << >> = {}
    OBVIOUS
  <2> QED  BY <2>1
<1>2. << >> \in Searches
  BY <1>1 DEF Searches
<1>3. << >> \in Seq(NamedRecs) /\ << >> \in Seq(STRING)
  BY EmptySeq
<1> QED  BY <1>2, <1>3, PathsAre DEF StartWalk, Walks

LEMMA FileKeepsWalk ==
    ASSUME NEW files, NEW walk \in Walks, NEW f \in Nat, files[f] \in Seq(SasStatements)
    PROVE  WalkFile(files, walk, f) \in Walks
<1>1. Len(files[f]) \in Nat
  BY LenProperties
<1>2. PICK h \in [0..Len(files[f]) -> Walks] : WalkFile(files, walk, f) = h[Len(files[f])]
  BY FileIsWalked
<1> QED  BY <1>1, <1>2

\* A corpus, file by file.
LEMMA CorpusIsWalked ==
    ASSUME NEW files \in SasCorpora
    PROVE  \E h \in [0..Len(files) -> Walks] :
              /\ h[0] = StartWalk
              /\ \A k \in 1..Len(files) : h[k] = WalkFile(files, h[k - 1], k)
              /\ Members(files) = h[Len(files)]
<1> DEFINE d == Len(files)
           S == Walks
           base == StartWalk
           seqn == [f \in DOMAIN files |-> f]
           Add(v, e) == WalkFile(files, v, e)
           step == [z \in (1..d) \X S |-> Add(z[2], seqn[z[1]])]
           Eqn(f) == f = [J \in SUBSET (1..d) |->
                            IF J = {} THEN base ELSE Add(f[J \ {Max(J)}], seqn[Max(J)])]
           c == CHOOSE f : Eqn(f)
<1>1. d \in Nat /\ DOMAIN seqn = 1..d /\ \A k \in 1..d : seqn[k] = k
  BY LenProperties DEF SasCorpora
<1>2. Members(files) = c[1..d]
  BY <1>1 DEF Members, StartWalk, FoldLeft, MapThenFoldSet
<1>3. base \in S
  BY StartIsWalk
<1>4. ASSUME NEW v \in S, NEW k \in 1..d PROVE Add(v, seqn[k]) \in S
  <2> HIDE DEF Add
  <2>1. Add(v, seqn[k]) = WalkFile(files, v, k)
    BY <1>1 DEF Add
  <2>2. files[k] \in Seq(SasStatements) /\ k \in Nat
    BY ElementOfSeq, LenProperties DEF SasCorpora
  <2> QED  BY <2>1, <2>2, FileKeepsWalk
<1> HIDE DEF Add
<1>5. step \in [(1..d) \X S -> S]
  <2> HIDE DEF S, d, seqn
  <2> QED  BY <1>4
<1>6. \A k \in 1..d : \A v \in S : step[<<k, v>>] = Add(v, seqn[k])
  OBVIOUS
<1> HIDE DEF step, d, S, base, seqn
<1>7. PICK f : FoldsLeft(f, d, S, base, step)
  BY <1>1, <1>3, <1>5, FoldLeftExists
<1>8. Eqn(f)
  <2>1. \A J \in SUBSET (1..d) : J # {} => Max(J) \in 1..d /\ f[J \ {Max(J)}] \in S
    BY <1>1, <1>7, LargestOf DEF FoldsLeft
  <2>2. \A J \in SUBSET (1..d) :
           f[J] = IF J = {} THEN base ELSE Add(f[J \ {Max(J)}], seqn[Max(J)])
    BY <1>1, <1>6, <1>7, <2>1 DEF FoldsLeft
  <2> QED  BY <1>7, <2>2 DEF FoldsLeft
<1>9. Eqn(c)
  <2> HIDE DEF Eqn
  <2> QED  BY <1>8
<1>10. \A J \in SUBSET (1..d) :
          c[J] = IF J = {} THEN base ELSE Add(c[J \ {Max(J)}], seqn[Max(J)])
  <2> HIDE DEF c
  <2> QED  BY <1>9
<1> HIDE DEF c, Eqn
<1>11. /\ c[{}] = base
       /\ \A k \in 1..d : c[1..(k - 1)] \in S => c[1..k] \in S
       /\ \A k \in 1..d : c[1..k] = Add(c[1..(k - 1)], seqn[k])
  <2>1. ASSUME NEW k \in 1..d PROVE c[1..k] = Add(c[1..(k - 1)], seqn[k])
    <3>1. k \in Nat /\ k # 0 /\ (1..k) \in SUBSET (1..d)
      BY <1>1
    <3>2. Max(1..k) = k /\ (1..k) \ {k} = 1..(k - 1) /\ 1..k # {}
      BY <3>1, PlacesUpTo
    <3> QED  BY <1>10, <3>1, <3>2
  <2>2. \A k \in 1..d : c[1..(k - 1)] \in S => c[1..k] \in S
    BY <1>4, <2>1
  <2> QED  BY <1>10, <2>1, <2>2
<1>12. PICK h \in [0..d -> S] : h[0] = c[{}] /\ \A k \in 0..d : h[k] = c[1..k]
  <2>1. d \in Nat /\ c[{}] \in S
    BY <1>1, <1>3, <1>11
  <2>2. Stays(c, d, S)
    BY <1>11 DEF Stays
  <2> QED  BY <2>1, <2>2, StatesUpTo
<1>13. \A k \in 1..d : h[k] = Add(h[k - 1], seqn[k])
  <2>1. \A k \in 1..d : k \in 0..d /\ k - 1 \in 0..d
    BY <1>1
  <2> QED  BY <1>11, <1>12, <2>1
<1>14. c[1..d] = h[d]
  BY <1>1, <1>12
<1>15. h \in [0..Len(files) -> Walks] /\ h[0] = StartWalk
  BY <1>11, <1>12 DEF d, S, base
<1>16. \A k \in 1..Len(files) : h[k] = WalkFile(files, h[k - 1], k)
  BY <1>1, <1>13 DEF d, seqn, Add
<1>17. Members(files) = h[Len(files)]
  BY <1>2, <1>14 DEF d
<1> QED  BY <1>15, <1>16, <1>17

\* The files, one after the other.
LEMMA FlatIsJoined ==
    ASSUME NEW files \in SasCorpora
    PROVE  \E h \in [0..Len(files) -> Seq(SasStatements)] :
              /\ h[0] = << >>
              /\ \A k \in 1..Len(files) : h[k] = h[k - 1] \o files[k]
              /\ Flat(files) = h[Len(files)]
<1> DEFINE d == Len(files)
           S == Seq(SasStatements)
           base == << >>
           seqn == files
           Add(v, e) == v \o e
           step == [z \in (1..d) \X S |-> Add(z[2], seqn[z[1]])]
           Eqn(f) == f = [J \in SUBSET (1..d) |->
                            IF J = {} THEN base ELSE Add(f[J \ {Max(J)}], seqn[Max(J)])]
           c == CHOOSE f : Eqn(f)
<1>1. d \in Nat /\ DOMAIN seqn = 1..d
  BY LenProperties DEF SasCorpora
<1>2. Flat(files) = c[1..d]
  BY <1>1 DEF Flat, FoldLeft, MapThenFoldSet
<1>3. base \in S
  BY EmptySeq
<1>4. ASSUME NEW v \in S, NEW k \in 1..d PROVE Add(v, seqn[k]) \in S
  <2>1. files[k] \in Seq(SasStatements)
    BY ElementOfSeq, LenProperties DEF SasCorpora
  <2> QED  BY <2>1, ConcatProperties
<1> HIDE DEF Add
<1>5. step \in [(1..d) \X S -> S]
  <2> HIDE DEF S, d, seqn
  <2> QED  BY <1>4
<1>6. \A k \in 1..d : \A v \in S : step[<<k, v>>] = Add(v, seqn[k])
  OBVIOUS
<1> HIDE DEF step, d, S, base, seqn
<1>7. PICK f : FoldsLeft(f, d, S, base, step)
  BY <1>1, <1>3, <1>5, FoldLeftExists
<1>8. Eqn(f)
  <2>1. \A J \in SUBSET (1..d) : J # {} => Max(J) \in 1..d /\ f[J \ {Max(J)}] \in S
    BY <1>1, <1>7, LargestOf DEF FoldsLeft
  <2>2. \A J \in SUBSET (1..d) :
           f[J] = IF J = {} THEN base ELSE Add(f[J \ {Max(J)}], seqn[Max(J)])
    BY <1>1, <1>6, <1>7, <2>1 DEF FoldsLeft
  <2> QED  BY <1>7, <2>2 DEF FoldsLeft
<1>9. Eqn(c)
  <2> HIDE DEF Eqn
  <2> QED  BY <1>8
<1>10. \A J \in SUBSET (1..d) :
          c[J] = IF J = {} THEN base ELSE Add(c[J \ {Max(J)}], seqn[Max(J)])
  <2> HIDE DEF c
  <2> QED  BY <1>9
<1> HIDE DEF c, Eqn
<1>11. /\ c[{}] = base
       /\ \A k \in 1..d : c[1..(k - 1)] \in S => c[1..k] \in S
       /\ \A k \in 1..d : c[1..k] = Add(c[1..(k - 1)], seqn[k])
  <2>1. ASSUME NEW k \in 1..d PROVE c[1..k] = Add(c[1..(k - 1)], seqn[k])
    <3>1. k \in Nat /\ k # 0 /\ (1..k) \in SUBSET (1..d)
      BY <1>1
    <3>2. Max(1..k) = k /\ (1..k) \ {k} = 1..(k - 1) /\ 1..k # {}
      BY <3>1, PlacesUpTo
    <3> QED  BY <1>10, <3>1, <3>2
  <2>2. \A k \in 1..d : c[1..(k - 1)] \in S => c[1..k] \in S
    BY <1>4, <2>1
  <2> QED  BY <1>10, <2>1, <2>2
<1>12. PICK h \in [0..d -> S] : h[0] = c[{}] /\ \A k \in 0..d : h[k] = c[1..k]
  <2>1. d \in Nat /\ c[{}] \in S
    BY <1>1, <1>3, <1>11
  <2>2. Stays(c, d, S)
    BY <1>11 DEF Stays
  <2> QED  BY <2>1, <2>2, StatesUpTo
<1>13. \A k \in 1..d : h[k] = Add(h[k - 1], seqn[k])
  <2>1. \A k \in 1..d : k \in 0..d /\ k - 1 \in 0..d
    BY <1>1
  <2> QED  BY <1>11, <1>12, <2>1
<1>14. c[1..d] = h[d]
  BY <1>1, <1>12
<1>15. h \in [0..Len(files) -> Seq(SasStatements)] /\ h[0] = << >>
  BY <1>11, <1>12 DEF d, S, base
<1>16. \A k \in 1..Len(files) : h[k] = h[k - 1] \o files[k]
  BY <1>1, <1>13 DEF d, seqn, Add
<1>17. Flat(files) = h[Len(files)]
  BY <1>2, <1>14 DEF d
<1> QED  BY <1>15, <1>16, <1>17

-----------------------------------------------------------------------------
(* The places of a corpus *)

\* off[k] statements of flat come from the first k files.
Joins(files, flat, off) ==
    /\ flat \in Seq(SasStatements) /\ off \in [0..Len(files) -> Nat]
    /\ off[0] = 0 /\ off[Len(files)] = Len(flat)
    /\ \A k \in 1..Len(files) : off[k] = off[k - 1] + Len(files[k])
    /\ \A j, k \in 0..Len(files) : j <= k => off[j] <= off[k]
    /\ \A k \in 1..Len(files) : \A i \in 1..Len(files[k]) :
          off[k - 1] + i \in 1..Len(flat) /\ flat[off[k - 1] + i] = files[k][i]

LEMMA FilesAreJoined ==
    ASSUME NEW files \in SasCorpora
    PROVE  \E off : Joins(files, Flat(files), off)
<1> DEFINE n == Len(files)
<1>1. n \in Nat /\ \A k \in 1..n : files[k] \in Seq(SasStatements) /\ Len(files[k]) \in Nat
  BY LenProperties, ElementOfSeq DEF SasCorpora
<1>2. PICK h \in [0..n -> Seq(SasStatements)] :
         /\ h[0] = << >>
         /\ \A k \in 1..n : h[k] = h[k - 1] \o files[k]
         /\ Flat(files) = h[n]
  BY FlatIsJoined
<1> DEFINE off == [k \in 0..n |-> Len(h[k])]
           Good(k) == \A j \in 0..k : /\ Len(h[j]) <= Len(h[k])
                                      /\ \A x \in 1..Len(h[j]) : h[k][x] = h[j][x]
           B == {k \in 0..n : Good(k)}
<1>3. \A k \in 0..n : Len(h[k]) \in Nat
  BY <1>2, LenProperties
<1>4. ASSUME NEW k \in 1..n
      PROVE  /\ k - 1 \in 0..n /\ k \in 0..n /\ Len(h[k]) = Len(h[k - 1]) + Len(files[k])
             /\ \A x \in 1..Len(h[k - 1]) : h[k][x] = h[k - 1][x]
             /\ \A i \in 1..Len(files[k]) : h[k][Len(h[k - 1]) + i] = files[k][i]
  <2>1. k - 1 \in 0..n /\ k \in 0..n
    BY <1>1
  <2> DEFINE s1 == h[k - 1]
             s2 == files[k]
  <2>2. s1 \in Seq(SasStatements) /\ s2 \in Seq(SasStatements) /\ h[k] = s1 \o s2
    BY <1>1, <1>2, <2>1
  <2> HIDE DEF s1, s2
  <2>3. /\ Len(s1 \o s2) = Len(s1) + Len(s2) /\ Len(s1) \in Nat /\ Len(s2) \in Nat
        /\ \A i \in 1..Len(s1) + Len(s2) : (s1 \o s2)[i] = IF i <= Len(s1) THEN s1[i] ELSE s2[i - Len(s1)]
    BY <2>2, ConcatProperties, LenProperties
  <2>4. \A x \in 1..Len(s1) : (s1 \o s2)[x] = s1[x]
    BY <2>3
  <2>5. ASSUME NEW i \in 1..Len(s2) PROVE (s1 \o s2)[Len(s1) + i] = s2[i]
    <3>1. Len(s1) + i \in 1..Len(s1) + Len(s2) /\ ~(Len(s1) + i <= Len(s1)) /\ (Len(s1) + i) - Len(s1) = i
      BY <2>3
    <3> QED  BY <2>3, <3>1
  <2> QED  BY <2>1, <2>2, <2>3, <2>4, <2>5 DEF s1, s2
<1>5. 0 \in B
  BY <1>1
<1>6. ASSUME NEW k \in 1..n, k - 1 \in B PROVE k \in B
  <2>1. Good(k - 1)
    BY <1>6
  <2>2. ASSUME NEW j \in 0..k
        PROVE  Len(h[j]) <= Len(h[k]) /\ \A x \in 1..Len(h[j]) : h[k][x] = h[j][x]
    <3>1. CASE j = k
      BY <1>3, <1>4, <3>1
    <3>2. CASE j # k
      <4>1. j \in 0..(k - 1) /\ j \in 0..n
        BY <1>1, <3>2
      <4>2. Len(h[j]) <= Len(h[k - 1]) /\ \A x \in 1..Len(h[j]) : h[k - 1][x] = h[j][x]
        BY <2>1, <4>1
      <4>3. Len(h[j]) \in Nat /\ Len(h[k - 1]) \in Nat /\ Len(files[k]) \in Nat
        BY <1>1, <1>3, <1>4, <4>1
      <4>4. \A x \in 1..Len(h[j]) : x \in 1..Len(h[k - 1])
        BY <4>2, <4>3
      <4>5. Len(h[k]) = Len(h[k - 1]) + Len(files[k])
        BY <1>4
      <4>6. \A x \in 1..Len(h[j]) : h[k][x] = h[j][x]
        <5>1. \A x \in 1..Len(h[k - 1]) : h[k][x] = h[k - 1][x]
          BY <1>4
        <5> HIDE DEF n
        <5> QED  BY <4>2, <4>4, <5>1
      <4>7. Len(h[j]) <= Len(h[k])
        <5> DEFINE a == Len(h[j])
                   b == Len(h[k - 1])
                   m == Len(files[k])
        <5>1. a \in Nat /\ b \in Nat /\ m \in Nat /\ a <= b /\ Len(h[k]) = b + m
          BY <4>2, <4>3, <4>5
        <5> HIDE DEF a, b, m
        <5>2. a <= b + m
          BY <5>1
        <5> QED  BY <5>1, <5>2 DEF a
      <4> QED  BY <4>6, <4>7
    <3> QED  BY <3>1, <3>2
  <2> QED  BY <1>4, <2>2
<1>7. \A k \in 0..n : Good(k)
  <2>1. \A k \in 0..n : k \in B
    <3> HIDE DEF B
    <3> QED  BY <1>1, <1>5, <1>6, UpTo
  <2> QED  BY <2>1
<1>8. /\ off \in [0..n -> Nat] /\ off[0] = 0 /\ off[n] = Len(Flat(files))
      /\ \A k \in 0..n : off[k] = Len(h[k])
  BY <1>1, <1>2, <1>3
<1>9. \A j, k \in 0..n : j <= k => off[j] <= off[k]
  <2>1. \A j, k \in 0..n : j <= k => j \in 0..k
    BY <1>1
  <2> QED  BY <1>7, <1>8, <2>1
<1> HIDE DEF off
<1>10. ASSUME NEW k \in 1..n, NEW i \in 1..Len(files[k])
       PROVE  off[k - 1] + i \in 1..off[n] /\ Flat(files)[off[k - 1] + i] = files[k][i]
  <2> DEFINE x == Len(h[k - 1]) + i
  <2>1. /\ Len(h[k - 1]) \in Nat /\ Len(files[k]) \in Nat /\ k - 1 \in 0..n /\ k \in 0..n /\ n \in 0..n
        /\ Len(h[k]) = Len(h[k - 1]) + Len(files[k]) /\ Len(h[k]) <= Len(h[n]) /\ Len(h[n]) \in Nat
    <3>1. k \in 0..n /\ n \in 0..n /\ k - 1 \in 0..n
      BY <1>1
    <3>2. Len(h[k]) <= Len(h[n])
      <4>1. Good(n)
        BY <1>7, <3>1
      <4> QED  BY <3>1, <4>1
    <3> QED  BY <1>1, <1>3, <1>4, <3>1, <3>2
  <2>2. x \in 1..Len(h[k]) /\ x \in 1..Len(h[n])
    <3> DEFINE a == Len(h[k - 1])
               b == Len(h[k])
               m == Len(files[k])
               z == Len(h[n])
    <3>1. a \in Nat /\ m \in Nat /\ z \in Nat /\ b = a + m /\ b <= z /\ x = a + i /\ i \in 1..m
      BY <2>1
    <3> HIDE DEF a, b, m, z, x
    <3>2. x \in 1..b /\ x \in 1..z
      BY <3>1
    <3> QED  BY <3>2 DEF b, z
  <2>3. h[k][x] = files[k][i]
    BY <1>4
  <2>4. h[n][x] = h[k][x]
    <3>1. Good(n)
      BY <1>7, <2>1
    <3> HIDE DEF x
    <3> QED  BY <2>1, <2>2, <3>1
  <2>5. off[k - 1] + i = x /\ off[n] = Len(h[n])
    BY <1>8, <2>1
  <2> HIDE DEF x
  <2> QED  BY <1>2, <2>2, <2>3, <2>4, <2>5
<1>11. \A k \in 1..n : off[k] = off[k - 1] + Len(files[k])
  BY <1>4, <1>8
<1>12. Flat(files) \in Seq(SasStatements)
  <2>1. n \in 0..n
    BY <1>1
  <2> QED  BY <1>2, <2>1
<1>13. \A k \in 1..n : \A i \in 1..Len(files[k]) :
          off[k - 1] + i \in 1..Len(Flat(files)) /\ Flat(files)[off[k - 1] + i] = files[k][i]
  BY <1>8, <1>10
<1>14. off \in [0..n -> Nat] /\ off[0] = 0 /\ off[n] = Len(Flat(files))
  BY <1>8
<1>15. Joins(files, Flat(files), off)
  BY <1>9, <1>11, <1>12, <1>13, <1>14 DEF Joins
<1> QED  BY <1>15

\* A statement of another file is at another place.
Elsewhere(files, file, flat, g) ==
    \A f \in DOMAIN files \ {file} : \A s \in Range(files[f]) :
        \E x \in DOMAIN flat : x # g /\ flat[x] = s

LEMMA OthersAreElsewhere ==
    ASSUME NEW files \in SasCorpora, NEW flat, NEW off, Joins(files, flat, off),
           NEW f \in 1..Len(files), NEW i \in 1..Len(files[f])
    PROVE  Elsewhere(files, f, flat, off[f - 1] + i)
<1> DEFINE n == Len(files)
<1>1. n \in Nat /\ DOMAIN files = 1..n /\ \A k \in 1..n : files[k] \in Seq(SasStatements)
  BY LenProperties, ElementOfSeq DEF SasCorpora
<1>2. /\ \A k \in 1..n : Len(files[k]) \in Nat /\ DOMAIN files[k] = 1..Len(files[k])
      /\ DOMAIN flat = 1..Len(flat)
  <2>1. flat \in Seq(SasStatements)
    BY DEF Joins
  <2>2. DOMAIN flat = 1..Len(flat)
    BY <2>1, LenProperties
  <2>3. ASSUME NEW k \in 1..n PROVE Len(files[k]) \in Nat /\ DOMAIN files[k] = 1..Len(files[k])
    <3>1. files[k] \in Seq(SasStatements)
      BY <1>1
    <3> QED  BY <3>1, LenProperties
  <2> QED  BY <2>2, <2>3
<1>3. SUFFICES ASSUME NEW e \in 1..n, e # f, NEW y \in 1..Len(files[e])
               PROVE  \E x \in DOMAIN flat : x # off[f - 1] + i /\ flat[x] = files[e][y]
  <2>1. ASSUME NEW e \in DOMAIN files \ {f}, NEW s \in Range(files[e])
        PROVE  e \in 1..n /\ e # f /\ \E y \in 1..Len(files[e]) : s = files[e][y]
    BY <1>1, <1>2, <2>1 DEF Range
  <2> QED  BY <2>1 DEF Elsewhere
<1>4. off[e - 1] + y \in DOMAIN flat /\ flat[off[e - 1] + y] = files[e][y]
  BY <1>2 DEF Joins
<1>5. off[e - 1] + y # off[f - 1] + i
  <2>1. /\ e - 1 \in 0..n /\ e \in 0..n /\ f - 1 \in 0..n /\ f \in 0..n
        /\ e \in Int /\ f \in Int
    BY <1>1
  <2>2. /\ off[e - 1] \in Nat /\ off[f - 1] \in Nat
        /\ off[e] = off[e - 1] + Len(files[e]) /\ off[f] = off[f - 1] + Len(files[f])
        /\ Len(files[e]) \in Nat /\ Len(files[f]) \in Nat
    BY <1>2, <2>1 DEF Joins
  <2>3. CASE e < f
    <3>1. e <= f - 1
      BY <2>1, <2>3
    <3>2. off[e] <= off[f - 1]
      BY <2>1, <3>1 DEF Joins
    <3> QED  BY <2>2, <3>2
  <2>4. CASE f < e
    <3>1. f <= e - 1
      BY <2>1, <2>4
    <3>2. off[f] <= off[e - 1]
      BY <2>1, <3>1 DEF Joins
    <3> QED  BY <2>2, <3>2
  <2> QED  BY <1>3, <2>1, <2>3, <2>4
<1> QED  BY <1>4, <1>5

-----------------------------------------------------------------------------
(* The searches of the walk are those of the session *)

\* Statement h assigns the directory place to its libref.
Declares(flat, h, place) ==
    /\ flat[h].st \in {"libname", "setenv"} /\ flat[h].engine = "base" /\ flat[h].other = ""
    /\ place = LibraryOf(CwdAt(flat, h), flat[h])

PlacesFit(flat, g, places) ==
    \A p \in Range(places) : p.dir = NoPath \/ \E h \in 1..g : Declares(flat, h, p)

AssignedBase(flat, g, l) == \E h \in 1..g : flat[h].libref = l /\ flat[h].engine = "base"

\* The LIBNAME in force for l names one directory.
NamesDirectory(flat, g, l) ==
    LET j == LibnameAt(flat, g, l)
    IN  j # 0 /\ flat[j].engine = "base" /\ flat[j].other = ""

FirstIs(flat, g, l, places) ==
    LET j == LibnameAt(flat, g, l)
    IN  places # << >> /\ places[1] = LibraryOf(CwdAt(flat, j), flat[j])

\* walk has passed the first g statements.
SearchesFit(flat, g, walk) ==
    /\ walk.cwd = CwdAt(flat, g + 1)
    /\ \A l \in DOMAIN walk.bound : /\ PlacesFit(flat, g, walk.bound[l])
                                    /\ walk.bound[l] # << >> => AssignedBase(flat, g, l)
    /\ \A l \in DOMAIN walk.env : PlacesFit(flat, g, walk.env[l]) /\ AssignedBase(flat, g, l)
    /\ \A l : NamesDirectory(flat, g + 1, l) =>
                  l \in DOMAIN walk.bound /\ FirstIs(flat, g + 1, l, walk.bound[l])

LEMMA FitsLater ==
    ASSUME NEW flat, NEW g \in Nat, g # 0
    PROVE  /\ \A places : PlacesFit(flat, g - 1, places) => PlacesFit(flat, g, places)
           /\ \A l : AssignedBase(flat, g - 1, l) => AssignedBase(flat, g, l)
<1>1. 1..(g - 1) \subseteq 1..g
  OBVIOUS
<1> QED  BY <1>1 DEF PlacesFit, AssignedBase

LEMMA SearchFits ==
    ASSUME NEW flat, NEW g, NEW walk \in Walks, SearchesFit(flat, g, walk), NEW l
    PROVE  /\ PlacesFit(flat, g, Search(walk, l))
           /\ Search(walk, l) # << >> => AssignedBase(flat, g, l)
<1>1. PlacesFit(flat, g, << >>)
  BY DEF PlacesFit, Range
<1> QED  BY <1>1 DEF Search, SearchesFit

\* What a LIBNAME adds: the directory it names first, and nothing where it is of
\* another engine.
LEMMA AddedPlacesFit ==
    ASSUME NEW flat \in Seq(SasStatements), NEW g \in 1..Len(flat), NEW walk \in Walks,
           SearchesFit(flat, g - 1, walk), flat[g].st = "libname"
    PROVE  /\ PlacesFit(flat, g, PlacesOf(walk, flat[g]))
           /\ flat[g].engine # "base" => PlacesOf(walk, flat[g]) = << >>
           /\ flat[g].engine = "base" /\ flat[g].other = "" =>
                 PlacesOf(walk, flat[g]) = <<LibraryOf(CwdAt(flat, g), flat[g])>>
<1> DEFINE s == flat[g]
<1>1. /\ g \in Nat /\ g # 0 /\ (g - 1) + 1 = g /\ g \in 1..g
  BY LenProperties
<1>2. walk.cwd = CwdAt(flat, g) /\ s \in SasStatements
  BY <1>1, ElementOfSeq DEF SearchesFit
<1>3. PlacesFit(flat, g, << >>)
  BY DEF PlacesFit, Range
<1>4. PlacesFit(flat, g, Search(walk, s.other))
  BY <1>1, SearchFits, FitsLater
<1>5. PlacesFit(flat, g, <<Outside(s.other)>>)
  <2>1. Range(<<Outside(s.other)>>) = {Outside(s.other)}
    BY OneLong DEF Range
  <2>2. Outside(s.other).dir = NoPath
    BY DEF Outside
  <2> QED  BY <2>1, <2>2 DEF PlacesFit
<1>6. ASSUME s.engine = "base", s.other = "" PROVE PlacesFit(flat, g, <<LibraryOf(CwdAt(flat, g), s)>>)
  <2>1. Range(<<LibraryOf(CwdAt(flat, g), s)>>) = {LibraryOf(CwdAt(flat, g), s)}
    BY OneLong DEF Range
  <2>2. Declares(flat, g, LibraryOf(CwdAt(flat, g), s))
    BY <1>6 DEF Declares
  <2> QED  BY <1>1, <2>1, <2>2 DEF PlacesFit
<1>7. PlacesOf(walk, s) =
         IF s.other \in SasLibraries \/ s.engine # "base" THEN << >>
         ELSE IF s.other # ""
         THEN IF Search(walk, s.other) = << >> THEN <<Outside(s.other)>> ELSE Search(walk, s.other)
         ELSE <<LibraryOf(CwdAt(flat, g), s)>>
  BY <1>2 DEF PlacesOf
<1>8. s.other = "" => s.other \notin SasLibraries
  BY DEF SasLibraries
<1> HIDE DEF s
<1>9. PlacesFit(flat, g, PlacesOf(walk, s))
  BY <1>3, <1>4, <1>5, <1>6, <1>7
<1>10. s.engine # "base" => PlacesOf(walk, s) = << >>
  BY <1>7
<1>11. s.engine = "base" /\ s.other = "" => PlacesOf(walk, s) = <<LibraryOf(CwdAt(flat, g), s)>>
  BY <1>7, <1>8
<1> QED  BY <1>9, <1>10, <1>11 DEF s

\* The library a LIBNAME statement leaves.
BoundTo(walk, s) ==
    Distinct((IF s.joins /\ s.libref \in DOMAIN walk.bound THEN walk.bound[s.libref] ELSE << >>)
             \o PlacesOf(walk, s))

LEMMA BoundFits ==
    ASSUME NEW flat \in Seq(SasStatements), NEW g \in 1..Len(flat), NEW walk \in Walks,
           SearchesFit(flat, g - 1, walk), flat[g].st = "libname",
           flat[g].engine = "base" \/ flat[g].joins
    PROVE  LET L == BoundTo(walk, flat[g])
               l == flat[g].libref
           IN  /\ L \in Seq(LibraryRecs) /\ PlacesFit(flat, g, L)
               /\ L # << >> => AssignedBase(flat, g, l)
               /\ NamesDirectory(flat, g + 1, l) => FirstIs(flat, g + 1, l, L)
<1> DEFINE s == flat[g]
           l == s.libref
           P == PlacesOf(walk, s)
           had == IF s.joins /\ l \in DOMAIN walk.bound THEN walk.bound[l] ELSE << >>
           L == BoundTo(walk, s)
<1>1. /\ g \in Nat /\ g # 0 /\ (g - 1) + 1 = g /\ g \in 1..g /\ s \in SasStatements
  BY LenProperties, ElementOfSeq
<1>2. /\ P \in Seq(LibraryRecs) /\ had \in Seq(LibraryRecs)
  BY <1>1, PlacesOfIs, SearchIs, EmptySeq
<1>3. /\ PlacesFit(flat, g, P)
      /\ s.engine # "base" => P = << >>
      /\ s.engine = "base" /\ s.other = "" => P = <<LibraryOf(CwdAt(flat, g), s)>>
  BY AddedPlacesFit
<1>4. PlacesFit(flat, g, had) /\ (had # << >> => s.joins /\ l \in DOMAIN walk.bound /\ had = walk.bound[l])
  <2>1. PlacesFit(flat, g, << >>)
    BY DEF PlacesFit, Range
  <2>2. l \in DOMAIN walk.bound => PlacesFit(flat, g, walk.bound[l])
    BY <1>1, FitsLater DEF SearchesFit
  <2> HIDE DEF l, s
  <2> QED  BY <2>1, <2>2
<1>5. L = Distinct(had \o P)
  BY DEF BoundTo
<1>6. had # << >> => AssignedBase(flat, g, l)
  BY <1>1, <1>4, FitsLater DEF SearchesFit
<1>7. ASSUME NamesDirectory(flat, g + 1, l)
      PROVE  \/ /\ LibnameAt(flat, g + 1, l) = g /\ had = << >>
                /\ P = <<LibraryOf(CwdAt(flat, g), s)>>
             \/ had # << >> /\ FirstIs(flat, g + 1, l, had)
  <2>1. LibnameAt(flat, g + 1, l) = IF ~s.joins THEN g ELSE LibnameAt(flat, g, l)
    BY InForceAfter
  <2>2. CASE ~s.joins
    BY <1>3, <1>7, <2>1, <2>2 DEF NamesDirectory
  <2>3. CASE s.joins
    <3>1. LibnameAt(flat, g + 1, l) = LibnameAt(flat, g, l)
      BY <2>1, <2>3
    <3>2. NamesDirectory(flat, g, l)
      BY <1>7, <3>1 DEF NamesDirectory
    <3>3. l \in DOMAIN walk.bound /\ FirstIs(flat, g, l, walk.bound[l])
      <4> HIDE DEF l
      <4> QED  BY <1>1, <3>2 DEF SearchesFit
    <3>4. had = walk.bound[l]
      BY <2>3, <3>3
    <3> HIDE DEF had
    <3> QED  BY <3>1, <3>3, <3>4 DEF FirstIs
  <2> QED  BY <2>2, <2>3
<1> HIDE DEF had, P, L
<1>8. /\ had \o P \in Seq(LibraryRecs) /\ Range(had \o P) = Range(had) \cup Range(P)
      /\ had \o P = << >> <=> had = << >> /\ P = << >>
  BY <1>2, ConcatProperties, RangeConcatenation, ConcatEqualIffEmpty
<1>9. had # << >> => (had \o P)[1] = had[1]
  <2>1. Len(had) \in Nat /\ Len(P) \in Nat /\ (had # << >> => Len(had) # 0)
    BY <1>2, LenProperties, EmptySeq
  <2>2. had # << >> => 1 \in 1..Len(had) + Len(P) /\ 1 <= Len(had)
    BY <2>1
  <2> QED  BY <1>2, <2>2, ConcatProperties
<1>10. had = << >> => had \o P = P
  BY <1>2, ConcatEmptySeq
<1>11. /\ L \in Seq(LibraryRecs) /\ Range(L) \subseteq Range(had) \cup Range(P)
       /\ L # << >> <=> had # << >> \/ P # << >>
       /\ L # << >> => L[1] = (had \o P)[1]
  BY <1>5, <1>8, DistinctKeeps
<1>12. PlacesFit(flat, g, L)
  BY <1>3, <1>4, <1>11 DEF PlacesFit
<1>13. L # << >> => AssignedBase(flat, g, l)
  <2>1. P # << >> => AssignedBase(flat, g, l)
    BY <1>1, <1>3 DEF AssignedBase
  <2> QED  BY <1>6, <1>11, <2>1
<1>14. ASSUME NamesDirectory(flat, g + 1, l) PROVE FirstIs(flat, g + 1, l, L)
  <2>1. CASE had # << >> /\ FirstIs(flat, g + 1, l, had)
    BY <1>9, <1>11, <2>1 DEF FirstIs
  <2>2. CASE LibnameAt(flat, g + 1, l) = g /\ had = << >> /\ P = <<LibraryOf(CwdAt(flat, g), s)>>
    <3>1. P # << >> /\ P[1] = LibraryOf(CwdAt(flat, g), s)
      BY <2>2
    <3> QED  BY <1>10, <1>11, <2>2, <3>1 DEF FirstIs
  <2> QED  BY <1>7, <1>14, <2>1, <2>2
<1> QED  BY <1>11, <1>12, <1>13, <1>14 DEF L

LEMMA SearchesMove ==
    ASSUME NEW flat \in Seq(SasStatements), NEW g \in 1..Len(flat), NEW files, NEW walk \in Walks,
           SearchesFit(flat, g - 1, walk)
    PROVE  SearchesFit(flat, g, WalkStatement(files, walk, flat[g]))
<1> DEFINE s == flat[g]
           after == WalkStatement(files, walk, s)
<1>1. /\ g \in Nat /\ g # 0 /\ (g - 1) + 1 = g /\ g \in 1..g /\ s \in SasStatements
  BY LenProperties, ElementOfSeq
<1>2. after.cwd = CwdAt(flat, g + 1)
  <2>1. walk.cwd = CwdAt(flat, g)
    BY <1>1 DEF SearchesFit
  <2>2. after.cwd = IF s.st = "cd" THEN ChangeDirectory(walk.cwd, s.path) ELSE walk.cwd
    BY <1>1, StatementKeepsWalk
  <2> QED  BY <2>1, <2>2, CwdIs
<1>3. /\ \A l \in DOMAIN walk.bound : /\ PlacesFit(flat, g, walk.bound[l])
                                      /\ walk.bound[l] # << >> => AssignedBase(flat, g, l)
      /\ \A l \in DOMAIN walk.env : PlacesFit(flat, g, walk.env[l]) /\ AssignedBase(flat, g, l)
  BY <1>1, FitsLater DEF SearchesFit
<1>4. ASSUME NEW l, NamesDirectory(flat, g + 1, l), ~(s.st = "libname" /\ s.libref = l /\ ~s.joins)
      PROVE  l \in DOMAIN walk.bound /\ FirstIs(flat, g + 1, l, walk.bound[l])
  <2>1. LibnameAt(flat, g + 1, l) = LibnameAt(flat, g, l)
    BY <1>4, InForceAfter
  <2>2. NamesDirectory(flat, g, l)
    BY <1>4, <2>1 DEF NamesDirectory
  <2>3. l \in DOMAIN walk.bound /\ FirstIs(flat, g, l, walk.bound[l])
    BY <1>1, <2>2 DEF SearchesFit
  <2> QED  BY <2>1, <2>3 DEF FirstIs
<1>5. CASE s.st \notin {"libname", "setenv"}
  <2>1. after.bound = walk.bound /\ after.env = walk.env
    BY <1>1, <1>5, StatementKeepsWalk
  <2> HIDE DEF s, after
  <2> QED  BY <1>2, <1>3, <1>4, <1>5, <2>1 DEF SearchesFit, after, s
<1>6. CASE s.st = "setenv"
  <2> DEFINE p == LibraryOf(CwdAt(flat, g), s)
  <2>1. after.bound = walk.bound /\ after.env = WithKey(walk.env, s.libref, <<p>>)
    <3>1. after = Bind(walk, s)
      BY <1>6 DEF WalkStatement
    <3>2. walk.cwd = CwdAt(flat, g)
      BY <1>1 DEF SearchesFit
    <3>3. /\ Bind(walk, s).bound = walk.bound
          /\ Bind(walk, s).env = WithKey(walk.env, s.libref, <<LibraryOf(walk.cwd, s)>>)
      <4> HIDE DEF s
      <4> QED  BY <1>1, <1>6, BindIs
    <3> QED  BY <3>1, <3>2, <3>3
  <2>2. PlacesFit(flat, g, <<p>>) /\ AssignedBase(flat, g, s.libref)
    <3>1. s.engine = "base" /\ s.other = ""
      BY <1>1, <1>6, StatementIs
    <3>2. Declares(flat, g, p) /\ Range(<<p>>) = {p}
      BY <1>6, <3>1, OneLong DEF Declares, Range
    <3> HIDE DEF p
    <3> QED  BY <1>1, <3>1, <3>2 DEF PlacesFit, AssignedBase
  <2>3. /\ DOMAIN after.env = DOMAIN walk.env \cup {s.libref} /\ after.env[s.libref] = <<p>>
        /\ \A k \in DOMAIN walk.env : k # s.libref => after.env[k] = walk.env[k]
    <3>1. walk.env \in Searches /\ s.libref \in STRING /\ <<p>> \in Seq(LibraryRecs)
      <4>1. CwdAt(flat, g) \in Paths
        BY <1>1, CwdIs, LenProperties
      <4>2. p \in LibraryRecs
        BY <1>1, <4>1, LibraryIs
      <4> HIDE DEF p
      <4> QED  BY <1>1, <4>2, OneLong, StatementIs DEF Walks
    <3> DEFINE f == walk.env
               key == s.libref
               L == <<p>>
    <3>3. f \in Searches /\ key \in STRING /\ L \in Seq(LibraryRecs) /\ after.env = WithKey(f, key, L)
      BY <2>1, <3>1
    <3> HIDE DEF L, after, s, f, key, p
    <3>4. /\ DOMAIN WithKey(f, key, L) = DOMAIN f \cup {key} /\ WithKey(f, key, L)[key] = L
          /\ \A k \in DOMAIN f : k # key => WithKey(f, key, L)[k] = f[k]
      BY <3>3, SearchIsSet
    <3> QED  BY <3>3, <3>4 DEF f, key, L
  <2>4. ~(s.st = "libname")
    BY <1>6
  <2> HIDE DEF s, p, after
  <2>5. \A l \in DOMAIN after.env : PlacesFit(flat, g, after.env[l]) /\ AssignedBase(flat, g, l)
    BY <1>3, <2>2, <2>3
  <2> QED  BY <1>2, <1>3, <1>4, <2>1, <2>4, <2>5 DEF SearchesFit, after, s
<1>7. CASE s.st = "libname" /\ s.engine # "base" /\ ~s.joins
  <2>1. after.bound = walk.bound /\ after.env = walk.env
    <3>1. after = Bind(walk, s)
      BY <1>1, <1>7, StatementKeepsWalk
    <3> QED  BY <1>7, <3>1 DEF Bind
  <2>2. ~NamesDirectory(flat, g + 1, s.libref)
    <3>1. LibnameAt(flat, g + 1, s.libref) = g
      BY <1>7, InForceAfter
    <3> QED  BY <1>7, <3>1 DEF NamesDirectory
  <2> HIDE DEF s, after
  <2> QED  BY <1>2, <1>3, <1>4, <2>1, <2>2 DEF SearchesFit, after, s
<1>8. CASE s.st = "libname" /\ (s.engine = "base" \/ s.joins)
  <2> DEFINE L == BoundTo(walk, s)
  <2>1. after.env = walk.env /\ after.bound = WithKey(walk.bound, s.libref, L)
    <3>1. after = Bind(walk, s)
      BY <1>1, <1>8, StatementKeepsWalk
    <3>2. Bind(walk, s) = [walk EXCEPT !.bound = WithKey(walk.bound, s.libref, L)]
      BY <1>8 DEF Bind, BoundTo, Walks
    <3> HIDE DEF L
    <3> QED  BY <3>1, <3>2 DEF Walks
  <2>2. /\ L \in Seq(LibraryRecs) /\ PlacesFit(flat, g, L)
        /\ L # << >> => AssignedBase(flat, g, s.libref)
        /\ NamesDirectory(flat, g + 1, s.libref) => FirstIs(flat, g + 1, s.libref, L)
    BY <1>8, BoundFits
  <2>3. /\ DOMAIN after.bound = DOMAIN walk.bound \cup {s.libref} /\ after.bound[s.libref] = L
        /\ \A k \in DOMAIN walk.bound : k # s.libref => after.bound[k] = walk.bound[k]
    <3>1. walk.bound \in Searches /\ s.libref \in STRING
      BY <1>1, StatementIs DEF Walks
    <3>2. L \in Seq(LibraryRecs)
      BY <2>2
    <3> DEFINE f == walk.bound
               key == s.libref
    <3>3. f \in Searches /\ key \in STRING /\ after.bound = WithKey(f, key, L)
      BY <2>1, <3>1
    <3> HIDE DEF L, after, s, f, key
    <3>4. /\ DOMAIN WithKey(f, key, L) = DOMAIN f \cup {key} /\ WithKey(f, key, L)[key] = L
          /\ \A k \in DOMAIN f : k # key => WithKey(f, key, L)[k] = f[k]
      BY <3>2, <3>3, SearchIsSet
    <3> QED  BY <3>3, <3>4 DEF f, key
  <2> HIDE DEF s, L, after
  <2>4. \A l \in DOMAIN after.bound : /\ PlacesFit(flat, g, after.bound[l])
                                      /\ after.bound[l] # << >> => AssignedBase(flat, g, l)
    BY <1>3, <2>2, <2>3
  <2>5. ASSUME NEW l, NamesDirectory(flat, g + 1, l)
        PROVE  l \in DOMAIN after.bound /\ FirstIs(flat, g + 1, l, after.bound[l])
    <3>1. CASE l = s.libref
      BY <2>2, <2>3, <2>5, <3>1
    <3>2. CASE l # s.libref
      <4>1. l \in DOMAIN walk.bound /\ FirstIs(flat, g + 1, l, walk.bound[l])
        BY <1>4, <2>5, <3>2
      <4> QED  BY <2>3, <3>2, <4>1
    <3> QED  BY <3>1, <3>2
  <2> QED  BY <1>2, <1>3, <2>1, <2>4, <2>5 DEF SearchesFit, after, s
<1> QED  BY <1>5, <1>6, <1>7, <1>8

-----------------------------------------------------------------------------
(* The data sets a walk names are those the session reads *)

IsReadFrom(flat, dir, member) ==
    \E g \in DOMAIN flat : \E ref \in Range(flat[g].refs) :
        LET j == LibnameAt(flat, g, ref.libref)
        IN  /\ ref.role # "write" /\ ref.member = member
            /\ \/ DirectoryAt(flat, g, ref.libref) = dir
               \/ j = 0 \/ flat[j].other # "" \/ Reassigned(flat, ref.libref)

NamedFit(flat, g, named) ==
    /\ \A p, q \in DOMAIN named :
          named[p].library.dir = named[q].library.dir /\ named[p].member = named[q].member => p = q
    /\ \A p \in DOMAIN named :
          /\ named[p].library.dir # NoPath /\ \E h \in 1..g : Declares(flat, h, named[p].library)
          /\ IsReadFrom(flat, named[p].library.dir, named[p].member)

\* A read of a directory the LIBNAME in force names, of what no other step writes.
Wanted(flat, g, k) ==
    LET ref == flat[g].refs[k]
    IN  /\ <<g, k>> \in ReadsOf(flat)
        /\ DirectoryAt(flat, g, ref.libref) # NoPath
        /\ {x \in DOMAIN flat : x # g /\ NameOf(ref) \in WritesOf(flat[x])} = {}
        /\ ~\E i \in 1..(k - 1) : flat[g].refs[i].now

IsNamed(named, dir, member) == \E p \in DOMAIN named : named[p].library.dir = dir /\ named[p].member = member

\* Every read of the statements before g, and of its first k references.
NamesAll(flat, g, k, named) ==
    \A x \in DOMAIN flat : \A i \in DOMAIN flat[x].refs :
        Wanted(flat, x, i) /\ (x < g \/ (x = g /\ i <= k)) =>
            IsNamed(named, DirectoryAt(flat, x, flat[x].refs[i].libref), flat[x].refs[i].member)

HereFits(flat, g, here) == here \subseteq UNION {WritesOf(flat[h]) : h \in 1..g}

LEMMA DirectoryIs ==
    ASSUME NEW flat \in Seq(SasStatements), NEW g \in 1..Len(flat), NEW l
    PROVE  LET j == LibnameAt(flat, g, l)
           IN  /\ j # 0 => j \in 1..Len(flat) /\ flat[j].st = "libname" /\ flat[j].libref = l
               /\ DirectoryAt(flat, g, l) # NoPath => NamesDirectory(flat, g, l)
               /\ NamesDirectory(flat, g, l) =>
                     DirectoryAt(flat, g, l) = LibraryOf(CwdAt(flat, j), flat[j]).dir
<1> DEFINE P == {i \in 1..(g - 1) : flat[i].st = "libname" /\ flat[i].libref = l /\ ~flat[i].joins}
           j == LibnameAt(flat, g, l)
<1>1. g \in Nat /\ Len(flat) \in Nat
  BY LenProperties
<1>2. j \in {0} \cup P
  <2>1. {0} \cup P \subseteq 0..(g - 1) /\ {0} \cup P # {} /\ g - 1 \in Nat
    BY <1>1
  <2>2. j = Max({0} \cup P)
    BY DEF LibnameAt
  <2> HIDE DEF P, j
  <2> QED  BY <2>1, <2>2, LargestNat
<1>3. j # 0 => j \in 1..Len(flat) /\ flat[j].st = "libname" /\ flat[j].libref = l
  <2>1. \A i \in P : i \in 1..Len(flat)
    BY <1>1
  <2> HIDE DEF j
  <2> QED  BY <1>2, <2>1
<1>4. DirectoryAt(flat, g, l) = IF j = 0 \/ flat[j].engine # "base" \/ flat[j].other # "" THEN NoPath
                                ELSE Placed(CwdAt(flat, j), flat[j].path)
  BY DEF DirectoryAt
<1>5. NamesDirectory(flat, g, l) <=> ~(j = 0 \/ flat[j].engine # "base" \/ flat[j].other # "")
  BY DEF NamesDirectory
<1>6. j # 0 => LibraryOf(CwdAt(flat, j), flat[j]).dir = Placed(CwdAt(flat, j), flat[j].path)
  <2> HIDE DEF j
  <2> QED  BY <1>3 DEF LibraryOf
<1> HIDE DEF j
<1>7. DirectoryAt(flat, g, l) # NoPath => NamesDirectory(flat, g, l)
  BY <1>4, <1>5
<1>8. NamesDirectory(flat, g, l) => DirectoryAt(flat, g, l) = LibraryOf(CwdAt(flat, j), flat[j]).dir
  BY <1>4, <1>5, <1>6
<1> QED  BY <1>3, <1>7, <1>8 DEF j

LEMMA KnownIs ==
    ASSUME NEW walk \in Walks, NEW place, NEW member
    PROVE  Known(walk, place, member) <=> IsNamed(walk.named, place.dir, member)
BY DEF Known, IsNamed, Range

\* What a reference names is read from where it says.
LEMMA NamedIsRead ==
    ASSUME NEW flat \in Seq(SasStatements), NEW g \in 1..Len(flat), NEW files, NEW walk \in Walks,
           SearchesFit(flat, g - 1, walk), NEW k \in 1..Len(flat[g].refs),
           Names(files, walk, flat[g], k)
    PROVE  LET m == MemberAt(walk, flat[g], k)
           IN  /\ m.library.dir # NoPath /\ \E h \in 1..(g - 1) : Declares(flat, h, m.library)
               /\ IsReadFrom(flat, m.library.dir, m.member)
<1> DEFINE ref == flat[g].refs[k]
           l == ref.libref
           places == Search(walk, l)
           j == LibnameAt(flat, g, l)
<1>1. /\ g \in Nat /\ g # 0 /\ (g - 1) + 1 = g /\ g \in DOMAIN flat /\ flat[g] \in SasStatements
      /\ Len(flat) \in Nat /\ DOMAIN flat = 1..Len(flat)
  BY LenProperties, ElementOfSeq
<1>2. ref.role # "write" /\ places # << >> /\ places[1].dir # NoPath
  BY DEF Names
<1>3. /\ MemberAt(walk, flat[g], k).library = places[1]
      /\ MemberAt(walk, flat[g], k).member = ref.member
  BY DEF MemberAt
<1>4. PlacesFit(flat, g - 1, places) /\ AssignedBase(flat, g - 1, l)
  BY <1>2, SearchFits
<1>5. places[1] \in Range(places)
  <2>1. places \in Seq(LibraryRecs)
    BY SearchIs
  <2> HIDE DEF places
  <2>2. 1 \in DOMAIN places
    BY <1>2, <2>1, EmptySeq, LenProperties
  <2> QED  BY <2>2 DEF Range
<1>6. \E h \in 1..(g - 1) : Declares(flat, h, places[1])
  BY <1>2, <1>4, <1>5 DEF PlacesFit
<1>7. ref \in Range(flat[g].refs)
  <2>1. flat[g].refs \in Seq(DataSetRefs)
    BY <1>1, StatementIs
  <2>2. k \in DOMAIN flat[g].refs
    BY <2>1, LenProperties
  <2> QED  BY <2>2 DEF Range
<1>8. NamesDirectory(flat, g, l) => DirectoryAt(flat, g, l) = LibraryOf(CwdAt(flat, j), flat[j]).dir
  BY DirectoryIs
<1>9. \A h \in 1..(g - 1) : h \in DOMAIN flat
  BY <1>1
<1>10. \/ DirectoryAt(flat, g, l) = places[1].dir
      \/ j = 0 \/ flat[j].other # "" \/ Reassigned(flat, l)
  <2> SUFFICES ASSUME j # 0, flat[j].other = "" PROVE DirectoryAt(flat, g, l) = places[1].dir \/ Reassigned(flat, l)
    OBVIOUS
  <2>1. j \in 1..Len(flat) /\ flat[j].st = "libname" /\ flat[j].libref = l
    BY DirectoryIs
  <2>2. flat[j].engine \in {"base", "spde"}
    <3> HIDE DEF j
    <3>1. flat[j] \in SasStatements
      BY <2>1, ElementOfSeq
    <3> QED  BY <2>1, <3>1, StatementIs
  <2>3. CASE flat[j].engine = "base"
    <3>1. NamesDirectory(flat, g, l)
      BY <2>3 DEF NamesDirectory
    <3>2. l \in DOMAIN walk.bound /\ FirstIs(flat, g, l, walk.bound[l])
      <4> HIDE DEF l
      <4> QED  BY <1>1, <3>1 DEF SearchesFit
    <3>3. places = walk.bound[l] /\ places[1] = LibraryOf(CwdAt(flat, j), flat[j])
      BY <3>2 DEF FirstIs, Search
    <3>4. DirectoryAt(flat, g, l) = LibraryOf(CwdAt(flat, j), flat[j]).dir
      BY <1>8, <3>1
    <3> QED  BY <3>3, <3>4
  <2>4. CASE flat[j].engine = "spde"
    <3>1. PICK h \in 1..(g - 1) : flat[h].libref = l /\ flat[h].engine = "base"
      BY <1>4 DEF AssignedBase
    <3> HIDE DEF j, l
    <3>2. h \in DOMAIN flat /\ j \in DOMAIN flat
      BY <1>1, <1>9, <2>1
    <3> QED  BY <2>1, <2>4, <3>1, <3>2 DEF Reassigned
  <2> QED  BY <2>2, <2>3, <2>4
<1>11. IsReadFrom(flat, places[1].dir, ref.member)
  <2> HIDE DEF places
  <2> QED  BY <1>1, <1>2, <1>7, <1>10 DEF IsReadFrom
<1> QED  BY <1>2, <1>3, <1>6, <1>11

\* A wanted read is named, when its turn comes.
LEMMA WantedIsNamed ==
    ASSUME NEW flat \in Seq(SasStatements), NEW g \in 1..Len(flat), NEW files, NEW walk \in Walks,
           SearchesFit(flat, g - 1, walk), HereFits(flat, g - 1, walk.here),
           Elsewhere(files, walk.file, flat, g),
           NEW k \in 1..Len(flat[g].refs), Wanted(flat, g, k)
    PROVE  /\ Names(files, walk, flat[g], k)
           /\ Search(walk, flat[g].refs[k].libref)[1].dir = DirectoryAt(flat, g, flat[g].refs[k].libref)
<1> DEFINE ref == flat[g].refs[k]
           l == ref.libref
           places == Search(walk, l)
           j == LibnameAt(flat, g, l)
           name == NameOf(ref)
<1>1. /\ g \in Nat /\ g # 0 /\ (g - 1) + 1 = g /\ g \in DOMAIN flat /\ flat[g] \in SasStatements
      /\ Len(flat) \in Nat /\ DOMAIN flat = 1..Len(flat)
  BY LenProperties, ElementOfSeq
<1>2. ref.role # "write" /\ ~ref.pattern
  BY DEF Wanted, ReadsOf
<1>3. DirectoryAt(flat, g, l) # NoPath /\ NamesDirectory(flat, g, l)
  BY DirectoryIs DEF Wanted
<1>4. l \in DOMAIN walk.bound /\ FirstIs(flat, g, l, walk.bound[l])
  <2> HIDE DEF l
  <2> QED  BY <1>1, <1>3 DEF SearchesFit
<1>5. places # << >> /\ places[1] = LibraryOf(CwdAt(flat, j), flat[j])
  BY <1>4 DEF FirstIs, Search
<1>6. places[1].dir = DirectoryAt(flat, g, l)
  BY <1>3, <1>5, DirectoryIs
<1>7. \A x \in DOMAIN flat : x # g => name \notin WritesOf(flat[x])
  BY DEF Wanted
<1>8. name \notin walk.here
  <2>1. \A h \in 1..(g - 1) : h \in DOMAIN flat /\ h # g
    BY <1>1
  <2> HIDE DEF name
  <2> QED  BY <1>7, <2>1 DEF HereFits
<1>9. ~\E i \in 1..(k - 1) : flat[g].refs[i].now
  BY DEF Wanted
<1>10. Writers(files, name) \ {walk.file} = {}
  <2> SUFFICES ASSUME NEW f \in DOMAIN files, f # walk.file, NEW s \in Range(files[f]), name \in WritesOf(s)
               PROVE FALSE
    BY DEF Writers
  <2>1. PICK x \in DOMAIN flat : x # g /\ flat[x] = s
    BY DEF Elsewhere
  <2> HIDE DEF name
  <2> QED  BY <1>7, <2>1
<1>11. ~Made(files, walk, flat[g], k, name)
  <2> HIDE DEF name
  <2> QED  BY <1>8, <1>9, <1>10 DEF Made
<1> QED  BY <1>2, <1>3, <1>5, <1>6, <1>11 DEF Names

LEMMA StatementAt ==
    ASSUME NEW flat \in Seq(SasStatements), NEW x \in DOMAIN flat
    PROVE  /\ x \in Nat /\ x # 0 /\ x \in 1..Len(flat) /\ flat[x] \in SasStatements
           /\ Len(flat[x].refs) \in Nat /\ DOMAIN flat[x].refs = 1..Len(flat[x].refs)
           /\ \A i \in DOMAIN flat[x].refs : i \in Nat /\ i # 0 /\ i <= Len(flat[x].refs)
<1>1. x \in 1..Len(flat) /\ Len(flat) \in Nat
  BY LenProperties
<1>2. flat[x] \in SasStatements
  BY <1>1, ElementOfSeq
<1>3. flat[x].refs \in Seq(DataSetRefs)
  BY <1>2, StatementIs
<1>4. Len(flat[x].refs) \in Nat /\ DOMAIN flat[x].refs = 1..Len(flat[x].refs)
  BY <1>3, LenProperties
<1>5. x \in Nat /\ x # 0
  BY <1>1
<1> DEFINE n == Len(flat[x].refs)
<1>6. \A i \in 1..n : i \in Nat /\ i # 0 /\ i <= n
  <2> HIDE DEF n
  <2> QED  BY <1>4 DEF n
<1> QED  BY <1>1, <1>2, <1>4, <1>5, <1>6

LEMMA NamedAppended ==
    ASSUME NEW named \in Seq(NamedRecs), NEW m \in NamedRecs
    PROVE  /\ DOMAIN Append(named, m) = DOMAIN named \cup {Len(named) + 1}
           /\ Len(named) + 1 \notin DOMAIN named /\ Append(named, m)[Len(named) + 1] = m
           /\ \A p \in DOMAIN named : Append(named, m)[p] = named[p]
<1>1. /\ Len(named) \in Nat /\ DOMAIN named = 1..Len(named)
      /\ Append(named, m) \in Seq(NamedRecs) /\ Len(Append(named, m)) = Len(named) + 1
      /\ Append(named, m)[Len(named) + 1] = m
      /\ \A p \in 1..Len(named) : Append(named, m)[p] = named[p]
  BY AppendProperties, LenProperties
<1>2. DOMAIN Append(named, m) = 1..(Len(named) + 1)
  BY <1>1, LenProperties
<1>3. 1..(Len(named) + 1) = 1..Len(named) \cup {Len(named) + 1} /\ Len(named) + 1 \notin 1..Len(named)
  BY <1>1
<1> QED  BY <1>1, <1>2, <1>3

LEMMA RefMoves ==
    ASSUME NEW flat \in Seq(SasStatements), NEW g \in 1..Len(flat), NEW files, NEW walk \in Walks,
           SearchesFit(flat, g - 1, walk), HereFits(flat, g - 1, walk.here),
           Elsewhere(files, walk.file, flat, g),
           NEW k \in 1..Len(flat[g].refs), NamedFit(flat, g - 1, walk.named),
           NamesAll(flat, g, k - 1, walk.named)
    PROVE  LET named == ReadRef(files, walk, flat[g], k).named
           IN  NamedFit(flat, g - 1, named) /\ NamesAll(flat, g, k, named)
<1> DEFINE s == flat[g]
           l == s.refs[k].libref
           member == s.refs[k].member
           place == Search(walk, l)[1]
           named == ReadRef(files, walk, s, k).named
           m == MemberAt(walk, s, k)
           new == Names(files, walk, s, k) /\ ~Known(walk, place, member)
           n == Len(walk.named)
<1>1. s \in SasStatements /\ walk.named \in Seq(NamedRecs)
  BY ElementOfSeq DEF Walks
<1>2. /\ Names(files, walk, s, k) => m \in NamedRecs
      /\ named = IF new THEN Append(walk.named, m) ELSE walk.named
  BY <1>1, ReadRefIs
<1>3. m.library = place /\ m.member = member
  BY DEF MemberAt
<1>4. Known(walk, place, member) <=> IsNamed(walk.named, place.dir, member)
  BY KnownIs
<1>5. ASSUME Names(files, walk, s, k)
      PROVE  /\ m.library.dir # NoPath /\ \E h \in 1..(g - 1) : Declares(flat, h, m.library)
             /\ IsReadFrom(flat, m.library.dir, m.member)
  BY <1>5, NamedIsRead
<1>6. ASSUME Wanted(flat, g, k)
      PROVE  Names(files, walk, s, k) /\ place.dir = DirectoryAt(flat, g, l)
  BY <1>6, WantedIsNamed
<1>7. \A x, i \in Nat : x < g \/ (x = g /\ i <= k) => x < g \/ (x = g /\ i <= k - 1) \/ (x = g /\ i = k)
  <2>1. k \in Nat /\ g \in Nat
    <3>1. g \in DOMAIN flat
      BY LenProperties
    <3> QED  BY <3>1, StatementAt
  <2> QED  BY <2>1
<1>8. \A x \in DOMAIN flat : x \in Nat /\ \A i \in DOMAIN flat[x].refs : i \in Nat
  BY StatementAt
<1> HIDE DEF s, place, member, m, named, new, n, l
<1>9. CASE new
  <2>1. /\ DOMAIN named = DOMAIN walk.named \cup {n + 1} /\ n + 1 \notin DOMAIN walk.named
        /\ named[n + 1] = m /\ \A p \in DOMAIN walk.named : named[p] = walk.named[p]
    <3>1. m \in NamedRecs /\ named = Append(walk.named, m)
      BY <1>2, <1>9 DEF new
    <3> QED  BY <1>1, <3>1, NamedAppended DEF n
  <2>2. ~IsNamed(walk.named, m.library.dir, m.member)
    BY <1>3, <1>4, <1>9 DEF new
  <2>3. /\ m.library.dir # NoPath /\ \E h \in 1..(g - 1) : Declares(flat, h, m.library)
        /\ IsReadFrom(flat, m.library.dir, m.member)
    BY <1>5, <1>9 DEF new
  <2>4. NamedFit(flat, g - 1, named)
    <3>1. ASSUME NEW p \in DOMAIN named, NEW q \in DOMAIN named,
                 named[p].library.dir = named[q].library.dir, named[p].member = named[q].member
          PROVE  p = q
      <4>1. CASE p \in DOMAIN walk.named /\ q \in DOMAIN walk.named
        BY <2>1, <3>1, <4>1 DEF NamedFit
      <4>2. CASE p \in DOMAIN walk.named /\ q = n + 1
        BY <2>1, <2>2, <3>1, <4>2 DEF IsNamed
      <4>3. CASE p = n + 1 /\ q \in DOMAIN walk.named
        BY <2>1, <2>2, <3>1, <4>3 DEF IsNamed
      <4> QED  BY <2>1, <4>1, <4>2, <4>3
    <3>2. ASSUME NEW p \in DOMAIN named
          PROVE  /\ named[p].library.dir # NoPath /\ \E h \in 1..(g - 1) : Declares(flat, h, named[p].library)
                 /\ IsReadFrom(flat, named[p].library.dir, named[p].member)
      <4>1. CASE p \in DOMAIN walk.named
        BY <2>1, <4>1 DEF NamedFit
      <4>2. CASE p = n + 1
        BY <2>1, <2>3, <4>2
      <4> QED  BY <2>1, <4>1, <4>2
    <3> QED  BY <3>1, <3>2 DEF NamedFit
  <2>5. \A d, e : IsNamed(walk.named, d, e) => IsNamed(named, d, e)
    BY <2>1 DEF IsNamed
  <2>6. IsNamed(named, m.library.dir, m.member)
    BY <2>1 DEF IsNamed
  <2>7. NamesAll(flat, g, k, named)
    <3>1. ASSUME NEW x \in DOMAIN flat, NEW i \in DOMAIN flat[x].refs, Wanted(flat, x, i),
                 x < g \/ (x = g /\ i <= k)
          PROVE  IsNamed(named, DirectoryAt(flat, x, flat[x].refs[i].libref), flat[x].refs[i].member)
      <4>1. CASE x < g \/ (x = g /\ i <= k - 1)
        BY <2>5, <3>1, <4>1 DEF NamesAll
      <4>2. CASE x = g /\ i = k
        BY <1>3, <1>6, <2>6, <3>1, <4>2 DEF s, l, member
      <4> QED  BY <1>7, <1>8, <3>1, <4>1, <4>2
    <3> QED  BY <3>1 DEF NamesAll
  <2> QED  BY <2>4, <2>7 DEF named, s
<1>10. CASE ~new
  <2>1. named = walk.named
    BY <1>2, <1>10
  <2>2. Names(files, walk, s, k) => IsNamed(named, place.dir, member)
    BY <1>4, <1>10, <2>1 DEF new
  <2>3. NamesAll(flat, g, k, named)
    <3>1. ASSUME NEW x \in DOMAIN flat, NEW i \in DOMAIN flat[x].refs, Wanted(flat, x, i),
                 x < g \/ (x = g /\ i <= k)
          PROVE  IsNamed(named, DirectoryAt(flat, x, flat[x].refs[i].libref), flat[x].refs[i].member)
      <4>1. CASE x < g \/ (x = g /\ i <= k - 1)
        BY <2>1, <3>1, <4>1 DEF NamesAll
      <4>2. CASE x = g /\ i = k
        BY <1>6, <2>2, <3>1, <4>2 DEF s, l, member
      <4> QED  BY <1>7, <1>8, <3>1, <4>1, <4>2
    <3> QED  BY <3>1 DEF NamesAll
  <2> QED  BY <2>1, <2>3 DEF named, s
<1> QED  BY <1>9, <1>10

LEMMA StepMoves ==
    ASSUME NEW flat \in Seq(SasStatements), NEW g \in 1..Len(flat), NEW files, NEW walk \in Walks,
           SearchesFit(flat, g - 1, walk), HereFits(flat, g - 1, walk.here),
           Elsewhere(files, walk.file, flat, g),
           NamedFit(flat, g - 1, walk.named), NamesAll(flat, g, 0, walk.named)
    PROVE  LET named == ReadStep(files, walk, flat[g]).named
           IN  NamedFit(flat, g - 1, named) /\ NamesAll(flat, g, Len(flat[g].refs), named)
<1> DEFINE s == flat[g]
           n == Len(s.refs)
<1>1. s \in SasStatements
  BY ElementOfSeq
<1>2. n \in Nat
  BY <1>1, StatementIs, LenProperties
<1>3. PICK h \in [0..n -> Walks] :
         /\ h[0] = walk
         /\ \A k \in 1..n : h[k] = ReadRef(files, h[k - 1], s, k)
         /\ ReadStep(files, walk, s) = h[n]
  BY <1>1, StepIsRead
<1> DEFINE Good(k) == /\ SameSearches(walk, h[k]) /\ NamedFit(flat, g - 1, h[k].named)
                      /\ NamesAll(flat, g, k, h[k].named)
           B == {k \in 0..n : Good(k)}
<1>4. 0 \in B
  BY <1>2, <1>3 DEF SameSearches
<1>5. ASSUME NEW k \in 1..n, k - 1 \in B PROVE k \in B
  <2> DEFINE v == h[k - 1]
  <2>1. /\ v \in Walks /\ SameSearches(walk, v) /\ NamedFit(flat, g - 1, v.named)
        /\ NamesAll(flat, g, k - 1, v.named) /\ h[k] = ReadRef(files, v, s, k) /\ k \in 0..n
    BY <1>2, <1>3, <1>5
  <2> HIDE DEF v, n, Good, B
  <2>2. SearchesFit(flat, g - 1, v) /\ HereFits(flat, g - 1, v.here) /\ Elsewhere(files, v.file, flat, g)
    BY <2>1 DEF SameSearches, SearchesFit
  <2>3. SameSearches(v, h[k])
    <3>1. k \in 1..Len(s.refs)
      BY DEF n
    <3> QED  BY <1>1, <2>1, <3>1, ReadRefIs
  <2>4. NamedFit(flat, g - 1, h[k].named) /\ NamesAll(flat, g, k, h[k].named)
    <3>1. k \in 1..Len(flat[g].refs)
      BY DEF n
    <3> QED  BY <2>1, <2>2, <3>1, RefMoves
  <2>5. Good(k)
    BY <2>1, <2>3, <2>4 DEF SameSearches, Good
  <2> QED  BY <2>1, <2>5 DEF B
<1>6. Good(n)
  <2>1. \A k \in 0..n : k \in B
    <3> HIDE DEF B
    <3> QED  BY <1>2, <1>4, <1>5, UpTo
  <2> QED  BY <1>2, <2>1
<1> QED  BY <1>3, <1>6

\* What holds of the walk after the first g statements.
WalkFits(flat, g, walk) ==
    /\ SearchesFit(flat, g, walk) /\ HereFits(flat, g, walk.here)
    /\ NamedFit(flat, g, walk.named) /\ NamesAll(flat, g + 1, 0, walk.named)

LEMMA StatementMoves ==
    ASSUME NEW flat \in Seq(SasStatements), NEW g \in 1..Len(flat), NEW files, NEW walk \in Walks,
           WalkFits(flat, g - 1, walk), Elsewhere(files, walk.file, flat, g)
    PROVE  WalkFits(flat, g, WalkStatement(files, walk, flat[g]))
<1> DEFINE s == flat[g]
           after == WalkStatement(files, walk, s)
<1>1. /\ g \in Nat /\ g # 0 /\ (g - 1) + 1 = g /\ g \in 1..g /\ 1..(g - 1) \subseteq 1..g
      /\ s \in SasStatements
  BY LenProperties, ElementOfSeq
<1>2. SearchesFit(flat, g, after)
  BY SearchesMove DEF WalkFits
<1>3. HereFits(flat, g, after.here)
  <2>1. after.here \subseteq walk.here \cup WritesOf(s)
    <3>1. after.here = IF s.st = "step" THEN walk.here \cup WritesOf(s) ELSE walk.here
      BY <1>1, StatementKeepsWalk
    <3> HIDE DEF after, s
    <3> QED  BY <3>1
  <2>2. walk.here \subseteq UNION {WritesOf(flat[h]) : h \in 1..(g - 1)}
    BY DEF WalkFits, HereFits
  <2>3. UNION {WritesOf(flat[h]) : h \in 1..(g - 1)} \subseteq UNION {WritesOf(flat[h]) : h \in 1..g}
    BY <1>1
  <2>4. WritesOf(s) \subseteq UNION {WritesOf(flat[h]) : h \in 1..g}
    BY <1>1
  <2> QED  BY <2>1, <2>2, <2>3, <2>4 DEF HereFits
<1>4. \A named : NamedFit(flat, g - 1, named) => NamedFit(flat, g, named)
  BY <1>1 DEF NamedFit
<1>5. ASSUME NEW named, NEW k \in Nat, NamesAll(flat, g, k, named),
             \A i \in DOMAIN s.refs : i <= k \/ ~Wanted(flat, g, i)
      PROVE  NamesAll(flat, g + 1, 0, named)
  <2>1. ASSUME NEW x \in DOMAIN flat, NEW i \in DOMAIN flat[x].refs, Wanted(flat, x, i),
               x < g + 1 \/ (x = g + 1 /\ i <= 0)
        PROVE  x < g \/ (x = g /\ i <= k)
    <3>1. x \in Nat /\ i \in Nat /\ i # 0
      BY StatementAt
    <3>2. ~(i <= 0)
      BY <3>1
    <3>3. x < g \/ x = g
      BY <1>1, <2>1, <3>1, <3>2
    <3>4. ASSUME x = g PROVE i <= k
      BY <1>5, <2>1, <3>4
    <3> QED  BY <3>3, <3>4
  <2> HIDE DEF s
  <2>2. ASSUME NEW x \in DOMAIN flat, NEW i \in DOMAIN flat[x].refs, Wanted(flat, x, i),
               x < g + 1 \/ (x = g + 1 /\ i <= 0)
        PROVE  IsNamed(named, DirectoryAt(flat, x, flat[x].refs[i].libref), flat[x].refs[i].member)
    <3>1. x < g \/ (x = g /\ i <= k)
      BY <2>1, <2>2
    <3> QED  BY <1>5, <2>2, <3>1 DEF NamesAll
  <2> QED  BY <2>2 DEF NamesAll
<1>6. CASE s.st = "step"
  <2>1. after.named = ReadStep(files, walk, s).named
    <3>1. after.named = IF s.st = "step" THEN ReadStep(files, walk, s).named ELSE walk.named
      BY <1>1, StatementKeepsWalk
    <3> QED  BY <1>6, <3>1
  <2>2. NamedFit(flat, g - 1, after.named) /\ NamesAll(flat, g, Len(s.refs), after.named)
    <3>1. NamesAll(flat, g, 0, walk.named)
      BY <1>1 DEF WalkFits
    <3>2. /\ NamedFit(flat, g - 1, ReadStep(files, walk, s).named)
          /\ NamesAll(flat, g, Len(s.refs), ReadStep(files, walk, s).named)
      BY <3>1, StepMoves DEF WalkFits
    <3> HIDE DEF s, after
    <3> QED  BY <2>1, <3>2
  <2>3. Len(s.refs) \in Nat /\ \A i \in DOMAIN s.refs : i <= Len(s.refs)
    <3>1. g \in DOMAIN flat
      BY LenProperties
    <3> QED  BY <3>1, StatementAt
  <2>4. NamedFit(flat, g, after.named)
    BY <1>4, <2>2
  <2>5. NamesAll(flat, g + 1, 0, after.named)
    <3> HIDE DEF s, after
    <3> QED  BY <1>5, <2>2, <2>3
  <2> QED  BY <1>2, <1>3, <2>4, <2>5 DEF WalkFits
<1>7. CASE s.st # "step"
  <2>1. after.named = walk.named
    <3>1. after.named = IF s.st = "step" THEN ReadStep(files, walk, s).named ELSE walk.named
      BY <1>1, StatementKeepsWalk
    <3> QED  BY <1>7, <3>1
  <2>2. DOMAIN s.refs = {}
    <3>1. s.refs = << >>
      <4> HIDE DEF s
      <4> QED  BY <1>1, <1>7, StatementIs
    <3> QED  BY <3>1
  <2>3. NamedFit(flat, g - 1, walk.named) /\ NamesAll(flat, g, 0, walk.named)
    BY <1>1 DEF WalkFits
  <2>4. NamesAll(flat, g + 1, 0, walk.named)
    <3>1. 0 \in Nat
      OBVIOUS
    <3> QED  BY <1>5, <2>2, <2>3, <3>1
  <2> QED  BY <1>2, <1>3, <1>4, <2>1, <2>3, <2>4 DEF WalkFits
<1> QED  BY <1>6, <1>7

LEMMA FileMoves ==
    ASSUME NEW files \in SasCorpora, NEW flat, NEW off, Joins(files, flat, off),
           NEW f \in 1..Len(files), NEW walk \in Walks, WalkFits(flat, off[f - 1], walk)
    PROVE  WalkFits(flat, off[f], WalkFile(files, walk, f))
<1> DEFINE n == Len(files[f])
           o == off[f - 1]
<1>1. /\ f \in Nat /\ files[f] \in Seq(SasStatements) /\ n \in Nat /\ Len(files) \in Nat
      /\ flat \in Seq(SasStatements)
  <2>1. Len(files) \in Nat /\ files[f] \in Seq(SasStatements)
    BY LenProperties, ElementOfSeq DEF SasCorpora
  <2> QED  BY <2>1, LenProperties DEF Joins
<1>2. o \in Nat /\ off[f] = o + n
  <2>1. f - 1 \in 0..Len(files)
    BY <1>1
  <2> QED  BY <2>1 DEF Joins
<1>3. PICK h \in [0..n -> Walks] :
         /\ h[0] = AtFile(walk, f)
         /\ \A k \in 1..n : h[k] = WalkStatement(files, h[k - 1], files[f][k])
         /\ WalkFile(files, walk, f) = h[n]
  BY <1>1, FileIsWalked
<1> DEFINE Good(k) == h[k].file = f /\ WalkFits(flat, o + k, h[k])
           B == {k \in 0..n : Good(k)}
<1>4. 0 \in B
  <2> DEFINE v == AtFile(walk, f)
  <2>1. /\ v \in Walks /\ v.file = f /\ v.here = {} /\ v.cwd = walk.cwd
        /\ v.bound = walk.bound /\ v.env = walk.env /\ v.named = walk.named
    BY <1>1, FileStartIs
  <2> HIDE DEF v
  <2>2. HereFits(flat, o, v.here)
    BY <2>1 DEF HereFits
  <2>3. SearchesFit(flat, o, v)
    BY <2>1 DEF WalkFits, SearchesFit
  <2>4. WalkFits(flat, o, v)
    BY <2>1, <2>2, <2>3 DEF WalkFits
  <2>5. h[0] = v /\ o + 0 = o
    BY <1>2, <1>3 DEF v
  <2> HIDE DEF o, n
  <2> QED  BY <1>1, <2>1, <2>4, <2>5
<1>5. ASSUME NEW k \in 1..n, k - 1 \in B PROVE k \in B
  <2> DEFINE v == h[k - 1]
             g == o + k
  <2>1. /\ v \in Walks /\ v.file = f /\ k \in 0..n
        /\ h[k] = WalkStatement(files, v, files[f][k])
    BY <1>1, <1>3, <1>5
  <2>2. WalkFits(flat, g - 1, v)
    <3>1. o + (k - 1) = g - 1
      BY <1>2
    <3>2. WalkFits(flat, o + (k - 1), v)
      BY <1>5
    <3> HIDE DEF g, v
    <3> QED  BY <3>1, <3>2
  <2>3. g \in 1..Len(flat) /\ flat[g] = files[f][k]
    BY DEF Joins
  <2>4. Elsewhere(files, f, flat, g)
    BY OthersAreElsewhere
  <2> HIDE DEF g, v, Good, B
  <2>5. WalkFits(flat, g, WalkStatement(files, v, flat[g]))
    BY <1>1, <2>1, <2>2, <2>3, <2>4, StatementMoves
  <2>6. h[k].file = f
    <3>1. flat[g] \in SasStatements
      BY <1>1, <2>3, ElementOfSeq
    <3> DEFINE after == WalkStatement(files, v, flat[g])
    <3>2. after.file = v.file
      BY <2>1, <3>1, StatementKeepsWalk
    <3> HIDE DEF after
    <3>3. h[k] = after
      BY <2>1, <2>3 DEF after
    <3> QED  BY <2>1, <3>2, <3>3
  <2>7. Good(k)
    BY <2>1, <2>3, <2>5, <2>6 DEF Good, g
  <2> QED  BY <2>1, <2>7 DEF B
<1>6. Good(n)
  <2>1. \A k \in 0..n : k \in B
    <3> HIDE DEF B
    <3> QED  BY <1>1, <1>4, <1>5, UpTo
  <2> QED  BY <1>1, <2>1
<1> QED  BY <1>2, <1>3, <1>6

\* The walk of a corpus names what the session reads.
LEMMA CorpusMoves ==
    ASSUME NEW files \in SasCorpora
    PROVE  WalkFits(Flat(files), Len(Flat(files)), Members(files)) /\ Members(files) \in Walks
<1> DEFINE n == Len(files)
           flat == Flat(files)
<1>1. n \in Nat
  BY LenProperties DEF SasCorpora
<1>2. PICK off : Joins(files, flat, off)
  BY FilesAreJoined
<1>3. PICK h \in [0..n -> Walks] :
         /\ h[0] = StartWalk
         /\ \A k \in 1..n : h[k] = WalkFile(files, h[k - 1], k)
         /\ Members(files) = h[n]
  BY CorpusIsWalked
<1> HIDE DEF flat
<1> DEFINE Good(k) == WalkFits(flat, off[k], h[k])
           B == {k \in 0..n : Good(k)}
<1>4. 0 \in B
  <2> DEFINE w == StartWalk
  <2>1. /\ w.cwd = NoPath /\ w.bound = << >> /\ w.env = << >> /\ w.here = {} /\ w.named = << >>
    BY DEF StartWalk
  <2>2. DOMAIN w.bound = {} /\ DOMAIN w.env = {} /\ DOMAIN w.named = {}
    BY <2>1
  <2> HIDE DEF w
  <2>3. flat \in Seq(SasStatements) /\ off[0] = 0
    BY <1>2 DEF Joins
  <2>4. \A l : LibnameAt(flat, 1, l) = 0
    <3> SUFFICES ASSUME NEW l PROVE LibnameAt(flat, 1, l) = 0
      OBVIOUS
    <3> DEFINE P == {0} \cup {j \in 1..(1 - 1) : flat[j].st = "libname" /\ flat[j].libref = l /\ ~flat[j].joins}
    <3>1. P \subseteq 0..0 /\ P # {}
      OBVIOUS
    <3>2. LibnameAt(flat, 1, l) = Max(P)
      BY DEF LibnameAt
    <3> HIDE DEF P
    <3>3. Max(P) \in P
      BY <3>1, LargestNat
    <3>4. \A x \in 0..0 : x = 0
      OBVIOUS
    <3>5. Max(P) \in 0..0
      BY <3>1, <3>3
    <3> HIDE DEF P
    <3> QED  BY <3>2, <3>4, <3>5
  <2>5. SearchesFit(flat, 0, w)
    <3>1. 0 + 1 = 1
      OBVIOUS
    <3> QED  BY <2>1, <2>2, <2>3, <2>4, <3>1, CwdIs DEF SearchesFit, NamesDirectory
  <2>6. HereFits(flat, 0, w.here) /\ NamedFit(flat, 0, w.named)
    BY <2>1, <2>2 DEF HereFits, NamedFit
  <2>7. NamesAll(flat, 1, 0, w.named)
    <3> SUFFICES ASSUME NEW x \in DOMAIN flat, NEW i \in DOMAIN flat[x].refs, x < 1 \/ (x = 1 /\ i <= 0)
                 PROVE FALSE
      BY DEF NamesAll
    <3>1. x \in Nat /\ x # 0 /\ i \in Nat /\ i # 0
      BY <2>3, StatementAt
    <3> QED  BY <3>1
  <2>8. WalkFits(flat, 0, w)
    <3>1. 0 + 1 = 1
      OBVIOUS
    <3> QED  BY <2>5, <2>6, <2>7, <3>1 DEF WalkFits
  <2>9. h[0] = w
    BY <1>3 DEF w
  <2> QED  BY <1>1, <2>3, <2>8, <2>9
<1>5. ASSUME NEW k \in 1..n, k - 1 \in B PROVE k \in B
  <2> DEFINE v == h[k - 1]
  <2>1. v \in Walks /\ WalkFits(flat, off[k - 1], v) /\ h[k] = WalkFile(files, v, k) /\ k \in 0..n
    BY <1>1, <1>3, <1>5
  <2> HIDE DEF v, Good, B
  <2>2. WalkFits(flat, off[k], h[k])
    BY <1>2, <2>1, FileMoves
  <2> QED  BY <2>1, <2>2 DEF Good, B
<1>6. Good(n)
  <2>1. \A k \in 0..n : k \in B
    <3> HIDE DEF B
    <3> QED  BY <1>1, <1>4, <1>5, UpTo
  <2> QED  BY <1>1, <2>1
<1>7. off[n] = Len(flat) /\ h[n] \in Walks
  <2>1. n \in 0..n
    BY <1>1
  <2> QED  BY <1>2, <1>3, <2>1 DEF Joins
<1> QED  BY <1>3, <1>6, <1>7 DEF flat

-----------------------------------------------------------------------------
(* The sources of the plan *)

SourceRecs ==
    [kind : {"file", "spde", "dataset", "library"}, libref : STRING \cup {""}, path : Paths]

DatasetOf(m) == Source("dataset", m.library.libref, m.library.dir \o <<m.member>>)

LEMMA PathSplits ==
    ASSUME NEW dir \in Paths, NEW member \in STRING
    PROVE  LET path == dir \o <<member>>
           IN  /\ path \in Paths /\ path # NoPath /\ Front(path) = dir /\ Last(path) = member
<1> DEFINE path == dir \o <<member>>
           n == Len(dir)
<1>1. <<member>> \in Paths /\ Len(<<member>>) = 1 /\ <<member>>[1] = member
  BY OneLong DEF Paths
<1>2. n \in Nat
  BY LenProperties DEF Paths
<1>3. /\ path \in Paths /\ Len(path) = n + 1
      /\ \A i \in 1..(n + 1) : path[i] = IF i <= n THEN dir[i] ELSE <<member>>[i - n]
  BY <1>1, ConcatProperties DEF Paths
<1> HIDE DEF path, n
<1>4. Last(path) = member
  <2>1. path[n + 1] = <<member>>[(n + 1) - n]
    <3>1. n + 1 \in 1..(n + 1) /\ ~(n + 1 <= n)
      BY <1>2
    <3>2. path[n + 1] = IF n + 1 <= n THEN dir[n + 1] ELSE <<member>>[(n + 1) - n]
      BY <1>3, <3>1
    <3> QED  BY <3>1, <3>2
  <2>2. (n + 1) - n = 1
    BY <1>2
  <2> QED  BY <1>1, <1>3, <2>1, <2>2 DEF Last
<1>5. path # NoPath
  <2>1. Len(path) # 0
    BY <1>2, <1>3
  <2> QED  BY <2>1 DEF NoPath
<1>6. Front(path) = dir
  <2>1. Front(path) = SubSeq(path, 1, n)
    <3>1. Len(path) - 1 = n
      BY <1>2, <1>3
    <3> QED  BY <3>1 DEF Front
  <2>2. \A i \in 1..n : path[i] = dir[i] /\ i \in 1..(n + 1)
    BY <1>2, <1>3
  <2>3. \A i \in 1..n : path[i] \in STRING
    <3>1. \A i \in 1..Len(dir) : dir[i] \in STRING
      BY ElementOfSeq DEF Paths
    <3> QED  BY <2>2, <3>1 DEF n
  <2>4. /\ SubSeq(path, 1, n) \in Seq(STRING)
        /\ Len(SubSeq(path, 1, n)) = IF 1 <= n THEN n - 1 + 1 ELSE 0
        /\ \A i \in 1..(n - 1 + 1) : SubSeq(path, 1, n)[i] = path[1 + i - 1]
    <3>1. 1 \in Int /\ n \in Int
      BY <1>2
    <3> QED  BY <2>3, <3>1, SubSeqProperties
  <2>5. n - 1 + 1 = n /\ \A i \in 1..n : 1 + i - 1 = i
    BY <1>2
  <2>6. Len(SubSeq(path, 1, n)) = n /\ \A i \in 1..n : SubSeq(path, 1, n)[i] = dir[i]
    BY <1>2, <2>2, <2>4, <2>5
  <2>7. dir \in Seq(STRING) /\ Len(dir) = n
    BY DEF Paths, n
  <2> QED  BY <2>1, <2>4, <2>6, <2>7, SeqEqual
<1> QED  BY <1>3, <1>4, <1>5, <1>6 DEF path

LEMMA DatasetIs ==
    ASSUME NEW m \in NamedRecs
    PROVE  /\ DatasetOf(m) \in SourceRecs /\ DatasetOf(m).kind = "dataset"
           /\ DatasetOf(m).path = m.library.dir \o <<m.member>>
           /\ DatasetOf(m).path # NoPath
           /\ Front(DatasetOf(m).path) = m.library.dir /\ Last(DatasetOf(m).path) = m.member
<1>1. m.library \in LibraryRecs /\ m.library.libref \in STRING /\ m.library.dir \in Paths /\ m.member \in STRING
  BY DEF NamedRecs, LibraryRecs
<1> DEFINE path == m.library.dir \o <<m.member>>
<1>2. path \in Paths /\ path # NoPath /\ Front(path) = m.library.dir /\ Last(path) = m.member
  BY <1>1, PathSplits
<1> DEFINE l == m.library.libref
<1>3. DatasetOf(m) = [kind |-> "dataset", libref |-> l, path |-> path] /\ l \in STRING
  BY <1>1 DEF DatasetOf, Source
<1> HIDE DEF path, l
<1>4. DatasetOf(m) \in SourceRecs /\ DatasetOf(m).kind = "dataset" /\ DatasetOf(m).path = path
  <2>1. DatasetOf(m).kind = "dataset" /\ DatasetOf(m).path = path
    BY <1>3
  <2>2. path \in Paths /\ l \in STRING \cup {""} /\ "dataset" \in {"file", "spde", "dataset", "library"}
    BY <1>2, <1>3
  <2>3. [kind |-> "dataset", libref |-> l, path |-> path] \in SourceRecs
    <3> HIDE DEF Paths
    <3> QED  BY <2>2 DEF SourceRecs
  <2> QED  BY <1>3, <2>1, <2>3
<1> QED  BY <1>2, <1>4 DEF path

\* The data sets of a library, name by name.
LEMMA DatasetsAreListed ==
    ASSUME NEW members \in Walks, NEW library \in LibraryRecs
    PROVE  \E h \in [0..Len(members.named) -> Seq(SourceRecs)] :
              /\ h[0] = << >>
              /\ \A k \in 1..Len(members.named) : h[k] = IF members.named[k].library = library
                           THEN Append(h[k - 1], Source("dataset", library.libref, library.dir \o <<members.named[k].member>>))
                                      ELSE h[k - 1]
              /\ DatasetsOf(members, library) = h[Len(members.named)]
<1> DEFINE d == Len(members.named)
           S == Seq(SourceRecs)
           base == << >>
           seqn == members.named
           Add(v, e) == IF e.library = library
                           THEN Append(v, Source("dataset", library.libref, library.dir \o <<e.member>>)) ELSE v
           step == [z \in (1..d) \X S |-> Add(z[2], seqn[z[1]])]
           Eqn(f) == f = [J \in SUBSET (1..d) |->
                            IF J = {} THEN base ELSE Add(f[J \ {Max(J)}], seqn[Max(J)])]
           c == CHOOSE f : Eqn(f)
<1>1. d \in Nat /\ DOMAIN seqn = 1..d
  BY LenProperties DEF Walks
<1>2. DatasetsOf(members, library) = c[1..d]
  BY <1>1 DEF DatasetsOf, FoldLeft, MapThenFoldSet
<1>3. base \in S
  BY EmptySeq
<1>4. ASSUME NEW v \in S, NEW k \in 1..d PROVE Add(v, seqn[k]) \in S
  <2> DEFINE m == members.named[k]
  <2>1. members.named \in Seq(NamedRecs) /\ m \in NamedRecs
    BY ElementOfSeq DEF Walks
  <2>2. Add(v, seqn[k]) = IF m.library = library THEN Append(v, DatasetOf(m)) ELSE v
    BY DEF DatasetOf
  <2> HIDE DEF Add, m
  <2>3. DatasetOf(m) \in SourceRecs
    BY <2>1, DatasetIs
  <2> QED  BY <2>2, <2>3, AppendProperties
<1> HIDE DEF Add
<1>5. step \in [(1..d) \X S -> S]
  <2> HIDE DEF S, d, seqn
  <2> QED  BY <1>4
<1>6. \A k \in 1..d : \A v \in S : step[<<k, v>>] = Add(v, seqn[k])
  OBVIOUS
<1> HIDE DEF step, d, S, base, seqn
<1>7. PICK f : FoldsLeft(f, d, S, base, step)
  BY <1>1, <1>3, <1>5, FoldLeftExists
<1>8. Eqn(f)
  <2>1. \A J \in SUBSET (1..d) : J # {} => Max(J) \in 1..d /\ f[J \ {Max(J)}] \in S
    BY <1>1, <1>7, LargestOf DEF FoldsLeft
  <2>2. \A J \in SUBSET (1..d) :
           f[J] = IF J = {} THEN base ELSE Add(f[J \ {Max(J)}], seqn[Max(J)])
    BY <1>1, <1>6, <1>7, <2>1 DEF FoldsLeft
  <2> QED  BY <1>7, <2>2 DEF FoldsLeft
<1>9. Eqn(c)
  <2> HIDE DEF Eqn
  <2> QED  BY <1>8
<1>10. \A J \in SUBSET (1..d) :
          c[J] = IF J = {} THEN base ELSE Add(c[J \ {Max(J)}], seqn[Max(J)])
  <2> HIDE DEF c
  <2> QED  BY <1>9
<1> HIDE DEF c, Eqn
<1>11. /\ c[{}] = base
       /\ \A k \in 1..d : c[1..(k - 1)] \in S => c[1..k] \in S
       /\ \A k \in 1..d : c[1..k] = Add(c[1..(k - 1)], seqn[k])
  <2>1. ASSUME NEW k \in 1..d PROVE c[1..k] = Add(c[1..(k - 1)], seqn[k])
    <3>1. k \in Nat /\ k # 0 /\ (1..k) \in SUBSET (1..d)
      BY <1>1
    <3>2. Max(1..k) = k /\ (1..k) \ {k} = 1..(k - 1) /\ 1..k # {}
      BY <3>1, PlacesUpTo
    <3> QED  BY <1>10, <3>1, <3>2
  <2>2. \A k \in 1..d : c[1..(k - 1)] \in S => c[1..k] \in S
    BY <1>4, <2>1
  <2> QED  BY <1>10, <2>1, <2>2
<1>12. PICK h \in [0..d -> S] : h[0] = c[{}] /\ \A k \in 0..d : h[k] = c[1..k]
  <2>1. d \in Nat /\ c[{}] \in S
    BY <1>1, <1>3, <1>11
  <2>2. Stays(c, d, S)
    BY <1>11 DEF Stays
  <2> QED  BY <2>1, <2>2, StatesUpTo
<1>13. \A k \in 1..d : h[k] = Add(h[k - 1], seqn[k])
  <2>1. \A k \in 1..d : k \in 0..d /\ k - 1 \in 0..d
    BY <1>1
  <2> QED  BY <1>11, <1>12, <2>1
<1>14. c[1..d] = h[d]
  BY <1>1, <1>12
<1>15. h \in [0..Len(members.named) -> Seq(SourceRecs)] /\ h[0] = << >>
  BY <1>11, <1>12 DEF d, S, base
<1>16. \A k \in 1..Len(members.named) : h[k] = IF members.named[k].library = library
                           THEN Append(h[k - 1], Source("dataset", library.libref, library.dir \o <<members.named[k].member>>))
                                      ELSE h[k - 1]
  BY <1>1, <1>13 DEF d, seqn, Add
<1>17. DatasetsOf(members, library) = h[Len(members.named)]
  BY <1>2, <1>14 DEF d
<1> QED  BY <1>15, <1>16, <1>17

\* The data sets of sources are those named at the places Q, each of them once.
Lists(named, Q, sources) ==
    /\ \A i \in DOMAIN sources : sources[i].kind = "dataset" =>
          \E p \in Q : sources[i] = DatasetOf(named[p])
    /\ \A p \in Q : \E i \in DOMAIN sources : sources[i] = DatasetOf(named[p])
    /\ \A i, j \in DOMAIN sources :
          sources[i].kind = "dataset" /\ sources[j].kind = "dataset"
          /\ sources[i].path = sources[j].path => i = j
    /\ \A i \in DOMAIN sources : sources[i].kind \in {"dataset", "file"} => sources[i].path # NoPath

\* No two places name one data set.
NamedApart(named) ==
    \A p, q \in DOMAIN named :
        named[p].library.dir = named[q].library.dir /\ named[p].member = named[q].member => p = q

LEMMA AppendedIsJoined ==
    ASSUME NEW S, NEW s \in Seq(S), NEW e \in S
    PROVE  Append(s, e) = s \o <<e>>
<1>1. <<e>> \in Seq(S) /\ Len(<<e>>) = 1 /\ <<e>>[1] = e
  BY OneLong
<1>2. /\ Append(s, e) \in Seq(S) /\ Len(Append(s, e)) = Len(s) + 1 /\ Len(s) \in Nat
      /\ Append(s, e)[Len(s) + 1] = e /\ \A i \in 1..Len(s) : Append(s, e)[i] = s[i]
  BY AppendProperties, LenProperties
<1> DEFINE one == <<e>>
<1>3. one \in Seq(S) /\ Len(one) = 1 /\ one[1] = e
  BY <1>1
<1> HIDE DEF one
<1>4. /\ s \o one \in Seq(S) /\ Len(s \o one) = Len(s) + 1
      /\ \A i \in 1..(Len(s) + 1) : (s \o one)[i] = IF i <= Len(s) THEN s[i] ELSE one[i - Len(s)]
  <2>1. /\ s \o one \in Seq(S) /\ Len(s \o one) = Len(s) + Len(one)
        /\ \A i \in 1..(Len(s) + Len(one)) : (s \o one)[i] = IF i <= Len(s) THEN s[i] ELSE one[i - Len(s)]
    BY <1>3, ConcatProperties
  <2>2. Len(one) = 1
    BY <1>3
  <2> QED  BY <2>1, <2>2
<1>5. ASSUME NEW i \in 1..(Len(s) + 1) PROVE Append(s, e)[i] = (s \o one)[i]
  <2>1. CASE i <= Len(s)
    <3>1. i \in 1..Len(s)
      BY <1>2, <2>1
    <3> QED  BY <1>2, <1>4, <2>1, <3>1
  <2>2. CASE ~(i <= Len(s))
    <3>1. i = Len(s) + 1 /\ i - Len(s) = 1
      BY <1>2, <2>2
    <3>2. (s \o one)[i] = one[i - Len(s)]
      BY <1>4, <2>2
    <3> QED  BY <1>2, <1>3, <3>1, <3>2
  <2> QED  BY <2>1, <2>2
<1>6. Append(s, e) = s \o one
  BY <1>2, <1>4, <1>5, SeqEqual
<1> QED  BY <1>6 DEF one

\* Place by place, s \o t is s and then t.
LEMMA Joined ==
    ASSUME NEW S, NEW s \in Seq(S), NEW t \in Seq(S)
    PROVE  /\ s \o t \in Seq(S)
           /\ \A i \in DOMAIN s : i \in DOMAIN (s \o t) /\ (s \o t)[i] = s[i]
           /\ \A i \in DOMAIN t : Len(s) + i \in DOMAIN (s \o t) /\ (s \o t)[Len(s) + i] = t[i]
           /\ \A i \in DOMAIN (s \o t) : i \in DOMAIN s \/ \E j \in DOMAIN t : i = Len(s) + j
           /\ \A i \in DOMAIN s : \A j \in DOMAIN t : i < Len(s) + j
<1> DEFINE a == Len(s)
           b == Len(t)
           u == s \o t
<1>1. a \in Nat /\ b \in Nat /\ DOMAIN s = 1..a /\ DOMAIN t = 1..b
  BY LenProperties
<1>2. /\ u \in Seq(S) /\ DOMAIN u = 1..(a + b)
      /\ \A i \in 1..(a + b) : u[i] = IF i <= a THEN s[i] ELSE t[i - a]
  <2>1. /\ u \in Seq(S) /\ Len(u) = a + b
        /\ \A i \in 1..(a + b) : u[i] = IF i <= a THEN s[i] ELSE t[i - a]
    BY ConcatProperties
  <2> HIDE DEF u
  <2> QED  BY <2>1, LenProperties
<1> HIDE DEF a, b, u
<1>3. \A i \in 1..a : i \in 1..(a + b) /\ u[i] = s[i]
  <2>1. \A i \in 1..a : i \in 1..(a + b) /\ i <= a
    BY <1>1
  <2> QED  BY <1>2, <2>1
<1>4. ASSUME NEW i \in 1..b PROVE a + i \in 1..(a + b) /\ u[a + i] = t[i]
  <2>1. a + i \in 1..(a + b) /\ ~(a + i <= a) /\ (a + i) - a = i
    BY <1>1
  <2>2. u[a + i] = t[(a + i) - a]
    BY <1>2, <2>1
  <2> QED  BY <2>1, <2>2
<1>5. ASSUME NEW i \in 1..(a + b) PROVE i \in 1..a \/ \E j \in 1..b : i = a + j
  <2>1. CASE i <= a
    BY <1>1, <2>1
  <2>2. CASE ~(i <= a)
    <3>1. i - a \in 1..b /\ i = a + (i - a)
      BY <1>1, <2>2
    <3> QED  BY <3>1
  <2> QED  BY <2>1, <2>2
<1>6. \A i \in 1..a : \A j \in 1..b : i < a + j
  BY <1>1
<1> QED  BY <1>1, <1>2, <1>3, <1>4, <1>5, <1>6 DEF a, u

LEMMA ListsJoin ==
    ASSUME NEW named \in Seq(NamedRecs), NamedApart(named),
           NEW Q, NEW R, Q \subseteq DOMAIN named, R \subseteq DOMAIN named, Q \cap R = {},
           NEW s \in Seq(SourceRecs), NEW t \in Seq(SourceRecs),
           Lists(named, Q, s), Lists(named, R, t)
    PROVE  s \o t \in Seq(SourceRecs) /\ Lists(named, Q \cup R, s \o t)
<1> DEFINE u == s \o t
           a == Len(s)
<1>1. /\ u \in Seq(SourceRecs)
      /\ \A i \in DOMAIN s : i \in DOMAIN u /\ u[i] = s[i]
      /\ \A i \in DOMAIN t : a + i \in DOMAIN u /\ u[a + i] = t[i]
      /\ \A i \in DOMAIN u : i \in DOMAIN s \/ \E j \in DOMAIN t : i = a + j
  <2>1. /\ s \o t \in Seq(SourceRecs)
        /\ \A i \in DOMAIN s : i \in DOMAIN (s \o t) /\ (s \o t)[i] = s[i]
        /\ \A i \in DOMAIN t : Len(s) + i \in DOMAIN (s \o t) /\ (s \o t)[Len(s) + i] = t[i]
        /\ \A i \in DOMAIN (s \o t) : i \in DOMAIN s \/ \E j \in DOMAIN t : i = Len(s) + j
        /\ \A i \in DOMAIN s : \A j \in DOMAIN t : i < Len(s) + j
    BY Joined, Zenon
  <2> QED  BY <2>1, Zenon
<1> HIDE DEF u, a
<1>2. ASSUME NEW i \in DOMAIN u, u[i].kind = "dataset"
      PROVE  \E p \in Q \cup R : u[i] = DatasetOf(named[p])
  <2>1. CASE i \in DOMAIN s
    BY <1>1, <1>2, <2>1 DEF Lists
  <2>2. CASE \E j \in DOMAIN t : i = a + j
    BY <1>1, <1>2, <2>2 DEF Lists
  <2> QED  BY <1>1, <2>1, <2>2
<1>3. ASSUME NEW p \in Q \cup R PROVE \E i \in DOMAIN u : u[i] = DatasetOf(named[p])
  <2>1. CASE p \in Q
    BY <1>1, <2>1 DEF Lists
  <2>2. CASE p \in R
    BY <1>1, <2>2 DEF Lists
  <2> QED  BY <2>1, <2>2
<1>4. ASSUME NEW p \in DOMAIN named, NEW q \in DOMAIN named,
             DatasetOf(named[p]).path = DatasetOf(named[q]).path
      PROVE  p = q
  <2>1. named[p] \in NamedRecs /\ named[q] \in NamedRecs
    BY LenProperties, ElementOfSeq
  <2>2. /\ Front(DatasetOf(named[p]).path) = named[p].library.dir
        /\ Last(DatasetOf(named[p]).path) = named[p].member
        /\ Front(DatasetOf(named[q]).path) = named[q].library.dir
        /\ Last(DatasetOf(named[q]).path) = named[q].member
    BY <2>1, DatasetIs
  <2>3. named[p].library.dir = named[q].library.dir /\ named[p].member = named[q].member
    BY <1>4, <2>2
  <2> QED  BY <2>3 DEF NamedApart
<1>5. ASSUME NEW i \in DOMAIN s, NEW j \in DOMAIN t,
             s[i].kind = "dataset", t[j].kind = "dataset", s[i].path = t[j].path
      PROVE  FALSE
  <2>1. PICK p \in Q : s[i] = DatasetOf(named[p])
    BY <1>5 DEF Lists
  <2>2. PICK q \in R : t[j] = DatasetOf(named[q])
    BY <1>5 DEF Lists
  <2>3. DatasetOf(named[p]).path = DatasetOf(named[q]).path
    BY <1>5, <2>1, <2>2
  <2>4. p = q
    BY <1>4, <2>3
  <2> QED  BY <2>4
<1>6. ASSUME NEW i \in DOMAIN u, NEW j \in DOMAIN u,
             u[i].kind = "dataset", u[j].kind = "dataset", u[i].path = u[j].path
      PROVE  i = j
  <2>1. CASE i \in DOMAIN s /\ j \in DOMAIN s
    <3>1. s[i].kind = "dataset" /\ s[j].kind = "dataset" /\ s[i].path = s[j].path
      BY <1>1, <1>6, <2>1
    <3> QED  BY <2>1, <3>1 DEF Lists
  <2>2. CASE i \in DOMAIN s /\ \E y \in DOMAIN t : j = a + y
    <3>1. PICK y \in DOMAIN t : j = a + y
      BY <2>2
    <3>2. s[i].kind = "dataset" /\ t[y].kind = "dataset" /\ s[i].path = t[y].path
      BY <1>1, <1>6, <2>2, <3>1
    <3> QED  BY <1>5, <2>2, <3>2
  <2>3. CASE j \in DOMAIN s /\ \E x \in DOMAIN t : i = a + x
    <3>1. PICK x \in DOMAIN t : i = a + x
      BY <2>3
    <3>2. s[j].kind = "dataset" /\ t[x].kind = "dataset" /\ s[j].path = t[x].path
      BY <1>1, <1>6, <2>3, <3>1
    <3> QED  BY <1>5, <2>3, <3>2
  <2>4. CASE (\E x \in DOMAIN t : i = a + x) /\ \E y \in DOMAIN t : j = a + y
    <3>1. PICK x \in DOMAIN t : i = a + x
      BY <2>4
    <3>2. PICK y \in DOMAIN t : j = a + y
      BY <2>4
    <3>3. t[x].kind = "dataset" /\ t[y].kind = "dataset" /\ t[x].path = t[y].path
      BY <1>1, <1>6, <3>1, <3>2
    <3>4. x = y
      BY <3>3 DEF Lists
    <3> QED  BY <3>1, <3>2, <3>4
  <2> QED  BY <1>1, <2>1, <2>2, <2>3, <2>4
<1>7. ASSUME NEW i \in DOMAIN u, u[i].kind \in {"dataset", "file"} PROVE u[i].path # NoPath
  <2>1. CASE i \in DOMAIN s
    BY <1>1, <1>7, <2>1 DEF Lists
  <2>2. CASE \E j \in DOMAIN t : i = a + j
    <3>1. PICK j \in DOMAIN t : i = a + j
      BY <2>2
    <3>2. u[i] = t[j]
      BY <1>1, <3>1
    <3> QED  BY <1>7, <3>2 DEF Lists
  <2> QED  BY <1>1, <2>1, <2>2
<1>8. Lists(named, Q \cup R, u)
  BY <1>2, <1>3, <1>6, <1>7 DEF Lists
<1> QED  BY <1>1, <1>8 DEF u

\* A source of its own: one data set, or none.
LEMMA ListsOne ==
    ASSUME NEW named \in Seq(NamedRecs), NEW e \in SourceRecs
    PROVE  /\ <<e>> \in Seq(SourceRecs)
           /\ \A p \in DOMAIN named : e = DatasetOf(named[p]) => Lists(named, {p}, <<e>>)
           /\ e.kind # "dataset" /\ (e.kind = "file" => e.path # NoPath) => Lists(named, {}, <<e>>)
           /\ Lists(named, {}, << >>)
<1> DEFINE one == <<e>>
<1>1. one \in Seq(SourceRecs) /\ DOMAIN one = {1} /\ one[1] = e
  BY OneLong
<1> HIDE DEF one
<1>2. ASSUME NEW p \in DOMAIN named, e = DatasetOf(named[p]) PROVE Lists(named, {p}, one)
  <2>1. named[p] \in NamedRecs
    BY LenProperties, ElementOfSeq
  <2>2. e.path # NoPath
    BY <1>2, <2>1, DatasetIs
  <2> QED  BY <1>1, <1>2, <2>2 DEF Lists
<1>3. ASSUME e.kind # "dataset", e.kind = "file" => e.path # NoPath PROVE Lists(named, {}, one)
  BY <1>1, <1>3 DEF Lists
<1>4. Lists(named, {}, << >>)
  <2>1. DOMAIN << >> = {}
    OBVIOUS
  <2> QED  BY <2>1 DEF Lists
<1> QED  BY <1>1, <1>2, <1>3, <1>4 DEF one

NamedIn(named, library) == {p \in DOMAIN named : named[p].library = library}

LEMMA DatasetsAre ==
    ASSUME NEW members \in Walks, NamedApart(members.named), NEW library \in LibraryRecs
    PROVE  /\ DatasetsOf(members, library) \in Seq(SourceRecs)
           /\ Lists(members.named, NamedIn(members.named, library), DatasetsOf(members, library))
<1> DEFINE named == members.named
           n == Len(named)
           P(k) == {p \in 1..k : named[p].library = library}
<1>1. named \in Seq(NamedRecs) /\ n \in Nat /\ DOMAIN named = 1..n
  BY LenProperties DEF Walks
<1>2. PICK h \in [0..n -> Seq(SourceRecs)] :
         /\ h[0] = << >>
         /\ \A k \in 1..n : h[k] = IF named[k].library = library
                                   THEN Append(h[k - 1], Source("dataset", library.libref,
                                                                library.dir \o <<named[k].member>>))
                                   ELSE h[k - 1]
         /\ DatasetsOf(members, library) = h[n]
  BY DatasetsAreListed
<1> HIDE DEF named, n
<1> DEFINE Good(k) == Lists(named, P(k), h[k])
           B == {k \in 0..n : Good(k)}
<1>3. 0 \in B
  <2>1. P(0) = {}
    OBVIOUS
  <2>2. Lists(named, {}, << >>)
    <3>1. DOMAIN << >> = {}
      OBVIOUS
    <3> QED  BY <3>1 DEF Lists
  <2>3. Good(0)
    <3> HIDE DEF P
    <3> QED  BY <1>2, <2>1, <2>2
  <2> QED  BY <1>1, <2>3
<1>4. ASSUME NEW k \in 1..n, k - 1 \in B PROVE k \in B
  <2> DEFINE m == named[k]
             v == h[k - 1]
  <2>1. /\ m \in NamedRecs /\ v \in Seq(SourceRecs) /\ Lists(named, P(k - 1), v)
        /\ k \in 0..n /\ k \in DOMAIN named
    <3>1. m \in NamedRecs
      BY <1>1, ElementOfSeq DEF n
    <3>2. k \in 0..n /\ k - 1 \in 0..n /\ k \in DOMAIN named
      BY <1>1
    <3>3. v \in Seq(SourceRecs)
      BY <1>2, <3>2
    <3>4. Good(k - 1)
      BY <1>4
    <3> QED  BY <3>1, <3>2, <3>3, <3>4
  <2>2. P(k) = P(k - 1) \cup (IF m.library = library THEN {k} ELSE {})
    BY <1>1
  <2>3. P(k - 1) \subseteq DOMAIN named /\ P(k - 1) \cap {k} = {} /\ {k} \subseteq DOMAIN named
    BY <1>1
  <2>4. h[k] = IF m.library = library THEN Append(v, DatasetOf(m)) ELSE v
    BY <1>2 DEF DatasetOf
  <2>5. DatasetOf(m) \in SourceRecs
    BY <2>1, DatasetIs
  <2>6. Good(k)
    <3>1. CASE m.library = library
      <4> DEFINE e == DatasetOf(m)
      <4>1. <<e>> \in Seq(SourceRecs) /\ Lists(named, {k}, <<e>>)
        BY <1>1, <2>1, <2>5, ListsOne
      <4> HIDE DEF P, m, v, e
      <4>2. h[k] = v \o <<e>>
        <5>1. e \in SourceRecs
          BY <2>5 DEF e
        <5>2. Append(v, e) = v \o <<e>>
          BY <2>1, <5>1, AppendedIsJoined
        <5> QED  BY <2>4, <3>1, <5>2 DEF e
      <4> DEFINE t == <<e>>
      <4>3. t \in Seq(SourceRecs) /\ Lists(named, {k}, t) /\ NamedApart(named)
        BY <4>1 DEF named
      <4> HIDE DEF t
      <4>4. Lists(named, P(k - 1) \cup {k}, v \o t)
        BY <1>1, <2>1, <2>3, <4>3, ListsJoin
      <4> QED  BY <2>2, <3>1, <4>2, <4>4 DEF t
    <3>2. CASE m.library # library
      <4> HIDE DEF P, m, v
      <4>1. P(k) = P(k - 1) /\ h[k] = v
        BY <2>2, <2>4, <3>2
      <4> QED  BY <2>1, <4>1
    <3> QED  BY <3>1, <3>2
  <2> HIDE DEF Good
  <2> QED  BY <2>1, <2>6
<1>5. Good(n)
  <2>1. \A k \in 0..n : k \in B
    <3> HIDE DEF B
    <3> QED  BY <1>1, <1>3, <1>4, UpTo
  <2> QED  BY <1>1, <2>1
<1>6. P(n) = NamedIn(named, library)
  BY <1>1 DEF NamedIn
<1>7. n \in 0..n
  BY <1>1
<1> HIDE DEF P
<1> QED  BY <1>2, <1>5, <1>6, <1>7 DEF named

LEMMA SourceIs ==
    ASSUME NEW libref \in STRING \cup {""}, NEW path \in Paths,
           NEW kind \in {"file", "spde", "dataset", "library"}
    PROVE  /\ Source(kind, libref, path) \in SourceRecs
           /\ Source(kind, libref, path).kind = kind /\ Source(kind, libref, path).path = path
<1> DEFINE source == [kind |-> kind, libref |-> libref, path |-> path]
<1>1. Source(kind, libref, path) = source
  BY DEF Source
<1>2. source \in SourceRecs
  <2> HIDE DEF Paths
  <2> QED  BY DEF SourceRecs
<1>3. source.kind = kind /\ source.path = path
  OBVIOUS
<1> QED  BY <1>1, <1>2, <1>3

PlanStates == [cwd : Paths, sources : Seq(SourceRecs), expanded : SUBSET LibraryRecs]

\* Where the sources of a plan begin.
StartPlan == [cwd |-> NoPath, sources |-> << >>, expanded |-> {}]

\* DeclaredAt, field by field.
LEMMA DeclaredIs ==
    ASSUME NEW members \in Walks, NamedApart(members.named), NEW library \in LibraryRecs, NEW state \in PlanStates
    PROVE  LET datasets == DatasetsOf(members, library)
               expands == datasets # << >> /\ library \notin state.expanded
               after == DeclaredAt(members, state, library)
               one == <<Source("library", library.libref, library.dir)>>
           IN  /\ datasets \in Seq(SourceRecs)
               /\ after \in PlanStates /\ after.cwd = state.cwd
               /\ expands => after.expanded = state.expanded \cup {library}
               /\ \/ after.sources = (state.sources \o (IF expands THEN datasets ELSE << >>)) \o one
                  \/ after.sources = (state.sources \o (IF expands THEN datasets ELSE << >>)) \o << >>
<1> DEFINE datasets == DatasetsOf(members, library)
           expands == datasets # << >> /\ library \notin state.expanded
           whole == \/ library \in members.listed \/ members.unknown
                    \/ datasets = << >> /\ library \notin members.covered
           one == <<Source("library", library.libref, library.dir)>>
           named == IF expands THEN datasets ELSE << >>
           listed == IF whole THEN one ELSE << >>
           sources == (state.sources \o named) \o listed
           expanded == IF expands THEN state.expanded \cup {library} ELSE state.expanded
           after == DeclaredAt(members, state, library)
<1>1. after = [state EXCEPT !.sources = sources, !.expanded = expanded]
  BY DEF DeclaredAt
<1>2. /\ state.cwd \in Paths /\ state.sources \in Seq(SourceRecs) /\ state.expanded \in SUBSET LibraryRecs
      /\ state = [cwd |-> state.cwd, sources |-> state.sources, expanded |-> state.expanded]
  <2> HIDE DEF sources, expanded
  <2> QED  BY DEF PlanStates
<1>3. datasets \in Seq(SourceRecs)
  BY DatasetsAre
<1>4. one \in Seq(SourceRecs) /\ << >> \in Seq(SourceRecs)
  <2> DEFINE e == Source("library", library.libref, library.dir)
  <2>1. e \in SourceRecs
    <3>1. library.libref \in STRING \cup {""} /\ library.dir \in Paths
      BY DEF LibraryRecs
    <3> QED  BY <3>1, SourceIs
  <2> HIDE DEF e
  <2>2. <<e>> \in Seq(SourceRecs)
    BY <2>1, OneLong
  <2> QED  BY <2>2, EmptySeq DEF e
<1> HIDE DEF datasets, one
<1>5. named \in Seq(SourceRecs) /\ listed \in Seq(SourceRecs)
  BY <1>3, <1>4
<1>6. expanded \in SUBSET LibraryRecs
  BY <1>2
<1>7. \/ listed = one \/ listed = << >>
  OBVIOUS
<1>8. sources \in Seq(SourceRecs)
  <2> HIDE DEF named, listed
  <2> DEFINE both == state.sources \o named
  <2>1. both \in Seq(SourceRecs)
    BY <1>2, <1>5, ConcatProperties
  <2> HIDE DEF both
  <2>2. both \o listed \in Seq(SourceRecs)
    BY <1>5, <2>1, ConcatProperties
  <2> QED  BY <2>2 DEF both
<1>9. \/ sources = (state.sources \o named) \o one
      \/ sources = (state.sources \o named) \o << >>
  <2> HIDE DEF listed, named
  <2> QED  BY <1>7
<1> HIDE DEF sources, expanded, named, listed
<1>10. after = [cwd |-> state.cwd, sources |-> sources, expanded |-> expanded]
  BY <1>1, <1>2
<1> HIDE DEF after
<1>11. after \in PlanStates /\ after.cwd = state.cwd /\ after.expanded = expanded /\ after.sources = sources
  BY <1>2, <1>6, <1>8, <1>10 DEF PlanStates
<1>12. expands => after.expanded = state.expanded \cup {library}
  <2> SUFFICES ASSUME expands PROVE after.expanded = state.expanded \cup {library}
    OBVIOUS
  <2>1. expanded = state.expanded \cup {library}
    BY DEF expanded
  <2> QED  BY <1>11, <2>1
<1>14. \/ after.sources = (state.sources \o named) \o one
       \/ after.sources = (state.sources \o named) \o << >>
  BY <1>9, <1>11
<1> QED  BY <1>3, <1>11, <1>12, <1>14 DEF after, named, datasets, one

LEMMA NoneDeclared ==
    ASSUME NEW members \in Walks, NamedApart(members.named), NEW library \in LibraryRecs, NEW state \in PlanStates,
           DatasetsOf(members, library) = << >> \/ library \in state.expanded
    PROVE  DeclaredAt(members, state, library).expanded = state.expanded
<1> DEFINE datasets == DatasetsOf(members, library)
           expands == datasets # << >> /\ library \notin state.expanded
           whole == \/ library \in members.listed \/ members.unknown
                    \/ datasets = << >> /\ library \notin members.covered
           sources == state.sources \o (IF expands THEN datasets ELSE << >>)
                        \o (IF whole THEN <<Source("library", library.libref, library.dir)>> ELSE << >>)
           expanded == IF expands THEN state.expanded \cup {library} ELSE state.expanded
           after == DeclaredAt(members, state, library)
<1>1. after = [state EXCEPT !.sources = sources, !.expanded = expanded]
  BY DEF DeclaredAt
<1>2. expanded = state.expanded
  <2> HIDE DEF datasets
  <2> QED  BY DEF datasets
<1> HIDE DEF after, sources, expanded
<1>3. after.expanded = expanded
  BY <1>1 DEF PlanStates
<1> QED  BY <1>2, <1>3 DEF after

LEMMA AddingIs ==
    ASSUME NEW state \in PlanStates, NEW source \in SourceRecs
    PROVE  /\ Adding(state, source) \in PlanStates /\ Adding(state, source).cwd = state.cwd
           /\ Adding(state, source).expanded = state.expanded
           /\ Adding(state, source).sources = state.sources \o <<source>>
<1>1. /\ state.cwd \in Paths /\ state.sources \in Seq(SourceRecs) /\ state.expanded \in SUBSET LibraryRecs
      /\ state = [cwd |-> state.cwd, sources |-> state.sources, expanded |-> state.expanded]
  BY DEF PlanStates
<1>2. Append(state.sources, source) \in Seq(SourceRecs) /\ Append(state.sources, source) = state.sources \o <<source>>
  BY <1>1, AppendedIsJoined, AppendProperties
<1> DEFINE sources == Append(state.sources, source)
           after == Adding(state, source)
<1>3. after = [state EXCEPT !.sources = sources]
  BY DEF Adding
<1>4. sources \in Seq(SourceRecs)
  BY <1>2
<1> HIDE DEF sources, after
<1>5. after = [cwd |-> state.cwd, sources |-> sources, expanded |-> state.expanded]
  BY <1>1, <1>3
<1>6. after \in PlanStates /\ after.cwd = state.cwd /\ after.expanded = state.expanded /\ after.sources = sources
  BY <1>1, <1>4, <1>5 DEF PlanStates
<1> QED  BY <1>2, <1>6 DEF after, sources

LEMMA SourcesAreTyped ==
    ASSUME NEW members \in Walks, NamedApart(members.named), NEW state \in PlanStates, NEW s \in SasStatements
    PROVE  SourcesAt(members, state, s) \in PlanStates
<1> DEFINE library == LibraryOf(state.cwd, s)
           after == SourcesAt(members, state, s)
<1>1. state.cwd \in Paths /\ s.path \in Paths /\ s.libref \in STRING
  BY StatementIs DEF PlanStates
<1>2. library \in LibraryRecs /\ library.dir \in Paths
  BY <1>1, LibraryIs DEF LibraryRecs
<1>3. ChangeDirectory(state.cwd, s.path) \in Paths /\ Placed(state.cwd, s.path) \in Paths
  BY <1>1, PlacesAre
<1> DEFINE file == Source("file", "", Placed(state.cwd, s.path))
           spde == Source("spde", s.libref, library.dir)
           moved == [state EXCEPT !.cwd = ChangeDirectory(@, s.path)]
<1>4. file \in SourceRecs /\ spde \in SourceRecs
  BY <1>1, <1>2, <1>3, SourceIs
<1>5. /\ Adding(state, file) \in PlanStates /\ Adding(state, spde) \in PlanStates
  <2> HIDE DEF file, spde
  <2> QED  BY <1>4, AddingIs
<1>6. DeclaredAt(members, state, library) \in PlanStates
  <2> HIDE DEF library
  <2> QED  BY <1>2, DeclaredIs
<1>7. moved \in PlanStates
  <2> DEFINE to == ChangeDirectory(state.cwd, s.path)
  <2>1. to \in Paths
    BY <1>3
  <2>2. moved = [state EXCEPT !.cwd = to]
    OBVIOUS
  <2> HIDE DEF to, moved
  <2> QED  BY <2>1, <2>2 DEF PlanStates
<1>8. \/ after = moved \/ after = Adding(state, file) \/ after = Adding(state, spde) \/ after = state
      \/ after = DeclaredAt(members, state, library)
  <2> HIDE DEF library
  <2> QED  BY DEF SourcesAt, library
<1> HIDE DEF after, moved
<1> QED  BY <1>5, <1>6, <1>7, <1>8 DEF after


\* The state of the plan after the statements flat.
PlannedFrom(flat, members) ==
    FoldLeft(LAMBDA st, s : SourcesAt(members, st, s),
             [cwd |-> NoPath, sources |-> << >>, expanded |-> {}], flat)

LEMMA SourcesAre ==
    ASSUME NEW files, NEW members
    PROVE  Sources(files, members) = PlannedFrom(Flat(files), members).sources
BY DEF Sources, PlannedFrom

\* The plan of a corpus, statement by statement.
LEMMA CorpusIsPlanned ==
    ASSUME NEW flat \in Seq(SasStatements), NEW members \in Walks, NamedApart(members.named)
    PROVE  \E h \in [0..Len(flat) -> PlanStates] :
              /\ h[0] = StartPlan
              /\ \A k \in 1..Len(flat) : h[k] = SourcesAt(members, h[k - 1], flat[k])
              /\ PlannedFrom(flat, members) = h[Len(flat)]
<1> DEFINE d == Len(flat)
           S == PlanStates
           base == StartPlan
           seqn == flat
           Add(v, e) == SourcesAt(members, v, e)
           step == [z \in (1..d) \X S |-> Add(z[2], seqn[z[1]])]
           Eqn(f) == f = [J \in SUBSET (1..d) |->
                            IF J = {} THEN base ELSE Add(f[J \ {Max(J)}], seqn[Max(J)])]
           c == CHOOSE f : Eqn(f)
<1>1. d \in Nat /\ DOMAIN seqn = 1..d
  BY LenProperties
<1>2. PlannedFrom(flat, members) = c[1..d]
  BY <1>1 DEF PlannedFrom, StartPlan, FoldLeft, MapThenFoldSet
<1>3. base \in S
  BY PathsAre, EmptySeq DEF StartPlan, PlanStates
<1>4. ASSUME NEW v \in S, NEW k \in 1..d PROVE Add(v, seqn[k]) \in S
  <2>1. seqn[k] \in SasStatements
    BY ElementOfSeq
  <2> QED  BY <2>1, SourcesAreTyped
<1> HIDE DEF Add
<1>5. step \in [(1..d) \X S -> S]
  <2> HIDE DEF S, d, seqn
  <2> QED  BY <1>4
<1>6. \A k \in 1..d : \A v \in S : step[<<k, v>>] = Add(v, seqn[k])
  OBVIOUS
<1> HIDE DEF step, d, S, base, seqn
<1>7. PICK f : FoldsLeft(f, d, S, base, step)
  BY <1>1, <1>3, <1>5, FoldLeftExists
<1>8. Eqn(f)
  <2>1. \A J \in SUBSET (1..d) : J # {} => Max(J) \in 1..d /\ f[J \ {Max(J)}] \in S
    BY <1>1, <1>7, LargestOf DEF FoldsLeft
  <2>2. \A J \in SUBSET (1..d) :
           f[J] = IF J = {} THEN base ELSE Add(f[J \ {Max(J)}], seqn[Max(J)])
    BY <1>1, <1>6, <1>7, <2>1 DEF FoldsLeft
  <2> QED  BY <1>7, <2>2 DEF FoldsLeft
<1>9. Eqn(c)
  <2> HIDE DEF Eqn
  <2> QED  BY <1>8
<1>10. \A J \in SUBSET (1..d) :
          c[J] = IF J = {} THEN base ELSE Add(c[J \ {Max(J)}], seqn[Max(J)])
  <2> HIDE DEF c
  <2> QED  BY <1>9
<1> HIDE DEF c, Eqn
<1>11. /\ c[{}] = base
       /\ \A k \in 1..d : c[1..(k - 1)] \in S => c[1..k] \in S
       /\ \A k \in 1..d : c[1..k] = Add(c[1..(k - 1)], seqn[k])
  <2>1. ASSUME NEW k \in 1..d PROVE c[1..k] = Add(c[1..(k - 1)], seqn[k])
    <3>1. k \in Nat /\ k # 0 /\ (1..k) \in SUBSET (1..d)
      BY <1>1
    <3>2. Max(1..k) = k /\ (1..k) \ {k} = 1..(k - 1) /\ 1..k # {}
      BY <3>1, PlacesUpTo
    <3> QED  BY <1>10, <3>1, <3>2
  <2>2. \A k \in 1..d : c[1..(k - 1)] \in S => c[1..k] \in S
    BY <1>4, <2>1
  <2> QED  BY <1>10, <2>1, <2>2
<1>12. PICK h \in [0..d -> S] : h[0] = c[{}] /\ \A k \in 0..d : h[k] = c[1..k]
  <2>1. d \in Nat /\ c[{}] \in S
    BY <1>1, <1>3, <1>11
  <2>2. Stays(c, d, S)
    BY <1>11 DEF Stays
  <2> QED  BY <2>1, <2>2, StatesUpTo
<1>13. \A k \in 1..d : h[k] = Add(h[k - 1], seqn[k])
  <2>1. \A k \in 1..d : k \in 0..d /\ k - 1 \in 0..d
    BY <1>1
  <2> QED  BY <1>11, <1>12, <2>1
<1>14. c[1..d] = h[d]
  BY <1>1, <1>12
<1>15. h \in [0..Len(flat) -> PlanStates] /\ h[0] = StartPlan
  BY <1>11, <1>12 DEF d, S, base
<1>16. \A k \in 1..Len(flat) : h[k] = SourcesAt(members, h[k - 1], flat[k])
  BY <1>1, <1>13 DEF d, seqn, Add
<1>17. PlannedFrom(flat, members) = h[Len(flat)]
  BY <1>2, <1>14 DEF d
<1> QED  BY <1>15, <1>16, <1>17

\* The places of the data sets whose libraries are expanded.
Expanded(named, libraries) == {p \in DOMAIN named : named[p].library \in libraries}

\* The plan after the first g statements of flat.
SourcesFit(flat, g, named, state) ==
    /\ state.cwd = CwdAt(flat, g + 1)
    /\ Lists(named, Expanded(named, state.expanded), state.sources)
    /\ \A p \in DOMAIN named : \A h \in 1..g : Declares(flat, h, named[p].library) =>
          named[p].library \in state.expanded

\* A library no data set is named in plans none of them.
LEMMA NoneIsNamed ==
    ASSUME NEW members \in Walks, NamedApart(members.named), NEW library \in LibraryRecs,
           DatasetsOf(members, library) = << >>
    PROVE  NamedIn(members.named, library) = {}
<1>1. Lists(members.named, NamedIn(members.named, library), << >>)
  BY DatasetsAre
<1>2. DOMAIN << >> = {}
  OBVIOUS
<1> QED  BY <1>1, <1>2 DEF Lists

LEMMA ListsMore ==
    ASSUME NEW named \in Seq(NamedRecs), NamedApart(named), NEW Q, Q \subseteq DOMAIN named,
           NEW s \in Seq(SourceRecs), NEW e \in SourceRecs, Lists(named, Q, s),
           e.kind # "dataset", e.kind = "file" => e.path # NoPath
    PROVE  Lists(named, Q, s \o <<e>>) /\ Lists(named, Q, s \o << >>)
<1> DEFINE t == <<e>>
           none == << >>
<1>1. t \in Seq(SourceRecs) /\ Lists(named, {}, t) /\ Lists(named, {}, none) /\ none \in Seq(SourceRecs)
  BY ListsOne, EmptySeq
<1> HIDE DEF t, none
<1>2. {} \subseteq DOMAIN named /\ Q \cap {} = {} /\ Q \cup {} = Q
  OBVIOUS
<1>3. Lists(named, Q \cup {}, s \o t)
  BY <1>1, <1>2, ListsJoin
<1>4. Lists(named, Q \cup {}, s \o none)
  BY <1>1, <1>2, ListsJoin
<1> QED  BY <1>2, <1>3, <1>4 DEF t, none

\* A declared library brings in its data sets, the first time.
LEMMA DeclaredFits ==
    ASSUME NEW members \in Walks, NamedApart(members.named), NEW library \in LibraryRecs,
           NEW state \in PlanStates,
           Lists(members.named, Expanded(members.named, state.expanded), state.sources)
    PROVE  LET after == DeclaredAt(members, state, library)
           IN  /\ Lists(members.named, Expanded(members.named, after.expanded), after.sources)
               /\ state.expanded \subseteq after.expanded
               /\ NamedIn(members.named, library) # {} => library \in after.expanded
<1> DEFINE named == members.named
           D == DatasetsOf(members, library)
           expands == D # << >> /\ library \notin state.expanded
           after == DeclaredAt(members, state, library)
           e == Source("library", library.libref, library.dir)
           Q == Expanded(named, state.expanded)
           R == NamedIn(named, library)
           added == IF expands THEN D ELSE << >>
           sources == state.sources \o added
<1>1. named \in Seq(NamedRecs) /\ state.sources \in Seq(SourceRecs)
  BY DEF Walks, PlanStates
<1>2. D \in Seq(SourceRecs) /\ Lists(named, R, D)
  BY DatasetsAre
<1>3. e \in SourceRecs /\ e.kind = "library"
  <2>1. library.libref \in STRING \cup {""} /\ library.dir \in Paths
    BY DEF LibraryRecs
  <2> QED  BY <2>1, SourceIs
<1>4. /\ after.expanded = IF expands THEN state.expanded \cup {library} ELSE state.expanded
      /\ after.sources = sources \o <<e>> \/ after.sources = sources \o << >>
  <2>1. after.expanded = IF expands THEN state.expanded \cup {library} ELSE state.expanded
    <3>1. expands => after.expanded = state.expanded \cup {library}
      BY DeclaredIs
    <3>2. ASSUME D = << >> \/ library \in state.expanded PROVE after.expanded = state.expanded
      BY <3>2, NoneDeclared
    <3> HIDE DEF after, D
    <3> QED  BY <3>1, <3>2
  <2>2. after.sources = sources \o <<e>> \/ after.sources = sources \o << >>
    <3>1. \/ after.sources = (state.sources \o (IF D # << >> /\ library \notin state.expanded THEN D ELSE << >>)) \o <<e>>
          \/ after.sources = (state.sources \o (IF D # << >> /\ library \notin state.expanded THEN D ELSE << >>)) \o << >>
      BY DeclaredIs
    <3> HIDE DEF after, D, e
    <3> QED  BY <3>1
  <2> QED  BY <2>1, <2>2
<1>5. Q \subseteq DOMAIN named /\ R \subseteq DOMAIN named
  BY DEF Expanded, NamedIn
<1>6. D = << >> => R = {}
  BY NoneIsNamed
<1>7. R # {} => library \in after.expanded
  <2> HIDE DEF R, D, after
  <2>1. CASE expands
    BY <1>4, <2>1
  <2>2. CASE ~expands
    BY <1>4, <1>6, <2>2
  <2> QED  BY <2>1, <2>2
<1>8. state.expanded \subseteq after.expanded
  <2> HIDE DEF after
  <2> QED  BY <1>4
<1>9. Lists(named, Expanded(named, after.expanded), sources) /\ sources \in Seq(SourceRecs)
  <2>1. CASE expands
    <3>1. Expanded(named, after.expanded) = Q \cup R
      <4> HIDE DEF after, D, named
      <4> QED  BY <1>4, <2>1 DEF Expanded, NamedIn
    <3>2. Q \cap R = {}
      <4> HIDE DEF D, named
      <4> QED  BY <2>1 DEF Expanded, NamedIn
    <3>3. added = D
      <4> HIDE DEF D
      <4> QED  BY <2>1
    <3> HIDE DEF named, D, Q, R, added, expands, after
    <3>4. NamedApart(named) /\ Lists(named, Q, state.sources)
      BY DEF named, Q
    <3>5. state.sources \o D \in Seq(SourceRecs) /\ Lists(named, Q \cup R, state.sources \o D)
      BY <1>1, <1>2, <1>5, <3>2, <3>4, ListsJoin
    <3> QED  BY <3>1, <3>3, <3>5
  <2>2. CASE ~expands
    <3>1. added = << >> /\ after.expanded = state.expanded
      <4> HIDE DEF D, after
      <4> QED  BY <1>4, <2>2
    <3> HIDE DEF named, D, R, added, expands, after
    <3>2. NamedApart(named) /\ Lists(named, Q, state.sources)
      BY DEF named
    <3> HIDE DEF Q
    <3> DEFINE none == << >>
    <3>3. Lists(named, Q, state.sources \o none)
      BY <1>1, <1>3, <1>5, <3>2, ListsMore
    <3>4. state.sources \o none \in Seq(SourceRecs)
      <4>1. none \in Seq(SourceRecs)
        BY EmptySeq
      <4> HIDE DEF none
      <4> QED  BY <1>1, <4>1, ConcatProperties
    <3> QED  BY <3>1, <3>3, <3>4 DEF Q
  <2> QED  BY <2>1, <2>2
<1> DEFINE X == Expanded(named, after.expanded)
<1>10. Lists(named, X, after.sources)
  <2>1. X \subseteq DOMAIN named /\ NamedApart(named) /\ Lists(named, X, sources)
    BY <1>9 DEF Expanded
  <2> HIDE DEF named, X, sources, e, after
  <2>2. Lists(named, X, sources \o <<e>>) /\ Lists(named, X, sources \o << >>)
    BY <1>1, <1>3, <1>9, <2>1, ListsMore
  <2> QED  BY <1>4, <2>2
<1> QED  BY <1>7, <1>8, <1>10

LEMMA StatementIsPlanned ==
    ASSUME NEW flat \in Seq(SasStatements), NEW g \in 1..Len(flat), NEW members \in Walks,
           NamedApart(members.named), NEW state \in PlanStates,
           SourcesFit(flat, g - 1, members.named, state)
    PROVE  SourcesFit(flat, g, members.named, SourcesAt(members, state, flat[g]))
<1> DEFINE s == flat[g]
           named == members.named
           library == LibraryOf(state.cwd, s)
           after == SourcesAt(members, state, s)
           Q == Expanded(named, state.expanded)
           to == ChangeDirectory(state.cwd, s.path)
           file == Source("file", "", Placed(state.cwd, s.path))
           spde == Source("spde", s.libref, library.dir)
<1>1. /\ g \in Nat /\ g # 0 /\ (g - 1) + 1 = g /\ s \in SasStatements
      /\ \A h \in 1..g : h \in 1..(g - 1) \/ h = g
  <2>1. g \in 1..Len(flat) /\ Len(flat) \in Nat
    BY LenProperties
  <2>2. s \in SasStatements
    BY ElementOfSeq
  <2> QED  BY <2>1, <2>2
<1>2. /\ state.cwd = CwdAt(flat, g) /\ Lists(named, Q, state.sources)
      /\ \A p \in DOMAIN named : \A h \in 1..(g - 1) : Declares(flat, h, named[p].library) =>
            named[p].library \in state.expanded
  BY <1>1 DEF SourcesFit
<1>3. CwdAt(flat, g + 1) = IF s.st = "cd" THEN to ELSE state.cwd
  BY <1>2, CwdIs
<1>4. /\ state.cwd \in Paths /\ s.path \in Paths /\ s.libref \in STRING
      /\ named \in Seq(NamedRecs) /\ state.sources \in Seq(SourceRecs)
  BY <1>1, StatementIs DEF PlanStates, Walks
<1>5. library \in LibraryRecs /\ library.dir \in Paths
  BY <1>1, <1>4, LibraryIs DEF LibraryRecs
<1>6. /\ file \in SourceRecs /\ file.kind = "file" /\ file.path = Placed(state.cwd, s.path)
      /\ spde \in SourceRecs /\ spde.kind = "spde"
  <2>1. Placed(state.cwd, s.path) \in Paths
    BY <1>4, PlacesAre
  <2> DEFINE where == Placed(state.cwd, s.path)
             dir == library.dir
             ref == s.libref
  <2>2. where \in Paths /\ dir \in Paths /\ ref \in STRING \cup {""} /\ "" \in STRING \cup {""}
    BY <1>4, <1>5, <2>1
  <2> HIDE DEF where, dir, ref
  <2>3. Source("file", "", where) \in SourceRecs /\ Source("file", "", where).kind = "file"
        /\ Source("file", "", where).path = where
    BY <2>2, SourceIs
  <2>4. Source("spde", ref, dir) \in SourceRecs /\ Source("spde", ref, dir).kind = "spde"
    BY <2>2, SourceIs
  <2> QED  BY <2>3, <2>4 DEF where, dir, ref
<1>7. Q \subseteq DOMAIN named
  BY DEF Expanded
<1>8. \A place : Declares(flat, g, place) <=>
         s.st \in {"libname", "setenv"} /\ s.engine = "base" /\ s.other = "" /\ place = library
  BY <1>2 DEF Declares
\* Statements that declare no library a data set is named in.
<1>9. ASSUME NEW v \in PlanStates, v.cwd = CwdAt(flat, g + 1), v.expanded = state.expanded,
             Lists(named, Q, v.sources),
             \A p \in DOMAIN named : ~Declares(flat, g, named[p].library)
      PROVE  SourcesFit(flat, g, named, v)
  <2>1. ASSUME NEW p \in DOMAIN named, NEW h \in 1..g, Declares(flat, h, named[p].library)
        PROVE  named[p].library \in v.expanded
    <3>1. h # g
      BY <1>9, <2>1
    <3>2. h \in 1..(g - 1)
      BY <1>1, <3>1
    <3> QED  BY <1>2, <1>9, <2>1, <3>2
  <2> QED  BY <1>9, <2>1 DEF SourcesFit
<1>10. CASE s.st = "cd"
  <2>1. after = [state EXCEPT !.cwd = to]
    BY <1>10 DEF SourcesAt
  <2>2. after \in PlanStates
    BY <1>1, SourcesAreTyped
  <2>3. after.cwd = to /\ after.expanded = state.expanded /\ after.sources = state.sources
    <3> HIDE DEF to, after
    <3> QED  BY <2>1 DEF PlanStates
  <2>4. \A p \in DOMAIN named : ~Declares(flat, g, named[p].library)
    BY <1>8, <1>10
  <2>5. after.cwd = CwdAt(flat, g + 1)
    BY <1>3, <1>10, <2>3
  <2> HIDE DEF after, named, Q
  <2>6. SourcesFit(flat, g, named, after)
    BY <1>2, <1>9, <2>2, <2>3, <2>4, <2>5
  <2> QED  BY <2>6 DEF after, named
<1> DEFINE Adds(e) == /\ e \in SourceRecs /\ e.kind # "dataset" /\ (e.kind = "file" => e.path # NoPath)
                      /\ after = Adding(state, e) /\ s.st # "cd"
                      /\ \A p \in DOMAIN named : ~Declares(flat, g, named[p].library)
<1>11. ASSUME NEW e, Adds(e) PROVE SourcesFit(flat, g, named, after)
  <2>1. /\ e \in SourceRecs /\ e.kind # "dataset" /\ (e.kind = "file" => e.path # NoPath)
        /\ after = Adding(state, e) /\ s.st # "cd"
        /\ \A p \in DOMAIN named : ~Declares(flat, g, named[p].library)
    BY <1>11
  <2> HIDE DEF after, Adds
  <2>2. /\ after \in PlanStates /\ after.cwd = state.cwd /\ after.expanded = state.expanded
        /\ after.sources = state.sources \o <<e>>
    BY <2>1, AddingIs
  <2>3. NamedApart(named)
    OBVIOUS
  <2> HIDE DEF named, Q
  <2>4. Lists(named, Q, state.sources \o <<e>>)
    BY <1>2, <1>4, <1>7, <2>1, <2>3, ListsMore
  <2>5. after.cwd = CwdAt(flat, g + 1)
    BY <1>3, <2>1, <2>2
  <2>6. Lists(named, Q, after.sources)
    BY <2>2, <2>4
  <2> QED  BY <1>9, <2>1, <2>2, <2>5, <2>6
<1>12. CASE s.st = "infile"
  <2>1. after = Adding(state, file)
    BY <1>12 DEF SourcesAt
  <2>2. file.path # NoPath
    <3>1. s.path # NoPath
      <4> HIDE DEF s
      <4> QED  BY <1>1, <1>12, StatementIs
    <3>2. Placed(state.cwd, s.path) # NoPath
      BY <1>4, <3>1, PlacesAre
    <3> QED  BY <1>6, <3>2
  <2>3. \A p \in DOMAIN named : ~Declares(flat, g, named[p].library)
    BY <1>8, <1>12
  <2> HIDE DEF after, file, named
  <2>4. Adds(file)
    BY <1>6, <1>12, <2>1, <2>2, <2>3
  <2> HIDE DEF Adds
  <2>5. SourcesFit(flat, g, named, after)
    BY <1>11, <2>4
  <2> QED  BY <2>5 DEF after, named
<1>13. CASE s.st = "libname" /\ s.engine # "base"
  <2>1. after = Adding(state, spde)
    BY <1>13 DEF SourcesAt
  <2>2. \A p \in DOMAIN named : ~Declares(flat, g, named[p].library)
    BY <1>8, <1>13
  <2> HIDE DEF after, spde, named
  <2>3. Adds(spde)
    BY <1>6, <1>13, <2>1, <2>2
  <2> HIDE DEF Adds
  <2>4. SourcesFit(flat, g, named, after)
    BY <1>11, <2>3
  <2> QED  BY <2>4 DEF after, named
<1>14. CASE s.st = "step" \/ (s.st = "libname" /\ s.engine = "base" /\ s.other # "")
            \/ (s.st = "setenv" /\ ~ReadFrom(members, library))
  <2>1. after = state
    <3>1. s.st = "setenv" => s.engine = "base" /\ s.other = ""
      <4> HIDE DEF s
      <4> QED  BY <1>1, StatementIs
    <3> HIDE DEF library
    <3> QED  BY <1>14, <3>1 DEF SourcesAt, library
  <2>2. ASSUME NEW p \in DOMAIN named, Declares(flat, g, named[p].library) PROVE FALSE
    <3>1. s.st = "setenv" /\ ~ReadFrom(members, library) /\ named[p].library = library
      BY <1>8, <1>14, <2>2
    <3>2. DatasetsOf(members, library) = << >>
      <4> HIDE DEF library
      <4> QED  BY <3>1 DEF ReadFrom
    <3>3. NamedIn(named, library) = {}
      <4> HIDE DEF library
      <4> QED  BY <1>5, <3>2, NoneIsNamed
    <3> QED  BY <2>2, <3>1, <3>3 DEF NamedIn
  <2>3. s.st # "cd"
    BY <1>14
  <2>4. state.cwd = CwdAt(flat, g + 1)
    BY <1>3, <2>3
  <2> HIDE DEF after, named, Q
  <2>5. SourcesFit(flat, g, named, state)
    BY <1>2, <1>9, <2>2, <2>4
  <2> QED  BY <2>1, <2>5 DEF named, after
<1>15. CASE s.st \in {"libname", "setenv"} /\ s.engine = "base" /\ s.other = ""
            /\ (s.st = "setenv" => ReadFrom(members, library))
  <2>1. after = DeclaredAt(members, state, library)
    <3> HIDE DEF library
    <3> QED  BY <1>15 DEF SourcesAt, library
  <2>2. after \in PlanStates /\ after.cwd = state.cwd
    <3> DEFINE v == DeclaredAt(members, state, library)
    <3>1. v \in PlanStates /\ v.cwd = state.cwd
      <4> HIDE DEF library
      <4> QED  BY <1>5, DeclaredIs
    <3> HIDE DEF library
    <3>2. after = v
      BY <2>1
    <3> HIDE DEF after, v
    <3> QED  BY <3>1, <3>2
  <2>3. /\ Lists(named, Expanded(named, after.expanded), after.sources)
        /\ state.expanded \subseteq after.expanded
        /\ NamedIn(named, library) # {} => library \in after.expanded
    <3>1. Lists(members.named, Expanded(members.named, state.expanded), state.sources)
      BY <1>2
    <3> DEFINE v == DeclaredAt(members, state, library)
    <3>2. /\ Lists(members.named, Expanded(members.named, v.expanded), v.sources)
          /\ state.expanded \subseteq v.expanded
          /\ NamedIn(members.named, library) # {} => library \in v.expanded
      <4> HIDE DEF library
      <4> QED  BY <1>5, <3>1, DeclaredFits
    <3> HIDE DEF library
    <3>3. after = v
      BY <2>1
    <3> HIDE DEF after, v
    <3> QED  BY <3>2, <3>3
  <2>4. after.cwd = CwdAt(flat, g + 1)
    <3>1. s.st # "cd"
      BY <1>15
    <3> QED  BY <1>3, <2>2, <3>1
  <2> HIDE DEF after, library, s
  <2>5. ASSUME NEW p \in DOMAIN named, NEW h \in 1..g, Declares(flat, h, named[p].library)
        PROVE  named[p].library \in after.expanded
    <3>1. CASE h \in 1..(g - 1)
      <4>1. named[p].library \in state.expanded
        BY <1>2, <2>5, <3>1
      <4> QED  BY <2>3, <4>1
    <3>2. CASE h = g
      <4>1. named[p].library = library
        BY <1>8, <2>5, <3>2
      <4>2. p \in NamedIn(named, library)
        BY <4>1 DEF NamedIn
      <4> QED  BY <2>3, <4>1, <4>2
    <3> QED  BY <1>1, <3>1, <3>2
  <2>6. SourcesFit(flat, g, named, after)
    BY <2>3, <2>4, <2>5 DEF SourcesFit
  <2> QED  BY <2>6 DEF named, after, s
<1>16. s.st = "setenv" => s.engine = "base" /\ s.other = ""
  <2> HIDE DEF s
  <2> QED  BY <1>1, StatementIs
<1>17. s.st \in {"libname", "setenv", "cd", "infile", "step"}
  <2> HIDE DEF s
  <2> QED  BY <1>1, StatementIs
<1> HIDE DEF s, library
<1>18. \/ s.st = "cd" \/ s.st = "infile" \/ (s.st = "libname" /\ s.engine # "base")
       \/ (s.st = "step" \/ (s.st = "libname" /\ s.engine = "base" /\ s.other # "")
            \/ (s.st = "setenv" /\ ~ReadFrom(members, library)))
       \/ (s.st \in {"libname", "setenv"} /\ s.engine = "base" /\ s.other = ""
            /\ (s.st = "setenv" => ReadFrom(members, library)))
  BY <1>16, <1>17
<1> QED  BY <1>10, <1>12, <1>13, <1>14, <1>15, <1>18

\* The sources of a corpus: each data set the walk named, once.
LEMMA SourcesList ==
    ASSUME NEW files \in SasCorpora
    PROVE  LET members == Members(files)
               sources == Sources(files, members)
               flat == Flat(files)
           IN  /\ members \in Walks /\ flat \in Seq(SasStatements)
               /\ NamedFit(flat, Len(flat), members.named) /\ NamesAll(flat, Len(flat) + 1, 0, members.named)
               /\ sources \in Seq(SourceRecs) /\ Lists(members.named, DOMAIN members.named, sources)
<1> DEFINE members == Members(files)
           flat == Flat(files)
           n == Len(flat)
           named == members.named
<1>1. flat \in Seq(SasStatements)
  <2>1. PICK off : Joins(files, Flat(files), off)
    BY FilesAreJoined
  <2> QED  BY <2>1 DEF Joins
<1>2. members \in Walks /\ WalkFits(flat, n, members)
  BY CorpusMoves
<1> HIDE DEF members, flat
<1>3. n \in Nat
  BY <1>1, LenProperties
<1>4. NamedFit(flat, n, named) /\ NamesAll(flat, n + 1, 0, named)
  BY <1>2 DEF WalkFits
<1>5. NamedApart(named)
  BY <1>4 DEF NamedFit, NamedApart
<1>6. PICK h \in [0..n -> PlanStates] :
         /\ h[0] = StartPlan
         /\ \A k \in 1..n : h[k] = SourcesAt(members, h[k - 1], flat[k])
         /\ PlannedFrom(flat, members) = h[n]
  BY <1>1, <1>2, <1>5, CorpusIsPlanned
<1> DEFINE Good(k) == SourcesFit(flat, k, named, h[k])
           B == {k \in 0..n : Good(k)}
<1>7. 0 \in B
  <2> DEFINE v == StartPlan
  <2>1. v.cwd = NoPath /\ v.sources = << >> /\ v.expanded = {}
    BY DEF StartPlan
  <2> HIDE DEF v
  <2>2. Expanded(named, v.expanded) = {}
    BY <2>1 DEF Expanded
  <2>3. Lists(named, {}, << >>)
    <3>1. DOMAIN << >> = {}
      OBVIOUS
    <3> QED  BY <3>1 DEF Lists
  <2>4. v.cwd = CwdAt(flat, 0 + 1)
    <3>1. 0 + 1 = 1
      OBVIOUS
    <3> QED  BY <1>1, <2>1, <3>1, CwdIs
  <2>5. \A k \in 1..0 : FALSE
    OBVIOUS
  <2>6. SourcesFit(flat, 0, named, v)
    BY <2>1, <2>2, <2>3, <2>4, <2>5 DEF SourcesFit
  <2>7. h[0] = v
    BY <1>6 DEF v
  <2>8. Good(0)
    <3> HIDE DEF n, named
    <3> QED  BY <2>6, <2>7
  <2> HIDE DEF Good
  <2> QED  BY <1>3, <2>8
<1>8. ASSUME NEW k \in 1..n, k - 1 \in B PROVE k \in B
  <2> DEFINE v == h[k - 1]
  <2>1. /\ v \in PlanStates /\ SourcesFit(flat, k - 1, named, v) /\ k \in 0..n
        /\ h[k] = SourcesAt(members, v, flat[k])
    BY <1>3, <1>6, <1>8
  <2>2. k \in 1..Len(flat) /\ SourcesFit(flat, k - 1, members.named, v) /\ NamedApart(members.named)
    BY <1>5, <2>1
  <2> HIDE DEF v, n, Good, B, named
  <2>3. SourcesFit(flat, k, members.named, SourcesAt(members, v, flat[k]))
    BY <1>1, <1>2, <2>1, <2>2, StatementIsPlanned
  <2> QED  BY <2>1, <2>3 DEF Good, B, named
<1>9. Good(n)
  <2>1. \A k \in 0..n : k \in B
    <3> HIDE DEF B
    <3> QED  BY <1>3, <1>7, <1>8, UpTo
  <2> QED  BY <1>3, <2>1
<1> DEFINE state == h[n]
<1>10. state \in PlanStates /\ SourcesFit(flat, n, named, state) /\ Sources(files, members) = state.sources
  <2>1. n \in 0..n
    BY <1>3
  <2>2. Sources(files, members) = PlannedFrom(flat, members).sources
    BY SourcesAre DEF flat
  <2> QED  BY <1>6, <1>9, <2>1, <2>2
<1> HIDE DEF state
<1>11. Expanded(named, state.expanded) = DOMAIN named
  <2>1. ASSUME NEW p \in DOMAIN named PROVE named[p].library \in state.expanded
    <3>1. PICK h0 \in 1..n : Declares(flat, h0, named[p].library)
      BY <1>4 DEF NamedFit
    <3> QED  BY <1>10, <3>1 DEF SourcesFit
  <2> QED  BY <2>1 DEF Expanded
<1>12. Lists(named, DOMAIN named, state.sources)
  BY <1>10, <1>11 DEF SourcesFit
<1>13. state.sources \in Seq(SourceRecs)
  BY <1>10 DEF PlanStates
<1> QED  BY <1>1, <1>2, <1>4, <1>10, <1>12, <1>13 DEF members, flat

-----------------------------------------------------------------------------
(* Ranges of one source *)

LEMMA TheLarger ==
    ASSUME NEW a \in Int, NEW b \in Int
    PROVE  Max({a, b}) = (IF a >= b THEN a ELSE b) /\ Min({a, b}) = (IF a <= b THEN a ELSE b)
<1>1. Max({a, b}) = IF a >= b THEN a ELSE b
  <2> DEFINE m == IF a >= b THEN a ELSE b
  <2>1. \A x \in {a, b} : (\A y \in {a, b} : x >= y) <=> x = m
    OBVIOUS
  <2>2. m \in {a, b}
    OBVIOUS
  <2> HIDE DEF m
  <2>3. Max({a, b}) = m
    BY <2>1, <2>2 DEF Max
  <2> QED  BY <2>3 DEF m
<1>2. Min({a, b}) = IF a <= b THEN a ELSE b
  <2> DEFINE m == IF a <= b THEN a ELSE b
  <2>1. \A x \in {a, b} : (\A y \in {a, b} : x <= y) <=> x = m
    OBVIOUS
  <2>2. m \in {a, b}
    OBVIOUS
  <2> HIDE DEF m
  <2>3. Min({a, b}) = m
    BY <2>1, <2>2 DEF Min
  <2> QED  BY <2>3 DEF m
<1> QED  BY <1>1, <1>2

\* A later window of one size starts where the one before it ends, or behind.
LEMMA WindowsFollow ==
    ASSUME NEW size \in Nat, NEW i \in Int, NEW j \in Int, i < j
    PROVE  size * i + size <= size * j
<1> DEFINE d == j - i - 1
<1>1. d \in Nat /\ j = i + 1 + d
  OBVIOUS
<1>2. size * d \in Nat
  BY <1>1
<1> HIDE DEF d
<1>3. size * j = size * i + size + size * d
  BY <1>1
<1> QED  BY <1>2, <1>3

\* Each number is in one window of a size.
LEMMA WindowOf ==
    ASSUME NEW size \in Nat, size # 0, NEW v \in Nat
    PROVE  \E i \in Nat : size * i <= v /\ v < size * i + size
<1> DEFINE i == v \div size
<1>1. i \in Int /\ size * i <= v /\ v < size * i + size
  OBVIOUS
<1>2. i >= 0
  <2> SUFFICES ASSUME i < 0 PROVE FALSE
    BY <1>1
  <2> HIDE DEF i
  <2>1. size * i + size <= size * 0
    BY <1>1, WindowsFollow
  <2> QED  BY <1>1, <2>1
<1> HIDE DEF i
<1> QED  BY <1>1, <1>2

LEMMA SizeReaches ==
    ASSUME NEW rows \in Nat, NEW slices \in Nat, slices # 0
    PROVE  SizeOf(rows, slices) \in Nat /\ SizeOf(rows, slices) # 0
           /\ rows <= SizeOf(rows, slices) * slices
<1> DEFINE q == (-rows) \div slices
           size == SizeOf(rows, slices)
<1>1. q \in Int /\ slices * q <= -rows
  OBVIOUS
<1> HIDE DEF q
<1>2. size = IF 1 >= -q THEN 1 ELSE -q
  BY <1>1, TheLarger DEF SizeOf, q
<1>3. size \in Nat /\ size # 0 /\ size >= -q
  BY <1>1, <1>2
<1> HIDE DEF size
<1>4. slices * (-q) >= rows
  BY <1>1
<1>5. slices * size >= slices * (-q)
  <2> DEFINE d == size + q
  <2>1. d \in Nat /\ size = (-q) + d
    BY <1>1, <1>3
  <2>2. slices * d \in Nat
    BY <2>1
  <2> HIDE DEF d
  <2>3. slices * size = slices * (-q) + slices * d
    BY <1>1, <2>1
  <2> QED  BY <1>1, <2>2, <2>3
<1> QED  BY <1>1, <1>3, <1>4, <1>5 DEF size

\* As many as there are slices at the most.
LEMMA FewRanges ==
    ASSUME NEW n \in Nat, NEW S, NEW f, \A s \in S : \E i \in 0..(n - 1) : f[i] = s
    PROVE  IsFiniteSet(S) /\ Cardinality(S) <= n
PROOF
<1> DEFINE Q == {i \in 0..(n - 1) : f[i] \in S}
           g == [i \in Q |-> f[i]]
<1>1. IsFiniteSet(0..(n - 1)) /\ Cardinality(0..(n - 1)) = n
  BY FS_Interval
<1>2. IsFiniteSet(Q) /\ Cardinality(Q) <= n
  BY <1>1, FS_Subset
<1>3. g \in Surjection(Q, S)
  BY DEF Surjection
<1>4. IsFiniteSet(S) /\ Cardinality(S) <= Cardinality(Q)
  BY <1>2, <1>3, FS_Surjection
<1> QED  BY <1>2, <1>4, FS_CardinalityType

LEMMA RowsAreCovered ==
    ASSUME NEW rows \in Nat, NEW slices \in Nat, slices # 0
    PROVE  LET windows == RowRanges(rows, slices)
           IN  /\ Cardinality(windows) <= slices
               /\ windows # {} =>
                    \A row \in 0..(rows - 1) :
                       Cardinality({w \in windows : w[1] <= row /\ row < w[1] + w[2]}) = 1
<1> DEFINE windows == RowRanges(rows, slices)
           size == SizeOf(rows, slices)
           Window2(i) == <<size * i, Min({size, rows - size * i})>>
           I == {j \in 0..(slices - 1) : size * j < rows}
           f == [i \in 0..(slices - 1) |-> Window2(i)]
<1>1. size \in Nat /\ size # 0 /\ rows <= size * slices
  BY SizeReaches
<1>2. windows = IF rows <= 0 \/ slices <= 1 THEN {} ELSE {Window2(i) : i \in I}
  BY DEF RowRanges
<1>3. Cardinality(windows) <= slices
  <2>1. \A w \in windows : \E i \in 0..(slices - 1) : f[i] = w
    BY <1>2
  <2> HIDE DEF windows, f
  <2> QED  BY <2>1, FewRanges
<1>4. ASSUME windows # {}, NEW row \in 0..(rows - 1)
      PROVE  Cardinality({w \in windows : w[1] <= row /\ row < w[1] + w[2]}) = 1
  <2> HIDE DEF size
  <2>0. row \in Nat /\ row < rows
    OBVIOUS
  <2>1. PICK i \in Nat : size * i <= row /\ row < size * i + size
    BY <1>1, <2>0, WindowOf
  <2>2. i < slices
    <3> SUFFICES ASSUME i >= slices PROVE FALSE
      BY <2>1
    <3>1. CASE i = slices
      BY <1>1, <2>1, <3>1
    <3>2. CASE slices < i
      <4>1. size * slices + size <= size * i
        BY <1>1, <2>1, <3>2, WindowsFollow
      <4>2. size * slices \in Nat /\ size * i \in Nat
        BY <1>1, <2>1
      <4> QED  BY <1>1, <2>1, <4>1, <4>2
    <3> QED  BY <2>1, <3>1, <3>2
  <2>3. i \in I /\ windows = {Window2(j) : j \in I}
    <3>1. size * i \in Nat
      BY <1>1, <2>1
    <3> QED  BY <1>2, <1>4, <2>1, <2>2, <3>1
  <2>4. ASSUME NEW j \in I
        PROVE  (Window2(j)[1] <= row /\ row < Window2(j)[1] + Window2(j)[2]) <=> j = i
    <3>0. j \in Nat /\ size * j \in Nat /\ size * i \in Nat
      BY <1>1, <2>1
    <3>1. /\ size * j \in Nat /\ size * i \in Nat
          /\ Window2(j)[1] = size * j
          /\ Window2(j)[2] = IF size <= rows - size * j THEN size ELSE rows - size * j
      <4>1. size \in Int /\ rows - size * j \in Int
        BY <1>1, <3>0
      <4>2. Min({size, rows - size * j}) = IF size <= rows - size * j THEN size ELSE rows - size * j
        BY <4>1, TheLarger
      <4> QED  BY <3>0, <4>2
    <3> HIDE DEF Window2
    <3>2. CASE j = i
      BY <1>1, <2>1, <3>1, <3>2
    <3>3. CASE j < i
      <4>1. size * j + size <= size * i
        BY <1>1, <2>1, <3>3, WindowsFollow
      <4> QED  BY <1>1, <2>1, <3>1, <3>3, <4>1
    <3>4. CASE i < j
      <4>1. size * i + size <= size * j
        BY <1>1, <2>1, <3>4, WindowsFollow
      <4> QED  BY <1>1, <2>1, <3>1, <3>4, <4>1
    <3> QED  BY <2>1, <3>2, <3>3, <3>4
  <2> HIDE DEF Window2, I
  <2>5. {w \in windows : w[1] <= row /\ row < w[1] + w[2]} = {Window2(i)}
    BY <2>3, <2>4
  <2> QED  BY <2>5, FS_Singleton
<1> HIDE DEF windows
<1>5. Cardinality(windows) <= slices /\
      (windows # {} => \A row \in 0..(rows - 1) :
          Cardinality({w \in windows : w[1] <= row /\ row < w[1] + w[2]}) = 1)
  BY <1>3, <1>4
<1> QED  BY <1>5 DEF windows

LEMMA ColumnIsCovered ==
    ASSUME NEW low \in Int, NEW high \in Int, NEW n \in Nat, n # 0,
           ColumnRanges(low, high, n) # {}, NEW v \in (low * n)..(high * n)
    PROVE  Cardinality({s \in ColumnRanges(low, high, n) :
                           s.from <= v /\ (v < s.to \/ (s.closed /\ v = s.to))}) = 1
<1> DEFINE step == high - low
           base == low * n
           Slice(i) == [from |-> base + step * i, to |-> base + step * (i + 1), closed |-> i = n - 1]
           ranges == ColumnRanges(low, high, n)
           I == 0..(n - 1)
           d == v - base
<1>1. step \in Nat /\ step # 0 /\ ranges = {Slice(i) : i \in I}
  BY DEF ColumnRanges
<1>2. d \in Nat /\ d <= step * n /\ base \in Int /\ v = base + d
  <2>1. step * n = high * n - low * n
    OBVIOUS
  <2>2. low * n \in Int /\ high * n \in Int /\ step * n \in Int
    OBVIOUS
  <2>3. v \in Int /\ low * n <= v /\ v <= high * n
    BY <2>2
  <2>4. base = low * n /\ d = v - base
    OBVIOUS
  <2> HIDE DEF step, base, d
  <2> QED  BY <2>1, <2>2, <2>3, <2>4
<1> HIDE DEF step, base, d
<1>3. ASSUME NEW i \in I
      PROVE  /\ step * i \in Nat /\ Slice(i).from = base + step * i
             /\ Slice(i).to = base + step * i + step /\ Slice(i).closed = (i = n - 1)
  <2>1. i \in Nat
    OBVIOUS
  <2>2. step * (i + 1) = step * i + step /\ step * i \in Nat
    BY <1>1, <2>1
  <2>3. /\ Slice(i).from = base + step * i /\ Slice(i).to = base + step * (i + 1)
        /\ Slice(i).closed = (i = n - 1)
    OBVIOUS
  <2> HIDE DEF Slice
  <2>4. Slice(i).to = base + step * i + step
    BY <1>1, <1>2, <2>2, <2>3
  <2> QED  BY <2>2, <2>3, <2>4
<1> DEFINE In(i) == Slice(i).from <= v /\ (v < Slice(i).to \/ (Slice(i).closed /\ v = Slice(i).to))
<1>4. \E i \in I : \A j \in I : In(j) <=> j = i
  <2>1. step * (n - 1) + step = step * n /\ step * (n - 1) \in Nat
    BY <1>1
  <2>2. CASE d = step * n
    <3>1. n - 1 \in I
      OBVIOUS
    <3>2. ASSUME NEW j \in I PROVE In(j) <=> j = n - 1
      <4>1. j # n - 1 => step * j + step <= step * (n - 1)
        BY <1>1, WindowsFollow
      <4>2. /\ step * j \in Nat /\ Slice(j).from = base + step * j
            /\ Slice(j).to = base + step * j + step /\ Slice(j).closed = (j = n - 1)
        BY <1>3
      <4> HIDE DEF Slice
      <4>3. CASE j = n - 1
        <5>1. Slice(j).to = base + step * n /\ Slice(j).closed
          <6>1. step * j = step * (n - 1)
            BY <4>3
          <6>2. Slice(j).to = base + step * n
            BY <1>1, <1>2, <2>1, <4>2, <6>1
          <6>3. Slice(j).closed
            BY <4>2, <4>3
          <6> QED  BY <6>2, <6>3
        <5>2. Slice(j).from <= v /\ v = Slice(j).to
          BY <1>1, <1>2, <2>1, <2>2, <4>2, <4>3, <5>1
        <5> QED  BY <4>3, <5>1, <5>2
      <4>4. CASE j # n - 1
        BY <1>1, <1>2, <2>1, <2>2, <4>1, <4>2, <4>4
      <4> QED  BY <4>3, <4>4
    <3> QED  BY <3>1, <3>2
  <2>3. CASE d # step * n
    <3>1. PICK i \in Nat : step * i <= d /\ d < step * i + step
      BY <1>1, <1>2, WindowOf
    <3>2. i < n
      <4> SUFFICES ASSUME i >= n PROVE FALSE
        BY <3>1
      <4>1. CASE i = n
        BY <1>1, <1>2, <2>3, <3>1, <4>1
      <4>2. CASE n < i
        <5>1. step * n + step <= step * i
          BY <1>1, <3>1, <4>2, WindowsFollow
        <5>2. step * n \in Nat /\ step * i \in Nat
          BY <1>1, <3>1
        <5> QED  BY <1>1, <1>2, <3>1, <5>1, <5>2
      <4> QED  BY <3>1, <4>1, <4>2
    <3>3. ASSUME NEW j \in I PROVE In(j) <=> j = i
      <4>1. /\ step * j \in Nat /\ Slice(j).from = base + step * j
            /\ Slice(j).to = base + step * j + step /\ Slice(j).closed = (j = n - 1)
        BY <1>3
      <4>2. step * i \in Nat /\ j \in Int
        BY <1>1, <3>1
      <4> HIDE DEF Slice
      <4>3. CASE j = i
        BY <1>1, <1>2, <3>1, <4>1, <4>2, <4>3
      <4>4. CASE j < i
        <5>1. step * j + step <= step * i
          BY <1>1, <3>1, <4>2, <4>4, WindowsFollow
        <5>2. CASE j = n - 1
          BY <3>1, <3>2, <4>4, <5>2
        <5>3. CASE j # n - 1
          <6>1. ~Slice(j).closed
            BY <4>1, <5>3
          <6>2. Slice(j).to <= v /\ ~(v < Slice(j).to)
            BY <1>1, <1>2, <3>1, <4>1, <4>2, <5>1
          <6> QED  BY <3>1, <4>4, <6>1, <6>2
        <5> QED  BY <5>2, <5>3
      <4>5. CASE i < j
        <5>1. step * i + step <= step * j
          BY <1>1, <3>1, <4>2, <4>5, WindowsFollow
        <5> QED  BY <1>1, <1>2, <3>1, <4>1, <4>2, <4>5, <5>1
      <4> QED  BY <3>1, <4>2, <4>3, <4>4, <4>5
    <3>4. i \in I
      BY <3>1, <3>2
    <3> QED  BY <3>3, <3>4
  <2> QED  BY <2>2, <2>3
<1>5. PICK i \in I : \A j \in I : In(j) <=> j = i
  BY <1>4
<1> HIDE DEF I, Slice
<1>6. {s \in ranges : s.from <= v /\ (v < s.to \/ (s.closed /\ v = s.to))} = {Slice(i)}
  BY <1>1, <1>5
<1> QED  BY <1>6, FS_Singleton DEF ranges

RangesInv ==
    subject = "ranges" =>
        input \in RangeInputs /\
        (answered => result = [windows |-> RowRanges(input.rows, input.slices),
                               slices  |-> ColumnRanges(input.low, input.high, input.slices)])

LEMMA RangesInvCovers == ASSUME RangesInv PROVE RangesCover
<1> SUFFICES ASSUME Answered("ranges") PROVE RangesCover
  BY DEF RangesCover
<1>1. /\ input.rows \in Nat /\ input.slices \in Nat /\ input.slices # 0
      /\ input.low \in Int /\ input.high \in Int
      /\ result.windows = RowRanges(input.rows, input.slices)
      /\ result.slices = ColumnRanges(input.low, input.high, input.slices)
  <2>1. MaxRows \in Nat /\ MaxSlices \in Nat /\ ColumnBounds \subseteq Int
    BY HydrationAssumption DEF HydrationAssumption
  <2>2. input \in RangeInputs /\
        result = [windows |-> RowRanges(input.rows, input.slices),
                  slices  |-> ColumnRanges(input.low, input.high, input.slices)]
    BY DEF RangesInv, Answered
  <2>3. /\ input.rows \in 0..MaxRows /\ input.slices \in 1..MaxSlices
        /\ input.low \in ColumnBounds /\ input.high \in ColumnBounds
    BY <2>2 DEF RangeInputs
  <2>4. /\ input.rows \in Nat /\ input.slices \in Nat /\ input.slices # 0
        /\ input.low \in Int /\ input.high \in Int
    <3>1. \A x \in 0..MaxRows : x \in Nat
      BY <2>1
    <3>2. \A x \in 1..MaxSlices : x \in Nat /\ x # 0
      BY <2>1
    <3>3. \A x \in ColumnBounds : x \in Int
      BY <2>1
    <3> QED  BY <2>3, <3>1, <3>2, <3>3, Zenon
  <2>5. /\ result.windows = RowRanges(input.rows, input.slices)
        /\ result.slices = ColumnRanges(input.low, input.high, input.slices)
    BY <2>2
  <2> QED  BY <2>4, <2>5
<1>2. /\ Cardinality(result.windows) <= input.slices
      /\ result.windows # {} =>
            \A row \in 0..(input.rows - 1) :
               Cardinality({w \in result.windows : w[1] <= row /\ row < w[1] + w[2]}) = 1
  BY <1>1, RowsAreCovered
<1>3. ASSUME result.slices # {},
             NEW v \in (input.low * input.slices)..(input.high * input.slices)
      PROVE  Cardinality({s \in result.slices :
                s.from <= v /\ (v < s.to \/ (s.closed /\ v = s.to))}) = 1
  <2> DEFINE low == input.low
             high == input.high
             n == input.slices
             slices == result.slices
  <2>1. /\ low \in Int /\ high \in Int /\ n \in Nat /\ n # 0
        /\ slices = ColumnRanges(low, high, n) /\ slices # {}
    BY <1>1, <1>3
  <2>2. v \in (low * n)..(high * n)
    OBVIOUS
  <2> HIDE DEF low, high, n, slices
  <2>3. ColumnRanges(low, high, n) # {}
    BY <2>1
  <2>4. Cardinality({s \in ColumnRanges(low, high, n) :
                       s.from <= v /\ (v < s.to \/ (s.closed /\ v = s.to))}) = 1
    BY <2>1, <2>2, <2>3, ColumnIsCovered
  <2>5. Cardinality({s \in slices : s.from <= v /\ (v < s.to \/ (s.closed /\ v = s.to))}) = 1
    BY <2>1, <2>4, Zenon
  <2> QED  BY <2>5 DEF slices
<1> QED  BY <1>2, <1>3 DEF RangesCover

-----------------------------------------------------------------------------
(* The plan of a corpus is exact *)

LEMMA InputsAre ==
    ASSUME NEW corpus \in PlanInputs
    PROVE  /\ corpus.files \in SasCorpora /\ corpus.schema \in {"none", "bronze"}
           /\ corpus.trouble \in Troubles /\ corpus.onError \in {"continue", "stop"}
<1>1. corpus.files \in [1..FileCount -> Programs]
  BY DEF PlanInputs
<1>2. FileCount \in Nat /\ Programs \subseteq Seq(SasStatements)
  BY HydrationAssumption DEF HydrationAssumption
<1>3. corpus.files \in [1..FileCount -> Seq(SasStatements)]
  BY <1>1, <1>2
<1>4. corpus.files \in SasCorpora
  BY <1>2, <1>3, IsASeq DEF SasCorpora
<1> QED  BY <1>4 DEF PlanInputs

\* The items of a plan, place by place.
LEMMA ItemsAre ==
    ASSUME NEW corpus
    PROVE  LET sources == Sources(corpus.files, Members(corpus.files))
               items == Plan(corpus).items
           IN  /\ DOMAIN items = DOMAIN sources
               /\ \A n \in DOMAIN sources :
                     /\ items[n].source = sources[n]
                     /\ items[n].target = Target(sources[n], corpus.schema)
                     /\ items[n].blocked = Blocked(sources[n], corpus.schema)
                     /\ items[n].mode = IF First(sources, corpus.schema, n) THEN "overwrite" ELSE "append"
<1> DEFINE sources == Sources(corpus.files, Members(corpus.files))
           schema == corpus.schema
           items == [n \in DOMAIN sources |->
                       [source |-> sources[n], target |-> Target(sources[n], schema),
                        blocked |-> Blocked(sources[n], schema),
                        mode |-> IF First(sources, schema, n) THEN "overwrite" ELSE "append"]]
<1>1. Plan(corpus).items = items
  BY DEF Plan
<1> HIDE DEF sources, schema
<1>2. /\ DOMAIN items = DOMAIN sources
      /\ \A n \in DOMAIN sources :
            /\ items[n].source = sources[n]
            /\ items[n].target = Target(sources[n], schema)
            /\ items[n].blocked = Blocked(sources[n], schema)
            /\ items[n].mode = IF First(sources, schema, n) THEN "overwrite" ELSE "append"
  OBVIOUS
<1> HIDE DEF items
<1> QED  BY <1>1, <1>2 DEF sources, schema

\* An answered case of the planner is a plan of its input, executed twice.
HydrationInv ==
    subject = "plan" => input \in PlanInputs /\ (answered => result = Hydrated(input))

LEMMA AnsweredPlan ==
    ASSUME HydrationInv, Answered("plan")
    PROVE  LET flat == Flat(input.files)
               named == Members(input.files).named
               sources == Sources(input.files, Members(input.files))
           IN  /\ input \in PlanInputs /\ result = Hydrated(input)
               /\ result.plan.items = Plan(input).items
               /\ flat \in Seq(SasStatements) /\ named \in Seq(NamedRecs)
               /\ NamedFit(flat, Len(flat), named) /\ NamesAll(flat, Len(flat) + 1, 0, named)
               /\ sources \in Seq(SourceRecs) /\ Lists(named, DOMAIN named, sources)
               /\ DOMAIN result.plan.items = DOMAIN sources
               /\ \A n \in DOMAIN sources : result.plan.items[n].source = sources[n]
<1> DEFINE members == Members(input.files)
           flat == Flat(input.files)
           named == members.named
           sources == Sources(input.files, members)
<1>1. input \in PlanInputs /\ result = Hydrated(input)
  BY DEF HydrationInv, Answered
<1>2. result.plan = Plan(input)
  BY <1>1 DEF Hydrated
<1>3. input.files \in SasCorpora
  BY <1>1, InputsAre
<1>4. /\ members \in Walks /\ flat \in Seq(SasStatements)
      /\ NamedFit(flat, Len(flat), named) /\ NamesAll(flat, Len(flat) + 1, 0, named)
      /\ sources \in Seq(SourceRecs) /\ Lists(named, DOMAIN named, sources)
  BY <1>3, SourcesList
<1>5. /\ DOMAIN Plan(input).items = DOMAIN sources
      /\ \A n \in DOMAIN sources : Plan(input).items[n].source = sources[n]
  BY ItemsAre
<1>6. named \in Seq(NamedRecs)
  <2> HIDE DEF members
  <2> QED  BY <1>4 DEF Walks
<1> HIDE DEF flat, named, sources, members
<1>7. result.plan.items = Plan(input).items
  BY <1>2
<1> QED  BY <1>1, <1>4, <1>5, <1>6, <1>7 DEF flat, named, sources, members

LEMMA ReadsArePlanned == ASSUME HydrationInv PROVE ReadsAreAnnounced
<1> SUFFICES ASSUME Answered("plan") PROVE ReadsAreAnnounced
  BY DEF ReadsAreAnnounced
<1> DEFINE flat == Flat(input.files)
           named == Members(input.files).named
           sources == Sources(input.files, Members(input.files))
           items == result.plan.items
<1>1. /\ flat \in Seq(SasStatements) /\ named \in Seq(NamedRecs)
      /\ NamesAll(flat, Len(flat) + 1, 0, named) /\ Lists(named, DOMAIN named, sources)
      /\ DOMAIN items = DOMAIN sources
      /\ \A n \in DOMAIN sources : items[n].source = sources[n]
  BY AnsweredPlan
<1> HIDE DEF flat, named, sources, items
<1>2. ASSUME NEW g \in DOMAIN flat, NEW k \in DOMAIN flat[g].refs, Wanted(flat, g, k)
      PROVE  Announced(DirectoryAt(flat, g, flat[g].refs[k].libref), flat[g].refs[k].member)
  <2> DEFINE dir == DirectoryAt(flat, g, flat[g].refs[k].libref)
             member == flat[g].refs[k].member
  <2>1. g < Len(flat) + 1
    <3>1. g \in 1..Len(flat) /\ Len(flat) \in Nat
      BY <1>1, StatementAt, LenProperties
    <3> QED  BY <3>1
  <2>2. IsNamed(named, dir, member)
    BY <1>1, <1>2, <2>1 DEF NamesAll
  <2> HIDE DEF dir, member
  <2>3. PICK p \in DOMAIN named : named[p].library.dir = dir /\ named[p].member = member
    BY <2>2 DEF IsNamed
  <2>4. PICK i \in DOMAIN sources : sources[i] = DatasetOf(named[p])
    BY <1>1, <2>3 DEF Lists
  <2>5. named[p] \in NamedRecs
    BY <1>1, <2>3, LenProperties, ElementOfSeq
  <2>6. DatasetOf(named[p]).path = dir \o <<member>>
    BY <2>3, <2>5, DatasetIs
  <2>7. items[i].source.path = dir \o <<member>> /\ i \in DOMAIN items
    BY <1>1, <2>4, <2>6
  <2>8. items[i] \in Range(items)
    BY <2>7 DEF Range
  <2>9. dir \o <<member>> \in PlannedPaths
    BY <2>7, <2>8 DEF PlannedPaths, items
  <2>10. Announced(dir, member)
    BY <2>9 DEF Announced
  <2> QED  BY <2>10 DEF dir, member
<1>3. ASSUME NEW read \in ReadsOf(flat),
             DirectoryAt(flat, read[1], flat[read[1]].refs[read[2]].libref) # NoPath,
             {g \in DOMAIN flat : g # read[1] /\ NameOf(flat[read[1]].refs[read[2]]) \in WritesOf(flat[g])} = {},
             ~\E i \in 1..(read[2] - 1) : flat[read[1]].refs[i].now
      PROVE  Announced(DirectoryAt(flat, read[1], flat[read[1]].refs[read[2]].libref),
                       flat[read[1]].refs[read[2]].member)
  <2>1. PICK g \in DOMAIN flat : \E k \in DOMAIN flat[g].refs : read = <<g, k>>
    BY DEF ReadsOf
  <2>2. PICK k \in DOMAIN flat[g].refs : read = <<g, k>>
    BY <2>1
  <2>3. read[1] = g /\ read[2] = k
    BY <2>2
  <2>4. Wanted(flat, g, k)
    BY <1>3, <2>2, <2>3 DEF Wanted
  <2> QED  BY <1>2, <2>3, <2>4
<1>4. \A read \in ReadsOf(flat) :
         LET ref == flat[read[1]].refs[read[2]]
             dir == DirectoryAt(flat, read[1], ref.libref)
             others == {g \in DOMAIN flat : g # read[1] /\ NameOf(ref) \in WritesOf(flat[g])}
             renamed == \E i \in 1..(read[2] - 1) : flat[read[1]].refs[i].now
         IN  dir # NoPath /\ others = {} /\ ~renamed => Announced(dir, ref.member)
  BY <1>3
<1> QED  BY <1>4 DEF ReadsAreAnnounced, flat

LEMMA PlannedAreRead == ASSUME HydrationInv PROVE ItemsAreRead
<1> SUFFICES ASSUME Answered("plan") PROVE ItemsAreRead
  BY DEF ItemsAreRead
<1> DEFINE flat == Flat(input.files)
           named == Members(input.files).named
           sources == Sources(input.files, Members(input.files))
           items == result.plan.items
<1>1. /\ flat \in Seq(SasStatements) /\ named \in Seq(NamedRecs)
      /\ NamedFit(flat, Len(flat), named) /\ Lists(named, DOMAIN named, sources)
      /\ DOMAIN items = DOMAIN sources
      /\ \A n \in DOMAIN sources : items[n].source = sources[n]
  BY AnsweredPlan
<1> HIDE DEF flat, named, sources, items
<1>2. ASSUME NEW item \in Range(items), item.source.kind = "dataset"
      PROVE  IsReadFrom(flat, Front(item.source.path), Last(item.source.path))
  <2>1. PICK i \in DOMAIN items : item = items[i]
    BY <1>2 DEF Range
  <2>2. PICK p \in DOMAIN named : sources[i] = DatasetOf(named[p])
    BY <1>1, <1>2, <2>1 DEF Lists
  <2>3. named[p] \in NamedRecs
    BY <1>1, LenProperties, ElementOfSeq
  <2>4. item.source = DatasetOf(named[p])
    BY <1>1, <2>1, <2>2
  <2>5. Front(item.source.path) = named[p].library.dir /\ Last(item.source.path) = named[p].member
    BY <2>3, <2>4, DatasetIs
  <2>6. IsReadFrom(flat, named[p].library.dir, named[p].member)
    BY <1>1 DEF NamedFit
  <2> QED  BY <2>5, <2>6
<1> QED  BY <1>2 DEF ItemsAreRead, IsReadFrom, flat, items

LEMMA LoadedOnce == ASSUME HydrationInv PROVE DatasetsLoadedOnce
<1> SUFFICES ASSUME Answered("plan") PROVE DatasetsLoadedOnce
  BY DEF DatasetsLoadedOnce
<1> DEFINE named == Members(input.files).named
           sources == Sources(input.files, Members(input.files))
           items == result.plan.items
<1>1. /\ Lists(named, DOMAIN named, sources) /\ DOMAIN items = DOMAIN sources
      /\ \A n \in DOMAIN sources : items[n].source = sources[n]
  BY AnsweredPlan
<1> HIDE DEF named, sources, items
<1>2. ASSUME NEW m \in DOMAIN items, NEW n \in DOMAIN items, items[m].source.kind = "dataset",
             items[n].source.kind = "dataset", items[m].source.path = items[n].source.path
      PROVE  m = n
  BY <1>1, <1>2 DEF Lists
<1> QED  BY <1>2 DEF DatasetsLoadedOnce, items

-----------------------------------------------------------------------------
(* The execution of a plan *)

ItemRecs(T) == [source : SourceRecs, target : T, blocked : BOOLEAN, mode : {"overwrite", "append"}]
Tables(T) == UNION {[D -> Seq(Paths)] : D \in SUBSET T}
RunStates(T) == [tables : Tables(T), stopped : BOOLEAN, failed : BOOLEAN]
StartRun(tables) == [tables |-> tables, stopped |-> FALSE, failed |-> FALSE]

\* The item stops a run, or adds its object to its table.
Stops(corpus, item) == ~item.blocked /\ Fails(corpus, item) /\ corpus.onError = "stop"
Writes(corpus, item) == ~item.blocked /\ item.source.path # corpus.trouble.object

IsTarget(target, T) == target \in T

\* What is loaded into a table with an item more.
Adds(corpus, item, target, loaded) ==
    IF Loads(corpus, item, target) THEN Append(loaded, item.source.path) ELSE loaded

\* What an item that writes finds in its table.
Had(tables, item) ==
    IF item.target \in DOMAIN tables /\ item.mode = "append" THEN tables[item.target] ELSE << >>

LEMMA TableIsSet ==
    ASSUME NEW T, NEW tables \in Tables(T), NEW key \in T, NEW value \in Seq(Paths)
    PROVE  /\ WithKey(tables, key, value) \in Tables(T)
           /\ DOMAIN WithKey(tables, key, value) = DOMAIN tables \cup {key}
           /\ WithKey(tables, key, value)[key] = value
           /\ \A k \in DOMAIN tables \ {key} : WithKey(tables, key, value)[k] = tables[k]
<1>1. PICK D \in SUBSET T : tables \in [D -> Seq(Paths)]
  BY DEF Tables
<1> DEFINE after == WithKey(tables, key, value)
<1>2. after \in [D \cup {key} -> Seq(Paths)]
  BY <1>1 DEF WithKey
<1>3. D \cup {key} \in SUBSET T
  OBVIOUS
<1>4. after \in Tables(T)
  <2> HIDE DEF after
  <2> QED  BY <1>2, <1>3 DEF Tables
<1>5. /\ DOMAIN after = DOMAIN tables \cup {key} /\ after[key] = value
      /\ \A k \in DOMAIN tables \ {key} : after[k] = tables[k]
  BY DEF WithKey
<1> QED  BY <1>4, <1>5

LEMMA TableIs ==
    ASSUME NEW T, NEW tables \in Tables(T)
    PROVE  DOMAIN tables \in SUBSET T /\ \A k \in DOMAIN tables : tables[k] \in Seq(Paths)
<1>1. PICK D \in SUBSET T : tables \in [D -> Seq(Paths)]
  BY DEF Tables
<1> QED  BY <1>1

LEMMA ItemIs ==
    ASSUME NEW T, NEW item \in ItemRecs(T)
    PROVE  /\ item.source \in SourceRecs /\ item.source.path \in Paths /\ item.target \in T
           /\ item.blocked \in BOOLEAN /\ item.mode \in {"overwrite", "append"}
<1>1. /\ item.source \in SourceRecs /\ item.target \in T /\ item.blocked \in BOOLEAN
      /\ item.mode \in {"overwrite", "append"}
  BY DEF ItemRecs
<1>2. item.source.path \in Paths
  BY <1>1 DEF SourceRecs
<1> QED  BY <1>1, <1>2

\* An item that runs writes its object unless the object is the one in trouble.
LEMMA ItemIsExecuted ==
    ASSUME NEW T, NEW corpus \in PlanInputs, NEW state \in RunStates(T), NEW item \in ItemRecs(T),
           ~item.blocked => item.source.path # NoPath
    PROVE  LET after == ExecuteItem(corpus, state, item)
           IN  /\ after \in RunStates(T)
               /\ (after.stopped <=> state.stopped \/ Stops(corpus, item))
               /\ ~state.stopped /\ Writes(corpus, item) =>
                     after.tables = WithKey(state.tables, item.target,
                                            Append(Had(state.tables, item), item.source.path))
               /\ ~state.stopped /\ ~Writes(corpus, item) => after.tables = state.tables
<1> DEFINE after == ExecuteItem(corpus, state, item)
           path == item.source.path
           had == Had(state.tables, item)
           set == WithKey(state.tables, item.target, Append(had, path))
<1>1. /\ path \in Paths /\ item.target \in T /\ item.blocked \in BOOLEAN
  BY ItemIs
<1>2. /\ state.tables \in Tables(T) /\ state.stopped \in BOOLEAN /\ state.failed \in BOOLEAN
      /\ state = [tables |-> state.tables, stopped |-> state.stopped, failed |-> state.failed]
  BY DEF RunStates
<1>3. corpus.trouble \in {NoTrouble} \cup [what : {"empty", "unreadable"}, object : Paths]
  BY InputsAre, HydrationAssumption DEF HydrationAssumption
<1>4. had \in Seq(Paths)
  <2>1. item.target \in DOMAIN state.tables => state.tables[item.target] \in Seq(Paths)
    BY <1>2, TableIs
  <2>2. << >> \in Seq(Paths)
    BY EmptySeq
  <2> QED  BY <2>1, <2>2 DEF Had
<1>5. set \in Tables(T)
  <2> DEFINE value == Append(had, path)
  <2>1. value \in Seq(Paths)
    <3> HIDE DEF had, path
    <3> QED  BY <1>1, <1>4, AppendProperties
  <2> HIDE DEF value
  <2>2. WithKey(state.tables, item.target, value) \in Tables(T)
    BY <1>1, <1>2, <2>1, TableIsSet
  <2> QED  BY <2>2 DEF value
<1> DEFINE empty == corpus.trouble = [what |-> "empty", object |-> path]
           unreadable == corpus.trouble = [what |-> "unreadable", object |-> path]
<1>6. ASSUME ~item.blocked PROVE Writes(corpus, item) <=> ~empty /\ ~unreadable
  <2>1. path # NoPath
    BY <1>6
  <2>2. CASE corpus.trouble = NoTrouble
    <3>1. corpus.trouble.object = NoPath /\ corpus.trouble.what = "none"
      BY <2>2 DEF NoTrouble
    <3>2. empty => corpus.trouble.what = "empty"
      OBVIOUS
    <3>3. unreadable => corpus.trouble.what = "unreadable"
      OBVIOUS
    <3>4. corpus.trouble.what # "empty" /\ corpus.trouble.what # "unreadable"
      BY <3>1
    <3> HIDE DEF path, empty, unreadable
    <3> QED  BY <1>6, <2>1, <3>1, <3>2, <3>3, <3>4 DEF Writes, path
  <2>3. CASE corpus.trouble \in [what : {"empty", "unreadable"}, object : Paths]
    <3>1. /\ corpus.trouble = [what |-> corpus.trouble.what, object |-> corpus.trouble.object]
          /\ corpus.trouble.what \in {"empty", "unreadable"}
      BY <2>3
    <3>2. empty => corpus.trouble.object = path
      OBVIOUS
    <3>3. unreadable => corpus.trouble.object = path
      OBVIOUS
    <3>4. corpus.trouble.object = path => empty \/ unreadable
      BY <3>1
    <3> HIDE DEF empty, unreadable
    <3> QED  BY <1>6, <3>2, <3>3, <3>4 DEF Writes
  <2> QED  BY <1>3, <2>2, <2>3
<1>7. Written(state.tables, item, corpus.trouble) = IF empty THEN state.tables ELSE set
  BY DEF Written, Had
<1>8. Fails(corpus, item) <=> unreadable
  BY DEF Fails
<1>9. after = IF state.stopped \/ item.blocked THEN state
              ELSE IF unreadable THEN [state EXCEPT !.stopped = corpus.onError = "stop", !.failed = TRUE]
              ELSE [state EXCEPT !.tables = Written(state.tables, item, corpus.trouble)]
  BY <1>8 DEF ExecuteItem
<1> DEFINE written == Written(state.tables, item, corpus.trouble)
           stop == corpus.onError = "stop"
<1>10. written \in Tables(T)
  <2> HIDE DEF set, written, empty
  <2> QED  BY <1>2, <1>5, <1>7 DEF written
<1>11. stop \in BOOLEAN
  OBVIOUS
<1> HIDE DEF after, set, empty, unreadable, written, stop
<1>12. CASE state.stopped
  <2>1. after = state
    BY <1>9, <1>12 DEF stop, written
  <2> QED  BY <1>2, <1>12, <2>1 DEF after, set, had, path
<1>13. CASE ~state.stopped /\ item.blocked
  <2>1. after = state
    BY <1>9, <1>13
  <2>2. ~Stops(corpus, item) /\ ~Writes(corpus, item)
    BY <1>13 DEF Stops, Writes
  <2>3. after.stopped <=> state.stopped
    BY <2>1
  <2>4. after.tables = state.tables
    BY <2>1
  <2> QED  BY <2>1, <2>2, <2>3, <2>4 DEF after
<1>14. CASE ~state.stopped /\ ~item.blocked /\ unreadable
  <2>1. after = [state EXCEPT !.stopped = stop, !.failed = TRUE]
    BY <1>9, <1>14 DEF stop
  <2>2. after = [tables |-> state.tables, stopped |-> stop, failed |-> TRUE]
    BY <1>2, <2>1
  <2>3. after \in RunStates(T) /\ after.stopped = stop /\ after.tables = state.tables
    BY <1>2, <1>11, <2>2 DEF RunStates
  <2>4. ~Writes(corpus, item)
    BY <1>6, <1>14
  <2>5. Stops(corpus, item) <=> stop
    BY <1>8, <1>14 DEF Stops, stop
  <2>6. (after.stopped <=> state.stopped \/ Stops(corpus, item))
    BY <1>11, <1>14, <2>3, <2>5
  <2> QED  BY <2>3, <2>4, <2>6 DEF after
<1>15. CASE ~state.stopped /\ ~item.blocked /\ ~unreadable
  <2>1. after = [state EXCEPT !.tables = written]
    BY <1>9, <1>15 DEF written
  <2>2. after = [tables |-> written, stopped |-> state.stopped, failed |-> state.failed]
    BY <1>2, <2>1
  <2>3. after \in RunStates(T) /\ after.stopped = state.stopped /\ after.tables = written
    BY <1>2, <1>10, <2>2 DEF RunStates
  <2>4. ~Stops(corpus, item)
    BY <1>8, <1>15 DEF Stops
  <2>5. Writes(corpus, item) => written = set
    BY <1>6, <1>7, <1>15 DEF written
  <2>6. ~Writes(corpus, item) => written = state.tables
    BY <1>6, <1>7, <1>15 DEF written
  <2>7. (after.stopped <=> state.stopped \/ Stops(corpus, item))
    BY <1>15, <2>3, <2>4
  <2> QED  BY <2>3, <2>5, <2>6, <2>7 DEF after, set, had, path
<1> QED  BY <1>1, <1>2, <1>12, <1>13, <1>14, <1>15 DEF after

\* The items of a plan that a run goes through.
RunItems(items, T) ==
    /\ items \in Seq(ItemRecs(T))
    /\ \A k \in DOMAIN items : ~items[k].blocked => items[k].source.path # NoPath

\* A run of a plan, item by item.
LEMMA PlanIsExecuted ==
    ASSUME NEW T, NEW corpus \in PlanInputs, NEW items, RunItems(items, T), NEW tables \in Tables(T)
    PROVE  \E h \in [0..Len(items) -> RunStates(T)] :
              /\ h[0] = StartRun(tables)
              /\ \A k \in 1..Len(items) : h[k] = ExecuteItem(corpus, h[k - 1], items[k])
              /\ Executed(corpus, items, tables) = h[Len(items)]
<1> DEFINE d == Len(items)
           S == RunStates(T)
           base == StartRun(tables)
           seqn == items
           Add(v, e) == ExecuteItem(corpus, v, e)
           step == [z \in (1..d) \X S |-> Add(z[2], seqn[z[1]])]
           Eqn(f) == f = [J \in SUBSET (1..d) |->
                            IF J = {} THEN base ELSE Add(f[J \ {Max(J)}], seqn[Max(J)])]
           c == CHOOSE f : Eqn(f)
<1>1. d \in Nat /\ DOMAIN seqn = 1..d
  BY LenProperties DEF RunItems
<1>2. Executed(corpus, items, tables) = c[1..d]
  BY <1>1 DEF Executed, StartRun, FoldLeft, MapThenFoldSet
<1>3. base \in S
  BY DEF StartRun, RunStates
<1>4. ASSUME NEW v \in S, NEW k \in 1..d PROVE Add(v, seqn[k]) \in S
  <2>1. items[k] \in ItemRecs(T) /\ (~items[k].blocked => items[k].source.path # NoPath)
    BY <1>1, ElementOfSeq DEF RunItems
  <2> QED  BY <2>1, ItemIsExecuted
<1> HIDE DEF Add
<1>5. step \in [(1..d) \X S -> S]
  <2> HIDE DEF S, d, seqn
  <2> QED  BY <1>4
<1>6. \A k \in 1..d : \A v \in S : step[<<k, v>>] = Add(v, seqn[k])
  OBVIOUS
<1> HIDE DEF step, d, S, base, seqn
<1>7. PICK f : FoldsLeft(f, d, S, base, step)
  BY <1>1, <1>3, <1>5, FoldLeftExists
<1>8. Eqn(f)
  <2>1. \A J \in SUBSET (1..d) : J # {} => Max(J) \in 1..d /\ f[J \ {Max(J)}] \in S
    BY <1>1, <1>7, LargestOf DEF FoldsLeft
  <2>2. \A J \in SUBSET (1..d) :
           f[J] = IF J = {} THEN base ELSE Add(f[J \ {Max(J)}], seqn[Max(J)])
    BY <1>1, <1>6, <1>7, <2>1 DEF FoldsLeft
  <2> QED  BY <1>7, <2>2 DEF FoldsLeft
<1>9. Eqn(c)
  <2> HIDE DEF Eqn
  <2> QED  BY <1>8
<1>10. \A J \in SUBSET (1..d) :
          c[J] = IF J = {} THEN base ELSE Add(c[J \ {Max(J)}], seqn[Max(J)])
  <2> HIDE DEF c
  <2> QED  BY <1>9
<1> HIDE DEF c, Eqn
<1>11. /\ c[{}] = base
       /\ \A k \in 1..d : c[1..(k - 1)] \in S => c[1..k] \in S
       /\ \A k \in 1..d : c[1..k] = Add(c[1..(k - 1)], seqn[k])
  <2>1. ASSUME NEW k \in 1..d PROVE c[1..k] = Add(c[1..(k - 1)], seqn[k])
    <3>1. k \in Nat /\ k # 0 /\ (1..k) \in SUBSET (1..d)
      BY <1>1
    <3>2. Max(1..k) = k /\ (1..k) \ {k} = 1..(k - 1) /\ 1..k # {}
      BY <3>1, PlacesUpTo
    <3> QED  BY <1>10, <3>1, <3>2
  <2>2. \A k \in 1..d : c[1..(k - 1)] \in S => c[1..k] \in S
    BY <1>4, <2>1
  <2> QED  BY <1>10, <2>1, <2>2
<1>12. PICK h \in [0..d -> S] : h[0] = c[{}] /\ \A k \in 0..d : h[k] = c[1..k]
  <2>1. d \in Nat /\ c[{}] \in S
    BY <1>1, <1>3, <1>11
  <2>2. Stays(c, d, S)
    BY <1>11 DEF Stays
  <2> QED  BY <2>1, <2>2, StatesUpTo
<1>13. \A k \in 1..d : h[k] = Add(h[k - 1], seqn[k])
  <2>1. \A k \in 1..d : k \in 0..d /\ k - 1 \in 0..d
    BY <1>1
  <2> QED  BY <1>11, <1>12, <2>1
<1>14. c[1..d] = h[d]
  BY <1>1, <1>12
<1>15. h \in [0..Len(items) -> RunStates(T)] /\ h[0] = StartRun(tables)
  BY <1>11, <1>12 DEF d, S, base
<1>16. \A k \in 1..Len(items) : h[k] = ExecuteItem(corpus, h[k - 1], items[k])
  BY <1>1, <1>13 DEF d, seqn, Add
<1>17. Executed(corpus, items, tables) = h[Len(items)]
  BY <1>2, <1>14 DEF d
<1> QED  BY <1>15, <1>16, <1>17

\* What is loaded into a table, item by item.
LEMMA LoadsAreListed ==
    ASSUME NEW T, NEW corpus \in PlanInputs, NEW items, RunItems(items, T), NEW target, IsTarget(target, T)
    PROVE  \E h \in [0..Len(items) -> Seq(Paths)] :
              /\ h[0] = << >>
              /\ \A k \in 1..Len(items) : h[k] = Adds(corpus, items[k], target, h[k - 1])
              /\ LoadedInto(corpus, items, target) = h[Len(items)]
<1> DEFINE d == Len(items)
           S == Seq(Paths)
           base == << >>
           seqn == items
           Add(v, e) == Adds(corpus, e, target, v)
           step == [z \in (1..d) \X S |-> Add(z[2], seqn[z[1]])]
           Eqn(f) == f = [J \in SUBSET (1..d) |->
                            IF J = {} THEN base ELSE Add(f[J \ {Max(J)}], seqn[Max(J)])]
           c == CHOOSE f : Eqn(f)
<1>1. d \in Nat /\ DOMAIN seqn = 1..d
  BY LenProperties DEF RunItems
<1>2. LoadedInto(corpus, items, target) = c[1..d]
  BY <1>1 DEF LoadedInto, Adds, FoldLeft, MapThenFoldSet
<1>3. base \in S
  BY EmptySeq
<1>4. ASSUME NEW v \in S, NEW k \in 1..d PROVE Add(v, seqn[k]) \in S
  <2> DEFINE path == items[k].source.path
  <2>1. path \in Paths
    BY <1>1, ElementOfSeq, ItemIs DEF RunItems
  <2>2. Add(v, seqn[k]) = IF Loads(corpus, items[k], target) THEN Append(v, path) ELSE v
    BY DEF Adds
  <2> HIDE DEF Add, path
  <2> QED  BY <2>1, <2>2, AppendProperties
<1> HIDE DEF Add
<1>5. step \in [(1..d) \X S -> S]
  <2> HIDE DEF S, d, seqn
  <2> QED  BY <1>4
<1>6. \A k \in 1..d : \A v \in S : step[<<k, v>>] = Add(v, seqn[k])
  OBVIOUS
<1> HIDE DEF step, d, S, base, seqn
<1>7. PICK f : FoldsLeft(f, d, S, base, step)
  BY <1>1, <1>3, <1>5, FoldLeftExists
<1>8. Eqn(f)
  <2>1. \A J \in SUBSET (1..d) : J # {} => Max(J) \in 1..d /\ f[J \ {Max(J)}] \in S
    BY <1>1, <1>7, LargestOf DEF FoldsLeft
  <2>2. \A J \in SUBSET (1..d) :
           f[J] = IF J = {} THEN base ELSE Add(f[J \ {Max(J)}], seqn[Max(J)])
    BY <1>1, <1>6, <1>7, <2>1 DEF FoldsLeft
  <2> QED  BY <1>7, <2>2 DEF FoldsLeft
<1>9. Eqn(c)
  <2> HIDE DEF Eqn
  <2> QED  BY <1>8
<1>10. \A J \in SUBSET (1..d) :
          c[J] = IF J = {} THEN base ELSE Add(c[J \ {Max(J)}], seqn[Max(J)])
  <2> HIDE DEF c
  <2> QED  BY <1>9
<1> HIDE DEF c, Eqn
<1>11. /\ c[{}] = base
       /\ \A k \in 1..d : c[1..(k - 1)] \in S => c[1..k] \in S
       /\ \A k \in 1..d : c[1..k] = Add(c[1..(k - 1)], seqn[k])
  <2>1. ASSUME NEW k \in 1..d PROVE c[1..k] = Add(c[1..(k - 1)], seqn[k])
    <3>1. k \in Nat /\ k # 0 /\ (1..k) \in SUBSET (1..d)
      BY <1>1
    <3>2. Max(1..k) = k /\ (1..k) \ {k} = 1..(k - 1) /\ 1..k # {}
      BY <3>1, PlacesUpTo
    <3> QED  BY <1>10, <3>1, <3>2
  <2>2. \A k \in 1..d : c[1..(k - 1)] \in S => c[1..k] \in S
    BY <1>4, <2>1
  <2> QED  BY <1>10, <2>1, <2>2
<1>12. PICK h \in [0..d -> S] : h[0] = c[{}] /\ \A k \in 0..d : h[k] = c[1..k]
  <2>1. d \in Nat /\ c[{}] \in S
    BY <1>1, <1>3, <1>11
  <2>2. Stays(c, d, S)
    BY <1>11 DEF Stays
  <2> QED  BY <2>1, <2>2, StatesUpTo
<1>13. \A k \in 1..d : h[k] = Add(h[k - 1], seqn[k])
  <2>1. \A k \in 1..d : k \in 0..d /\ k - 1 \in 0..d
    BY <1>1
  <2> QED  BY <1>11, <1>12, <2>1
<1>14. c[1..d] = h[d]
  BY <1>1, <1>12
<1>15. h \in [0..Len(items) -> Seq(Paths)] /\ h[0] = << >>
  BY <1>11, <1>12 DEF d, S, base
<1>16. \A k \in 1..Len(items) : h[k] = Adds(corpus, items[k], target, h[k - 1])
  BY <1>1, <1>13 DEF d, seqn, Add
<1>17. LoadedInto(corpus, items, target) = h[Len(items)]
  BY <1>2, <1>14 DEF d
<1> QED  BY <1>15, <1>16, <1>17

\* A run stops when an item stops it, whatever is in the tables.
LEMMA RunStopsByItem ==
    ASSUME NEW T, NEW corpus \in PlanInputs, NEW items, RunItems(items, T), NEW tables \in Tables(T)
    PROVE  /\ Executed(corpus, items, tables) \in RunStates(T)
           /\ Executed(corpus, items, tables).stopped <=> \E k \in DOMAIN items : Stops(corpus, items[k])
<1> DEFINE n == Len(items)
<1>1. /\ n \in Nat /\ DOMAIN items = 1..n
      /\ \A k \in 1..n : items[k] \in ItemRecs(T) /\ (~items[k].blocked => items[k].source.path # NoPath)
  <2>1. items \in Seq(ItemRecs(T))
    BY DEF RunItems
  <2>2. n \in Nat /\ DOMAIN items = 1..n /\ \A k \in 1..n : items[k] \in ItemRecs(T)
    BY <2>1, LenProperties, ElementOfSeq
  <2> QED  BY <2>2 DEF RunItems
<1>2. PICK h \in [0..n -> RunStates(T)] :
         /\ h[0] = StartRun(tables)
         /\ \A k \in 1..n : h[k] = ExecuteItem(corpus, h[k - 1], items[k])
         /\ Executed(corpus, items, tables) = h[n]
  BY PlanIsExecuted
<1> HIDE DEF n
<1> DEFINE Good(k) == h[k].stopped <=> \E j \in 1..k : Stops(corpus, items[j])
           B == {k \in 0..n : Good(k)}
<1>3. 0 \in B
  <2>1. ~h[0].stopped
    BY <1>2 DEF StartRun
  <2>2. 1..0 = {}
    OBVIOUS
  <2>3. Good(0)
    BY <2>1, <2>2
  <2> QED  BY <1>1, <2>3
<1>4. ASSUME NEW k \in 1..n, k - 1 \in B PROVE k \in B
  <2>1. /\ h[k - 1] \in RunStates(T) /\ Good(k - 1) /\ k \in 0..n
        /\ h[k] = ExecuteItem(corpus, h[k - 1], items[k])
    BY <1>1, <1>2, <1>4
  <2> DEFINE v == h[k - 1]
             after == ExecuteItem(corpus, v, items[k])
  <2>2. after.stopped <=> v.stopped \/ Stops(corpus, items[k])
    BY <1>1, <2>1, ItemIsExecuted
  <2>3. \A j : j \in 1..k <=> j \in 1..(k - 1) \/ j = k
    BY <1>1
  <2>4. Good(k)
    <3> HIDE DEF after
    <3> QED  BY <2>1, <2>2, <2>3 DEF after
  <2> QED  BY <2>1, <2>4
<1>5. Good(n)
  <2>1. \A k \in 0..n : k \in B
    <3> HIDE DEF B
    <3> QED  BY <1>1, <1>3, <1>4, UpTo
  <2> QED  BY <1>1, <2>1
<1>6. h[n] \in RunStates(T)
  BY <1>1, <1>2
<1> QED  BY <1>1, <1>2, <1>5, <1>6

\* The item that replaces a table, and those that add to it.
Replaces(corpus, items, target, n) ==
    /\ n \in DOMAIN items /\ items[n].target = target /\ items[n].mode = "overwrite"
    /\ Writes(corpus, items[n])
    /\ \A j \in DOMAIN items : j < n => items[j].target # target
    /\ \A j \in DOMAIN items : j > n /\ items[j].target = target => items[j].mode = "append"

LEMMA LoadsWrite ==
    ASSUME NEW corpus, NEW item, NEW target
    PROVE  Loads(corpus, item, target) <=> item.target = target /\ Writes(corpus, item)
BY DEF Loads, Writes

\* What a run that nothing stops leaves in a table one of its items replaces.
LEMMA TableIsReplaced ==
    ASSUME NEW T, NEW corpus \in PlanInputs, NEW items, RunItems(items, T), NEW tables \in Tables(T),
           \A k \in DOMAIN items : ~Stops(corpus, items[k]),
           NEW target, NEW first, Replaces(corpus, items, target, first)
    PROVE  Executed(corpus, items, tables).tables[target] = LoadedInto(corpus, items, target)
<1> DEFINE n == Len(items)
<1>1. /\ items \in Seq(ItemRecs(T)) /\ n \in Nat /\ DOMAIN items = 1..n
      /\ \A k \in 1..n : items[k] \in ItemRecs(T) /\ (~items[k].blocked => items[k].source.path # NoPath)
  <2>1. items \in Seq(ItemRecs(T))
    BY DEF RunItems
  <2>2. n \in Nat /\ DOMAIN items = 1..n /\ \A k \in 1..n : items[k] \in ItemRecs(T)
    BY <2>1, LenProperties, ElementOfSeq
  <2> QED  BY <2>1, <2>2 DEF RunItems
<1>2. PICK h \in [0..n -> RunStates(T)] :
         /\ h[0] = StartRun(tables)
         /\ \A k \in 1..n : h[k] = ExecuteItem(corpus, h[k - 1], items[k])
         /\ Executed(corpus, items, tables) = h[n]
  BY PlanIsExecuted
<1>3. PICK l \in [0..n -> Seq(Paths)] :
         /\ l[0] = << >>
         /\ \A k \in 1..n : l[k] = IF Loads(corpus, items[k], target)
                                   THEN Append(l[k - 1], items[k].source.path) ELSE l[k - 1]
         /\ LoadedInto(corpus, items, target) = l[n]
  <2>1. IsTarget(target, T)
    <3>1. first \in 1..n /\ items[first].target = target
      BY <1>1 DEF Replaces
    <3> HIDE DEF n
    <3> QED  BY <1>1, <3>1, ItemIs DEF IsTarget
  <2>2. PICK f \in [0..n -> Seq(Paths)] :
           /\ f[0] = << >>
           /\ \A k \in 1..n : f[k] = Adds(corpus, items[k], target, f[k - 1])
           /\ LoadedInto(corpus, items, target) = f[n]
    BY <2>1, LoadsAreListed
  <2> QED  BY <2>2 DEF Adds
<1> HIDE DEF n
<1>4. /\ first \in 1..n /\ items[first].target = target /\ items[first].mode = "overwrite"
      /\ Writes(corpus, items[first])
      /\ \A j \in 1..n : j < first => items[j].target # target
      /\ \A j \in 1..n : j > first /\ items[j].target = target => items[j].mode = "append"
  BY <1>1 DEF Replaces
<1> DEFINE Good(k) == /\ ~h[k].stopped
                      /\ k < first => l[k] = << >>
                      /\ k >= first => target \in DOMAIN h[k].tables /\ h[k].tables[target] = l[k]
           B == {k \in 0..n : Good(k)}
<1>5. 0 \in B
  <2>1. ~h[0].stopped /\ l[0] = << >>
    BY <1>2, <1>3 DEF StartRun
  <2>2. ~(0 >= first)
    BY <1>1, <1>4
  <2>3. Good(0)
    BY <2>1, <2>2
  <2> HIDE DEF Good
  <2> QED  BY <1>1, <2>3
<1>6. ASSUME NEW k \in 1..n, k - 1 \in B PROVE k \in B
  <2> DEFINE v == h[k - 1]
             item == items[k]
             path == item.source.path
             had == Had(v.tables, item)
             after == ExecuteItem(corpus, v, item)
             old == l[k - 1]
  <2>1. /\ v \in RunStates(T) /\ Good(k - 1) /\ k \in 0..n /\ k - 1 \in 0..n
        /\ h[k] = after /\ item \in ItemRecs(T) /\ (~item.blocked => item.source.path # NoPath)
    BY <1>1, <1>2, <1>6
  <2>2. /\ after.stopped <=> v.stopped \/ Stops(corpus, item)
        /\ ~v.stopped /\ Writes(corpus, item) =>
              after.tables = WithKey(v.tables, item.target, Append(had, path))
        /\ ~v.stopped /\ ~Writes(corpus, item) => after.tables = v.tables
    <3> HIDE DEF v, item
    <3> QED  BY <2>1, ItemIsExecuted
  <2>3. ~v.stopped /\ ~Stops(corpus, item)
    BY <1>1, <2>1
  <2>4. l[k] = IF item.target = target /\ Writes(corpus, item) THEN Append(old, path) ELSE old
    BY <1>3, LoadsWrite
  <2>5. v.tables \in Tables(T) /\ item.target \in T /\ path \in Paths /\ old \in Seq(Paths)
    <3>1. item.target \in T /\ path \in Paths
      BY <2>1, ItemIs
    <3> QED  BY <1>3, <2>1, <3>1 DEF RunStates
  <2>6. had \in Seq(Paths)
    <3>1. item.target \in DOMAIN v.tables => v.tables[item.target] \in Seq(Paths)
      BY <2>5, TableIs
    <3>2. << >> \in Seq(Paths)
      BY EmptySeq
    <3> QED  BY <3>1, <3>2 DEF Had
  <2> DEFINE value == Append(had, path)
             set == WithKey(v.tables, item.target, value)
  <2>7. /\ DOMAIN set = DOMAIN v.tables \cup {item.target} /\ set[item.target] = value
        /\ \A x \in DOMAIN v.tables \ {item.target} : set[x] = v.tables[x]
    <3> DEFINE held == v.tables
               key == item.target
    <3> HIDE DEF value, v, item, held, key
    <3>1. /\ DOMAIN WithKey(held, key, value) = DOMAIN held \cup {key}
          /\ WithKey(held, key, value)[key] = value
          /\ \A x \in DOMAIN held \ {key} : WithKey(held, key, value)[x] = held[x]
      BY DEF WithKey
    <3> QED  BY <3>1 DEF held, key
  <2>8. ~v.stopped /\ Writes(corpus, item) => after.tables = set
    BY <2>2
  <2>9. k < first => l[k] = << >>
    <3> SUFFICES ASSUME k < first PROVE l[k] = << >>
      OBVIOUS
    <3>1. item.target # target
      BY <1>4
    <3>2. k - 1 < first
      BY <1>1, <1>4
    <3>3. old = << >>
      BY <2>1, <3>2
    <3> HIDE DEF old, item
    <3> QED  BY <2>4, <3>1, <3>3
  <2>10. item.target = target => item.mode = IF k = first THEN "overwrite" ELSE "append"
    <3>1. k < first \/ k = first \/ k > first
      BY <1>1, <1>4
    <3> QED  BY <1>4, <3>1
  <2>11. k = first => item.target = target /\ Writes(corpus, item) /\ old = << >>
    <3>1. ASSUME k = first PROVE k - 1 < first
      BY <1>1, <3>1
    <3> QED  BY <1>4, <2>1, <3>1
  <2>12. k # first /\ k >= first => target \in DOMAIN v.tables /\ v.tables[target] = old
    <3>1. ASSUME k # first, k >= first PROVE k - 1 >= first
      BY <1>1, <1>4, <3>1
    <3> QED  BY <2>1, <3>1
  <2>13. Had(v.tables, item) = IF item.target \in DOMAIN v.tables /\ item.mode = "append"
                               THEN v.tables[item.target] ELSE << >>
    BY DEF Had
  <2> HIDE DEF v, item, path, had, after, old, value, set
  <2>14. ASSUME k >= first PROVE target \in DOMAIN after.tables /\ after.tables[target] = l[k]
    <3>1. CASE item.target = target /\ Writes(corpus, item)
      <4>1. had = old
        <5>1. CASE k = first
          <6>1. item.mode = "overwrite"
            BY <2>10, <3>1, <5>1
          <6> QED  BY <2>11, <2>13, <5>1, <6>1 DEF had
        <5>2. CASE k # first
          <6>1. item.mode = "append"
            BY <2>10, <3>1, <5>2
          <6>2. target \in DOMAIN v.tables /\ v.tables[target] = old
            BY <2>12, <2>14, <5>2
          <6> QED  BY <2>13, <3>1, <6>1, <6>2 DEF had
        <5> QED  BY <5>1, <5>2
      <4>2. after.tables = set /\ l[k] = Append(old, path)
        BY <2>3, <2>4, <2>8, <3>1
      <4>3. set[item.target] = Append(old, path) /\ item.target \in DOMAIN set
        BY <2>7, <4>1 DEF value
      <4> QED  BY <3>1, <4>2, <4>3
    <3>2. CASE ~(item.target = target /\ Writes(corpus, item))
      <4>1. k # first
        BY <2>11, <3>2
      <4>2. target \in DOMAIN v.tables /\ v.tables[target] = old
        BY <2>12, <2>14, <4>1
      <4>3. l[k] = old
        BY <2>4, <3>2
      <4>4. CASE Writes(corpus, item)
        <5>1. item.target # target /\ after.tables = set
          BY <2>3, <2>8, <3>2, <4>4
        <5> QED  BY <2>7, <4>2, <4>3, <5>1
      <4>5. CASE ~Writes(corpus, item)
        <5>1. after.tables = v.tables
          BY <2>2, <2>3, <4>5
        <5> QED  BY <4>2, <4>3, <5>1
      <4> QED  BY <4>4, <4>5
    <3> QED  BY <3>1, <3>2
  <2>15. ~after.stopped
    BY <2>2, <2>3
  <2>16. Good(k)
    BY <2>1, <2>9, <2>14, <2>15
  <2> HIDE DEF Good
  <2> QED  BY <2>1, <2>16
<1>7. Good(n)
  <2>1. \A k \in 0..n : k \in B
    <3> HIDE DEF B
    <3> QED  BY <1>1, <1>5, <1>6, UpTo
  <2> QED  BY <1>1, <2>1
<1>8. n >= first
  BY <1>1, <1>4
<1> QED  BY <1>2, <1>3, <1>7, <1>8

LEMMA PlanRunsItems ==
    ASSUME NEW corpus \in PlanInputs
    PROVE  LET sources == Sources(corpus.files, Members(corpus.files))
               T == {Target(sources[n], corpus.schema) : n \in DOMAIN sources}
           IN  /\ sources \in Seq(SourceRecs) /\ RunItems(Plan(corpus).items, T)
               /\ DOMAIN Plan(corpus).items = DOMAIN sources
               /\ \A n \in DOMAIN sources :
                     /\ Plan(corpus).items[n].target = Target(sources[n], corpus.schema)
                     /\ Plan(corpus).items[n].mode =
                           IF First(sources, corpus.schema, n) THEN "overwrite" ELSE "append"
<1> DEFINE members == Members(corpus.files)
           sources == Sources(corpus.files, members)
           schema == corpus.schema
           T == {Target(sources[n], schema) : n \in DOMAIN sources}
           items == Plan(corpus).items
<1>1. sources \in Seq(SourceRecs) /\ Lists(members.named, DOMAIN members.named, sources)
  <2>1. corpus.files \in SasCorpora
    BY InputsAre
  <2> QED  BY <2>1, SourcesList
<1>2. /\ items = [n \in DOMAIN sources |->
                    [source |-> sources[n], target |-> Target(sources[n], schema),
                     blocked |-> Blocked(sources[n], schema),
                     mode |-> IF First(sources, schema, n) THEN "overwrite" ELSE "append"]]
  BY DEF Plan
<1> HIDE DEF members, sources, schema
<1>3. Len(sources) \in Nat /\ DOMAIN sources = 1..Len(sources) /\ \A n \in DOMAIN sources : sources[n] \in SourceRecs
  <2>1. Len(sources) \in Nat /\ DOMAIN sources = 1..Len(sources)
    BY <1>1, LenProperties
  <2>2. \A n \in 1..Len(sources) : sources[n] \in SourceRecs
    BY <1>1, ElementOfSeq
  <2> QED  BY <2>1, <2>2
<1>4. DOMAIN items = DOMAIN sources
  <2> HIDE DEF T
  <2> QED  BY <1>2
<1>5. ASSUME NEW n \in DOMAIN sources
      PROVE  /\ items[n] \in ItemRecs(T) /\ items[n].target = Target(sources[n], schema)
             /\ items[n].mode = IF First(sources, schema, n) THEN "overwrite" ELSE "append"
             /\ ~items[n].blocked => items[n].source.path # NoPath
  <2> DEFINE source == sources[n]
             target == Target(source, schema)
             blocked == Blocked(source, schema)
             mode == IF First(sources, schema, n) THEN "overwrite" ELSE "append"
  <2>1. items[n] = [source |-> source, target |-> target, blocked |-> blocked, mode |-> mode]
    <3> HIDE DEF items
    <3> QED  BY <1>2
  <2>2. source \in SourceRecs /\ target \in T
    BY <1>3
  <2>3. blocked \in BOOLEAN
    BY DEF Blocked
  <2>4. mode \in {"overwrite", "append"}
    OBVIOUS
  <2>5. ~blocked => source.path # NoPath
    <3>1. ~blocked => source.kind \notin {"library", "spde"}
      BY DEF Blocked
    <3>2. source.kind \in {"file", "spde", "dataset", "library"}
      BY <2>2 DEF SourceRecs
    <3>3. source.kind \in {"dataset", "file"} => source.path # NoPath
      BY <1>1 DEF Lists
    <3> HIDE DEF source, blocked
    <3> QED  BY <3>1, <3>2, <3>3
  <2> HIDE DEF items, T, source, target, blocked, mode
  <2>6. items[n] \in ItemRecs(T)
    BY <2>1, <2>2, <2>3, <2>4 DEF ItemRecs
  <2>7. items[n].target = target /\ items[n].mode = mode /\ items[n].blocked = blocked /\ items[n].source = source
    BY <2>1
  <2>8. ~items[n].blocked => items[n].source.path # NoPath
    BY <2>5, <2>7
  <2> QED  BY <2>6, <2>7, <2>8 DEF target, mode, source
<1> HIDE DEF items, T
<1>6. items \in Seq(ItemRecs(T))
  <2>1. items \in [1..Len(sources) -> ItemRecs(T)]
    <3>1. items = [n \in DOMAIN sources |-> items[n]]
      BY <1>2
    <3> QED  BY <1>3, <1>5, <3>1
  <2> QED  BY <1>3, <2>1, IsASeq
<1>7. RunItems(items, T)
  BY <1>4, <1>5, <1>6 DEF RunItems
<1> QED  BY <1>1, <1>4, <1>5, <1>7 DEF items, T, sources, members, schema

LEMMA PlanReplaces == ASSUME HydrationInv PROVE RerunReplaces
<1> SUFFICES ASSUME Answered("plan") PROVE RerunReplaces
  BY DEF RerunReplaces
<1> DEFINE sources == Sources(input.files, Members(input.files))
           schema == input.schema
           T == {Target(sources[n], schema) : n \in DOMAIN sources}
           items == Plan(input).items
           once == Executed(input, items, << >>)
           twice == Executed(input, items, once.tables)
<1>1. input \in PlanInputs /\ result = Hydrated(input)
  BY AnsweredPlan
<1>2. result.plan.items = items /\ result.once = once /\ result.twice = twice
  <2>1. result.plan = Plan(input) /\ result.once = once /\ result.twice = twice
    BY <1>1 DEF Hydrated
  <2> QED  BY <2>1
<1>3. /\ sources \in Seq(SourceRecs) /\ RunItems(items, T) /\ DOMAIN items = DOMAIN sources
      /\ \A n \in DOMAIN sources :
            /\ items[n].target = Target(sources[n], schema)
            /\ items[n].mode = IF First(sources, schema, n) THEN "overwrite" ELSE "append"
  BY <1>1, PlanRunsItems
<1> HIDE DEF sources, schema, T, items
<1>4. << >> \in Tables(T)
  <2>1. << >> \in [{} -> Seq(Paths)]
    OBVIOUS
  <2>2. {} \in SUBSET T
    OBVIOUS
  <2> QED  BY <2>1, <2>2 DEF Tables
<1>5. once \in RunStates(T) /\ (once.stopped <=> \E k \in DOMAIN items : Stops(input, items[k]))
  BY <1>1, <1>3, <1>4, RunStopsByItem
<1>6. once.tables \in Tables(T)
  <2> HIDE DEF once
  <2> QED  BY <1>5 DEF RunStates
<1>7. ASSUME NEW target, ~once.stopped, NEW n \in DOMAIN items,
             Loads(input, items[n], target), items[n].mode = "overwrite"
      PROVE  twice.tables[target] = LoadedInto(input, items, target)
  <2>1. items[n].target = target /\ Writes(input, items[n])
    BY <1>7, LoadsWrite
  <2>2. First(sources, schema, n) /\ target = Target(sources[n], schema)
    BY <1>3, <1>7, <2>1
  <2>3. DOMAIN sources = 1..Len(sources) /\ Len(sources) \in Nat
    BY <1>3, LenProperties
  <2>4. ASSUME NEW j \in DOMAIN items, j < n PROVE items[j].target # target
    <3>1. j \in 1..(n - 1)
      BY <1>3, <2>3, <2>4
    <3> QED  BY <1>3, <2>2, <3>1 DEF First
  <2>5. ASSUME NEW j \in DOMAIN items, j > n, items[j].target = target PROVE items[j].mode = "append"
    <3>1. n \in 1..(j - 1)
      BY <1>3, <2>3, <2>5
    <3>2. Target(sources[n], schema) = Target(sources[j], schema)
      BY <1>3, <2>2, <2>5
    <3>3. ~First(sources, schema, j)
      BY <3>1, <3>2 DEF First
    <3> QED  BY <1>3, <3>3
  <2>6. Replaces(input, items, target, n)
    BY <1>7, <2>1, <2>4, <2>5 DEF Replaces
  <2>7. \A k \in DOMAIN items : ~Stops(input, items[k])
    BY <1>5, <1>7
  <2> HIDE DEF once
  <2> QED  BY <1>1, <1>3, <1>6, <2>6, <2>7, TableIsReplaced DEF twice
<1> HIDE DEF once, twice
<1>8. ASSUME NEW target, ~result.once.stopped,
             \E i \in Range(result.plan.items) : Loads(input, i, target) /\ i.mode = "overwrite"
      PROVE  result.twice.tables[target] = LoadedInto(input, result.plan.items, target)
  <2>1. PICK i \in Range(items) : Loads(input, i, target) /\ i.mode = "overwrite"
    BY <1>2, <1>8
  <2>2. PICK n \in DOMAIN items : i = items[n]
    BY DEF Range
  <2>3. ~once.stopped
    BY <1>2, <1>8
  <2>4. twice.tables[target] = LoadedInto(input, items, target)
    BY <1>7, <2>1, <2>2, <2>3
  <2> QED  BY <1>2, <2>4
<1> QED  BY <1>8 DEF RerunReplaces

-----------------------------------------------------------------------------
\* Whatever the corpus and the ranges: every data set a LIBNAME names is planned,
\* what is planned is read somewhere and loaded once, a table the plan replaces
\* holds what it loads however often it runs, and the ranges of a split source
\* cover it (build_corpus_plan, execute, _row_ranges, _column_ranges).
THEOREM HydrationExact == HydrationSpec => []HydrationIsExact
<1> DEFINE Inv == HydrationInv /\ RangesInv
<1>1. HydrationInit => Inv
  <2>1. PlanInit => Inv
    BY DEF PlanInit, Case, HydrationInv, RangesInv
  <2>2. RangesInit => Inv
    BY DEF RangesInit, Case, HydrationInv, RangesInv
  <2> QED  BY <2>1, <2>2 DEF HydrationInit
<1>2. Inv /\ [PlanStep \/ RangesStep]_caseVars => Inv'
  <2> SUFFICES ASSUME Inv, [PlanStep \/ RangesStep]_caseVars PROVE Inv'
    OBVIOUS
  <2>1. CASE PlanStep
    BY <2>1 DEF PlanStep, Answer, HydrationInv, RangesInv
  <2>2. CASE RangesStep
    BY <2>2 DEF RangesStep, Answer, HydrationInv, RangesInv
  <2>3. CASE UNCHANGED caseVars
    BY <2>3 DEF caseVars, HydrationInv, RangesInv
  <2> QED  BY <2>1, <2>2, <2>3
<1>3. Inv => HydrationIsExact
  BY ReadsArePlanned, PlannedAreRead, LoadedOnce, PlanReplaces, RangesInvCovers DEF HydrationIsExact
<1> QED  BY <1>1, <1>2, <1>3, PTL DEF HydrationSpec
================================================================================
