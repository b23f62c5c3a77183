-------------------------- MODULE SharedThreadProofs --------------------------
(***************************************************************************)
(* Safety of pipelines on one thread, proved for every number of workers,  *)
(* clock ticks, attempts and prunes: a worker's turns replay in the order  *)
(* they happened, a prompt is as fresh as the sync before it, and a single *)
(* worker's rollback takes back its own turn.                              *)
(***************************************************************************)
EXTENDS SharedThread, ProofLemmas

-----------------------------------------------------------------------------
(* The rows in key order.                                                  *)

Keyed(S) == \A m, n \in S : m.tick = n.tick /\ m.rand = n.rand => m = n

Earlier(S, m) == {n \in S : Before(n, m)}

LEMMA MessageFields ==
    ASSUME NEW m \in Messages
    PROVE  /\ m.tick \in Ticks /\ m.rand \in Rands /\ m.by \in Workers /\ m.turn \in 1..MaxTurns
           /\ m.tick \in Nat /\ m.rand \in Nat /\ m.turn \in Nat
<1>1. m.tick \in Ticks /\ m.rand \in Rands /\ m.by \in Workers /\ m.turn \in 1..MaxTurns
  BY DEF Messages
<1>2. Cardinality(Workers) \in Nat /\ MaxTick + 2 * MaxTurns \in Nat /\ MaxTurns \in Nat
  BY ConstantsAssumption, FS_CardinalityType
<1> QED  BY <1>1, <1>2 DEF Ticks, Rands

\* Keys order the messages totally.
LEMMA BeforeIsOrder ==
    ASSUME NEW S \in SUBSET Messages, Keyed(S)
    PROVE  /\ \A m \in S : ~Before(m, m)
           /\ \A m, n \in S : m # n => Before(m, n) \/ Before(n, m)
           /\ \A l, m, n \in S : Before(l, m) /\ Before(m, n) => Before(l, n)
<1>1. \A m \in S : m.tick \in Nat /\ m.rand \in Nat
  BY MessageFields
<1> QED  BY <1>1 DEF Before, Keyed

\* A message later in key order has more messages before it.
LEMMA EarlierGrows ==
    ASSUME NEW S \in SUBSET Messages, Keyed(S), IsFiniteSet(S),
           NEW m \in S, NEW n \in S
    PROVE  /\ Cardinality(Earlier(S, m)) \in 0..(Cardinality(S) - 1)
           /\ Before(m, n) => Cardinality(Earlier(S, m)) < Cardinality(Earlier(S, n))
<1>1. IsFiniteSet(Earlier(S, m)) /\ IsFiniteSet(Earlier(S, n))
  BY FS_Subset DEF Earlier
<1>2. /\ Cardinality(Earlier(S, m)) \in Nat /\ Cardinality(Earlier(S, n)) \in Nat
      /\ Cardinality(S) \in Nat
  BY <1>1, FS_CardinalityType
<1>3. /\ Earlier(S, m) \subseteq S /\ m \notin Earlier(S, m)
  BY BeforeIsOrder DEF Earlier
<1>4. Cardinality(Earlier(S, m)) < Cardinality(S)
  BY <1>2, <1>3, FS_Subset
<1>5. ASSUME Before(m, n)
      PROVE  Cardinality(Earlier(S, m)) < Cardinality(Earlier(S, n))
  <2>1. Earlier(S, m) \subseteq Earlier(S, n) /\ m \in Earlier(S, n)
    BY <1>5, BeforeIsOrder DEF Earlier
  <2> QED  BY <1>1, <1>2, <1>3, <2>1, FS_Subset
<1> QED  BY <1>2, <1>4, <1>5

\* InOrder lists every row once, each behind exactly those that sort before it.
LEMMA InOrderIsWhole ==
    ASSUME NEW S \in SUBSET Messages, Keyed(S), IsFiniteSet(S)
    PROVE  /\ InOrder(S) \in Seq(S) /\ Len(InOrder(S)) = Cardinality(S)
           /\ \A k \in 1..Cardinality(S) :
                 /\ InOrder(S)[k] \in S
                 /\ Cardinality(Earlier(S, InOrder(S)[k])) = k - 1
           /\ ToSet(InOrder(S)) = S
<1> DEFINE c == Cardinality(S)
           rank == [m \in S |-> Cardinality(Earlier(S, m))]
<1>1. c \in Nat /\ IsFiniteSet(0..(c - 1)) /\ Cardinality(0..(c - 1)) = c
  <2>1. c \in Nat
    BY FS_CardinalityType
  <2>2. 0 \in Int /\ c - 1 \in Int
    BY <2>1
  <2>3. IsFiniteSet(0..(c - 1)) /\ Cardinality(0..(c - 1)) = IF 0 > c - 1 THEN 0 ELSE (c - 1) - 0 + 1
    BY <2>2, FS_Interval
  <2> QED  BY <2>1, <2>3
<1>2. rank \in [S -> 0..(c - 1)]
  BY EarlierGrows
<1>3. \A m, n \in S : rank[m] = rank[n] => m = n
  <2> SUFFICES ASSUME NEW m \in S, NEW n \in S, m # n PROVE rank[m] # rank[n]
    OBVIOUS
  <2>1. Before(m, n) \/ Before(n, m)
    BY BeforeIsOrder
  <2>2. /\ Cardinality(Earlier(S, m)) \in Nat /\ Cardinality(Earlier(S, n)) \in Nat
    BY <1>1, EarlierGrows
  <2>3. /\ Before(m, n) => Cardinality(Earlier(S, m)) < Cardinality(Earlier(S, n))
        /\ Before(n, m) => Cardinality(Earlier(S, n)) < Cardinality(Earlier(S, m))
    BY EarlierGrows
  <2> QED  BY <2>1, <2>2, <2>3
<1>4. rank \in Injection(S, 0..(c - 1))
  BY <1>2, <1>3 DEF Injection, IsInjective
<1>5. rank \in Surjection(S, 0..(c - 1))
  BY <1>1, <1>4, FS_Injection
<1>6. \A k \in 1..c : \E m \in S : Cardinality(Earlier(S, m)) = k - 1
  <2> TAKE k \in 1..c
  <2>1. k - 1 \in 0..(c - 1)
    BY <1>1
  <2>2. PICK m \in S : rank[m] = k - 1
    BY <1>5, <2>1 DEF Surjection
  <2> QED  BY <2>2
<1> HIDE DEF c, rank
<1>7. InOrder(S) = [k \in 1..c |-> CHOOSE m \in S : Cardinality(Earlier(S, m)) = k - 1]
  BY DEF InOrder, Earlier, c
<1>8. \A k \in 1..c : InOrder(S)[k] \in S /\ Cardinality(Earlier(S, InOrder(S)[k])) = k - 1
  BY <1>6, <1>7
<1>9. InOrder(S) \in [1..c -> S] /\ InOrder(S) \in Seq(S) /\ Len(InOrder(S)) = c
  BY <1>1, <1>7, <1>8
<1>10. ASSUME NEW m \in S PROVE \E k \in 1..c : InOrder(S)[k] = m
  <2>1. rank[m] \in 0..(c - 1)
    BY <1>2
  <2>2. PICK k \in 1..c : k - 1 = rank[m]
    <3>1. rank[m] + 1 \in 1..c /\ (rank[m] + 1) - 1 = rank[m]
      BY <1>1, <2>1
    <3> QED  BY <3>1
  <2>3. rank[InOrder(S)[k]] = rank[m] /\ InOrder(S)[k] \in S
    BY <1>8, <2>2 DEF rank
  <2> QED  BY <1>3, <2>3
<1>11. ToSet(InOrder(S)) = S
  BY <1>8, <1>9, <1>10 DEF ToSet
<1> QED  BY <1>8, <1>9, <1>11 DEF c

-----------------------------------------------------------------------------
(* Type correctness, unique keys, and turns in order.                      *)

\* The clock a worker mints from is bounded by the ticks and its attempts.
ClockBound(w) ==
    /\ lastTick[w] <= MaxTick + 2 * turn[w]
    /\ pc[w] \in {"sync", "read", "mint"} =>
          turn[w] >= 1 /\ lastTick[w] <= MaxTick + 2 * (turn[w] - 1)

\* What worker w wrote is no later than its clock and its attempts; the
\* attempt at hand is later than all of it.
OwnTurns(w) ==
    /\ \A m \in store \cup pending[w] :
          m.by = w => m.tick <= lastTick[w] /\ m.turn <= turn[w]
    /\ pc[w] \in {"count", "sync", "read", "mint"} => pending[w] = {}
    /\ \A m \in pending[w] : m.by = w /\ m.turn = turn[w]
    /\ pc[w] \in {"sync", "read", "mint", "commit"} =>
          \A m \in store : m.by = w =>
             /\ m.turn < turn[w]
             /\ \A n \in pending[w] : m.tick < n.tick

ThreadInv ==
    /\ TypeOK
    /\ IsFiniteSet(store) /\ \A w \in Workers : IsFiniteSet(pending[w])
    /\ Keyed(Minted)
    /\ \A w \in Workers : ClockBound(w) /\ OwnTurns(w)
    /\ TurnsInOrder

LEMMA InitThreadInv == Init => ThreadInv
<1> SUFFICES ASSUME Init PROVE ThreadInv
  OBVIOUS
<1>1. TypeOK
  BY ConstantsAssumption DEF Init, TypeOK, Ticks
<1>2. IsFiniteSet(store) /\ \A w \in Workers : IsFiniteSet(pending[w])
  BY FS_EmptySet DEF Init
<1>3. Keyed(Minted)
  BY DEF Init, Keyed, Minted
<1>4. \A w \in Workers : ClockBound(w) /\ OwnTurns(w)
  BY ConstantsAssumption DEF Init, ClockBound, OwnTurns
<1>5. TurnsInOrder
  BY DEF Init, TurnsInOrder
<1> QED  BY <1>1, <1>2, <1>3, <1>4, <1>5 DEF ThreadInv

\* The thread's rows are uniquely keyed, so InOrder of them is a sequence.
LEMMA StoreInOrder ==
    ASSUME ThreadInv, NEW S \in SUBSET store
    PROVE  /\ IsFiniteSet(S) /\ S \in SUBSET Messages /\ Keyed(S)
           /\ InOrder(S) \in Seq(S) /\ Len(InOrder(S)) = Cardinality(S)
           /\ Len(InOrder(S)) \in Nat
           /\ ToSet(InOrder(S)) = S
<1>1. IsFiniteSet(S) /\ S \in SUBSET Messages
  BY FS_Subset DEF ThreadInv, TypeOK
<1>2. Keyed(S)
  BY DEF ThreadInv, Keyed, Minted
<1> QED  BY <1>1, <1>2, InOrderIsWhole, FS_CardinalityType

LEMMA RefreshTyped ==
    ASSUME ThreadInv, NEW w \in Workers, Refresh(w)
    PROVE  /\ cache' \in [Workers -> Seq(Messages)]
           /\ loaded' \in [Workers -> BOOLEAN]
           /\ frontier' \in [Workers -> Ticks \cup {0}]
           /\ Len(cache'[w]) \in Nat
<1>0. /\ cache \in [Workers -> Seq(Messages)] /\ loaded \in [Workers -> BOOLEAN]
      /\ frontier \in [Workers -> Ticks \cup {0}] /\ store \in SUBSET Messages
  BY DEF ThreadInv, TypeOK
<1>1. Fresh(w) \in SUBSET store
  BY DEF Fresh
<1>2. InOrder(Fresh(w)) \in Seq(Messages) /\ InOrder(Fresh(w)) \in Seq(Fresh(w))
      /\ Len(InOrder(Fresh(w))) = Cardinality(Fresh(w)) /\ IsFiniteSet(Fresh(w))
  <2>1. InOrder(Fresh(w)) \in Seq(Fresh(w)) /\ Fresh(w) \subseteq Messages
    BY <1>1, StoreInOrder
  <2>2. InOrder(Fresh(w)) \in Seq(Messages)
    BY <2>1
  <2> QED  BY <1>1, <2>1, <2>2, StoreInOrder
<1>3. Refreshed(w) \in Seq(Messages)
  <2>1. (IF loaded[w] THEN cache[w] ELSE << >>) \in Seq(Messages)
    BY <1>0
  <2> QED  BY <1>2, <2>1, ConcatProperties DEF Refreshed
<1>4. Fresh(w) # {} => Last(InOrder(Fresh(w))).tick \in Ticks
  <2> SUFFICES ASSUME Fresh(w) # {} PROVE Last(InOrder(Fresh(w))).tick \in Ticks
    OBVIOUS
  <2>1. Cardinality(Fresh(w)) # 0 /\ Cardinality(Fresh(w)) \in Nat
    BY <1>2, FS_EmptySet, FS_CardinalityType
  <2>2. Last(InOrder(Fresh(w))) \in Messages
    BY <1>2, <2>1, ElementOfSeq DEF Last
  <2> QED  BY <2>2, MessageFields
<1>5. cache' \in [Workers -> Seq(Messages)] /\ cache'[w] \in Seq(Messages)
  BY <1>0, <1>3 DEF Refresh
<1>6. frontier' \in [Workers -> Ticks \cup {0}]
  BY <1>0, <1>4 DEF Refresh
<1> QED  BY <1>0, <1>5, <1>6, LenProperties DEF Refresh

LEMMA InvalidateTyped ==
    ASSUME ThreadInv, NEW w \in Workers, Invalidate(w) \/ UNCHANGED <<cache, loaded, frontier>>
    PROVE  /\ cache' \in [Workers -> Seq(Messages)]
           /\ loaded' \in [Workers -> BOOLEAN]
           /\ frontier' \in [Workers -> Ticks \cup {0}]
<1>1. /\ cache \in [Workers -> Seq(Messages)] /\ loaded \in [Workers -> BOOLEAN]
      /\ frontier \in [Workers -> Ticks \cup {0}]
  BY DEF ThreadInv, TypeOK
<1>2. << >> \in Seq(Messages)
  OBVIOUS
<1>3. CASE Invalidate(w)
  BY <1>1, <1>2, <1>3 DEF Invalidate
<1>4. CASE UNCHANGED <<cache, loaded, frontier>>
  BY <1>1, <1>4
<1> QED  BY <1>3, <1>4

\* The two halves of a turn: keys of their own, later than all the worker wrote.
LEMMA MintedTurn ==
    ASSUME ThreadInv, NEW w \in Workers, MintTurn(w)
    PROVE  \E human, ai \in Messages :
              /\ human.by = w /\ ai.by = w /\ human.turn = turn[w] /\ ai.turn = turn[w]
              /\ human.tick = NextTick(w) /\ ai.tick = NextTick(w) + 1
              /\ \A m \in Minted, n \in {human, ai} : m.tick # n.tick \/ m.rand # n.rand
              /\ pending' = [pending EXCEPT ![w] = {human, ai}]
<1>1. PICK r \in Rands :
         LET human == [tick |-> NextTick(w), rand |-> r, by |-> w, turn |-> turn[w]]
             ai    == [human EXCEPT !.tick = @ + 1]
         IN  /\ \A m \in Minted, n \in {human, ai} :
                    <<m.tick, m.rand>> # <<n.tick, n.rand>>
             /\ pending' = [pending EXCEPT ![w] = {human, ai}]
  BY DEF MintTurn
<1> DEFINE human == [tick |-> NextTick(w), rand |-> r, by |-> w, turn |-> turn[w]]
           ai == [tick |-> NextTick(w) + 1, rand |-> r, by |-> w, turn |-> turn[w]]
<1>2. [human EXCEPT !.tick = @ + 1] = ai
  OBVIOUS
<1>3. NextTick(w) \in Ticks /\ NextTick(w) + 1 \in Ticks /\ turn[w] \in 1..MaxTurns
  <2>1. /\ clock \in 1..MaxTick /\ lastTick[w] \in Ticks \cup {0} /\ turn[w] \in 0..MaxTurns
        /\ turn[w] >= 1 /\ lastTick[w] <= MaxTick + 2 * (turn[w] - 1)
        /\ MaxTick \in Nat /\ MaxTurns \in Nat
    BY ConstantsAssumption DEF ThreadInv, TypeOK, ClockBound, MintTurn
  <2>2. lastTick[w] \in Nat /\ lastTick[w] + 2 <= MaxTick + 2 * MaxTurns /\ clock \in Nat
        /\ clock + 1 <= MaxTick + 2 * MaxTurns /\ clock >= 1
    BY <2>1 DEF Ticks
  <2>3. MaxTick + 2 * MaxTurns \in Nat
    BY <2>1
  <2> QED  BY <2>1, <2>2, <2>3 DEF NextTick, Ticks
<1>4. human \in Messages /\ ai \in Messages
  BY <1>3 DEF Messages
<1>5. \A m \in Minted, n \in {human, ai} : m.tick # n.tick \/ m.rand # n.rand
  BY <1>1, <1>2
<1>6. pending' = [pending EXCEPT ![w] = {human, ai}]
  BY <1>1, <1>2
<1>7. /\ human.by = w /\ ai.by = w /\ human.turn = turn[w] /\ ai.turn = turn[w]
      /\ human.tick = NextTick(w) /\ ai.tick = NextTick(w) + 1
  OBVIOUS
<1> HIDE DEF human, ai
<1> QED  BY <1>4, <1>5, <1>6, <1>7
\* The rows beyond the first len_before are rows of the thread.
LEMMA DoomedRows ==
    ASSUME ThreadInv, NEW w \in Workers, RejectTurn(w)
    PROVE  doomed'[w] \subseteq store /\ doomed' \in [Workers -> SUBSET Messages]
<1>1. /\ InOrder(store) \in Seq(store) /\ Len(InOrder(store)) \in Nat /\ lenBefore[w] \in Nat
      /\ store \in SUBSET Messages /\ doomed \in [Workers -> SUBSET Messages]
  BY StoreInOrder DEF ThreadInv, TypeOK
<1>2. \A k \in (lenBefore[w] + 1)..Len(InOrder(store)) : InOrder(store)[k] \in store
  BY <1>1, ElementOfSeq
<1>3. {InOrder(store)[k] : k \in (lenBefore[w] + 1)..Len(InOrder(store))} \in SUBSET store
  BY <1>2
<1> QED  BY <1>1, <1>3 DEF RejectTurn

LEMMA ThreadTyped == ThreadInv /\ [Next]_vars => TypeOK'
<1> SUFFICES ASSUME ThreadInv, [Next]_vars PROVE TypeOK'
  OBVIOUS
<1>0. /\ TypeOK /\ MaxTick \in Nat \ {0} /\ MaxTurns \in Nat /\ MaxPrunes \in Nat
  BY ConstantsAssumption DEF ThreadInv
<1>1. CASE UNCHANGED vars
  BY <1>0, <1>1 DEF TypeOK, vars
<1>2. CASE Tick
  BY <1>0, <1>2 DEF Tick, TypeOK, history
<1>3. CASE PruneThread
  BY <1>0, <1>3 DEF PruneThread, TypeOK, history
<1>4. ASSUME NEW w \in Workers, CountMessages(w) PROVE TypeOK'
  <2>1. Refresh(w)
    BY <1>4 DEF CountMessages
  <2>2. /\ lenBefore' \in [Workers -> Nat] /\ turn' \in [Workers -> 0..MaxTurns]
        /\ pc' \in [Workers -> {"count", "sync", "read", "mint", "commit", "decide", "delete"}]
    BY <1>0, <1>4, <2>1, RefreshTyped DEF CountMessages, TypeOK, Goto
  <2> QED  BY <1>0, <1>4, <2>1, <2>2, RefreshTyped DEF CountMessages, TypeOK
<1>5. ASSUME NEW w \in Workers, SyncChanges(w) PROVE TypeOK'
  <2>1. Invalidate(w) \/ UNCHANGED <<cache, loaded, frontier>>
    BY <1>5 DEF SyncChanges
  <2> QED  BY <1>0, <1>5, <2>1, InvalidateTyped DEF SyncChanges, TypeOK, Goto
<1>6. ASSUME NEW w \in Workers, SyncChangesRaises(w) PROVE TypeOK'
  BY <1>0, <1>6 DEF SyncChangesRaises, TypeOK, Goto, history
<1>7. ASSUME NEW w \in Workers, ReadMessages(w) PROVE TypeOK'
  <2>1. Refresh(w)
    BY <1>7 DEF ReadMessages
  <2> QED  BY <1>0, <1>7, <2>1, RefreshTyped DEF ReadMessages, TypeOK, Goto
<1>8. ASSUME NEW w \in Workers, MintTurn(w) PROVE TypeOK'
  <2>1. PICK human \in Messages, ai \in Messages :
          /\ ai.tick = NextTick(w) + 1 /\ pending' = [pending EXCEPT ![w] = {human, ai}]
    BY <1>8, MintedTurn
  <2>2. NextTick(w) + 1 \in Ticks /\ pending' \in [Workers -> SUBSET Messages]
    BY <1>0, <2>1, MessageFields DEF TypeOK
  <2> QED  BY <1>0, <1>8, <2>2 DEF MintTurn, TypeOK, Goto
<1>9. ASSUME NEW w \in Workers, CommitTurn(w) PROVE TypeOK'
  BY <1>0, <1>9 DEF CommitTurn, TypeOK, Goto, history
<1>10. ASSUME NEW w \in Workers, AcceptTurn(w) PROVE TypeOK'
  BY <1>0, <1>10 DEF AcceptTurn, TypeOK, Goto, history
<1>11. ASSUME NEW w \in Workers, RejectTurn(w) PROVE TypeOK'
  BY <1>0, <1>11, DoomedRows DEF RejectTurn, TypeOK, Goto, history
<1>12. ASSUME NEW w \in Workers, DeleteTail(w) PROVE TypeOK'
  <2>1. Invalidate(w) \/ UNCHANGED <<cache, loaded, frontier>>
    BY <1>12 DEF DeleteTail
  <2>2. version' \in Nat
    BY <1>0, <1>12 DEF DeleteTail, TypeOK
  <2> QED  BY <1>0, <1>12, <2>1, <2>2, InvalidateTyped DEF DeleteTail, TypeOK, Goto
<1> QED
  BY <1>1, <1>2, <1>3, <1>4, <1>5, <1>6, <1>7, <1>8, <1>9, <1>10, <1>11, <1>12
  DEF Next, WorkerStep

\* Steps that write no row and mint no key.
Unwritten(w) == SyncChanges(w) \/ SyncChangesRaises(w) \/ ReadMessages(w) \/ RejectTurn(w)

\* A worker's step moves no other worker.
LEMMA OneMoves ==
    ASSUME ThreadInv, NEW w \in Workers, WorkerStep(w), NEW v \in Workers, v # w
    PROVE  /\ pc'[v] = pc[v] /\ turn'[v] = turn[v] /\ lastTick'[v] = lastTick[v]
           /\ pending'[v] = pending[v] /\ checkpoint'[v] = checkpoint[v]
           /\ cache'[v] = cache[v] /\ loaded'[v] = loaded[v] /\ synced'[v] = synced[v]
           /\ lenBefore'[v] = lenBefore[v] /\ doomed'[v] = doomed[v]
<1>0. TypeOK
  BY DEF ThreadInv
<1>1. CASE CountMessages(w)
  BY <1>0, <1>1 DEF CountMessages, Refresh, TypeOK, Goto
<1>2. CASE ReadMessages(w)
  BY <1>0, <1>2 DEF ReadMessages, Refresh, TypeOK, Goto
<1>3. CASE SyncChanges(w) \/ SyncChangesRaises(w)
  BY <1>0, <1>3 DEF SyncChanges, SyncChangesRaises, Invalidate, TypeOK, Goto, history
<1>4. CASE MintTurn(w)
  BY <1>0, <1>4, MintedTurn DEF MintTurn, TypeOK, Goto
<1>5. CASE CommitTurn(w) \/ AcceptTurn(w) \/ RejectTurn(w)
  BY <1>0, <1>5 DEF CommitTurn, AcceptTurn, RejectTurn, TypeOK, Goto, history
<1>6. CASE DeleteTail(w)
  BY <1>0, <1>6 DEF DeleteTail, Invalidate, TypeOK, Goto
<1> QED  BY <1>1, <1>2, <1>3, <1>4, <1>5, <1>6 DEF WorkerStep
\* Rows come from the turn a worker has minted, and from nowhere else.
LEMMA RowsWritten ==
    ASSUME ThreadInv, NEW w \in Workers, WorkerStep(w)
    PROVE  /\ store' \subseteq store \cup pending[w]
           /\ ~CommitTurn(w) => store' \subseteq store
           /\ ~MintTurn(w) => pending'[w] \subseteq pending[w]
           /\ lastTick' # lastTick => MintTurn(w)
           /\ turn' # turn => CountMessages(w)
<1>0. TypeOK
  BY DEF ThreadInv
<1>1. CASE CountMessages(w)
  BY <1>1 DEF CountMessages
<1>2. CASE ReadMessages(w)
  BY <1>2 DEF ReadMessages
<1>3. CASE SyncChanges(w) \/ SyncChangesRaises(w)
  BY <1>3 DEF SyncChanges, SyncChangesRaises, history
<1>4. CASE MintTurn(w)
  BY <1>4 DEF MintTurn
<1>5. CASE CommitTurn(w) \/ AcceptTurn(w) \/ RejectTurn(w)
  BY <1>0, <1>5 DEF CommitTurn, AcceptTurn, RejectTurn, TypeOK, history
<1>6. CASE DeleteTail(w)
  BY <1>0, <1>6 DEF DeleteTail, TypeOK
<1> QED  BY <1>1, <1>2, <1>3, <1>4, <1>5, <1>6 DEF WorkerStep

\* The keys stay unique, and there are finitely many.
LEMMA KeysStay ==
    ASSUME ThreadInv, [Next]_vars
    PROVE  /\ IsFiniteSet(store)' /\ \A w \in Workers : IsFiniteSet(pending[w])'
           /\ Keyed(Minted)'
<1>0. /\ TypeOK /\ IsFiniteSet(store) /\ \A w \in Workers : IsFiniteSet(pending[w])
      /\ Keyed(Minted) /\ pending \in [Workers -> SUBSET Messages]
  BY DEF ThreadInv, TypeOK
<1>1. ASSUME Minted' \subseteq Minted PROVE Keyed(Minted)'
  BY <1>0, <1>1 DEF Keyed
<1>2. ASSUME store' \subseteq store, pending' = pending
      PROVE  /\ IsFiniteSet(store)' /\ \A w \in Workers : IsFiniteSet(pending[w])'
             /\ Keyed(Minted)'
  BY <1>0, <1>1, <1>2, FS_Subset DEF Minted
<1>3. CASE UNCHANGED vars
  BY <1>2, <1>3 DEF vars
<1>4. CASE Tick \/ PruneThread
  BY <1>2, <1>4 DEF Tick, PruneThread
<1>5. ASSUME NEW w \in Workers, WorkerStep(w), ~MintTurn(w)
      PROVE  /\ IsFiniteSet(store)' /\ \A v \in Workers : IsFiniteSet(pending[v])'
             /\ Keyed(Minted)'
  <2>1. /\ store' \subseteq store \cup pending[w]
        /\ \A v \in Workers : pending'[v] \subseteq pending[v]
    BY <1>5, RowsWritten, OneMoves
  <2>2. IsFiniteSet(store)'
    <3>1. IsFiniteSet(store \cup pending[w])
      BY <1>0, FS_Union
    <3> QED  BY <2>1, <3>1, FS_Subset
  <2>3. \A v \in Workers : IsFiniteSet(pending[v])'
    <3> TAKE v \in Workers
    <3>1. IsFiniteSet(pending[v]) /\ pending'[v] \in SUBSET pending[v]
      BY <1>0, <2>1
    <3> QED  BY <3>1, FS_Subset
  <2>4. Minted' \subseteq Minted
    BY <2>1 DEF Minted
  <2> QED  BY <1>1, <2>2, <2>3, <2>4
<1>6. ASSUME NEW w \in Workers, MintTurn(w)
      PROVE  /\ IsFiniteSet(store)' /\ \A v \in Workers : IsFiniteSet(pending[v])'
             /\ Keyed(Minted)'
  <2>1. PICK human \in Messages, ai \in Messages :
           /\ human.tick = NextTick(w) /\ ai.tick = NextTick(w) + 1
           /\ \A m \in Minted, n \in {human, ai} : m.tick # n.tick \/ m.rand # n.rand
           /\ pending' = [pending EXCEPT ![w] = {human, ai}]
    BY <1>6, MintedTurn
  <2>2. IsFiniteSet({human, ai})
    <3>1. IsFiniteSet({human}) /\ IsFiniteSet({human} \cup {ai})
      BY FS_Singleton, FS_AddElement
    <3>2. {human} \cup {ai} = {human, ai}
      OBVIOUS
    <3> QED  BY <3>1, <3>2
  <2>3. \A v \in Workers : IsFiniteSet(pending[v])'
    BY <1>0, <2>1, <2>2
  <2>4. store' = store
    BY <1>6 DEF MintTurn
  <2>5. Minted' \subseteq Minted \cup {human, ai}
    BY <1>0, <2>1, <2>4 DEF Minted
  <2>6. human.tick # ai.tick
    BY <2>1, MessageFields
  <2>7. Keyed(Minted)'
    BY <1>0, <2>1, <2>5, <2>6 DEF Keyed
  <2> QED  BY <1>0, <2>3, <2>4, <2>7
<1> QED  BY <1>3, <1>4, <1>5, <1>6 DEF Next

LEMMA ThreadFields ==
    ASSUME ThreadInv, NEW w \in Workers
    PROVE  /\ MaxTick \in Nat /\ MaxTurns \in Nat
           /\ turn[w] \in Nat /\ lastTick[w] \in Nat
           /\ clock \in Nat /\ clock <= MaxTick
           /\ NextTick(w) \in Nat /\ NextTick(w) > lastTick[w]
<1>1. /\ MaxTick \in Nat /\ MaxTurns \in Nat
  BY ConstantsAssumption
<1>2. /\ turn[w] \in 0..MaxTurns /\ lastTick[w] \in Ticks \cup {0} /\ clock \in 1..MaxTick
  BY DEF ThreadInv, TypeOK
<1>3. MaxTick + 2 * MaxTurns \in Nat
  BY <1>1
<1>4. lastTick[w] \in Nat /\ clock \in Nat /\ clock <= MaxTick
  BY <1>1, <1>2, <1>3 DEF Ticks
<1> QED  BY <1>1, <1>2, <1>4 DEF NextTick

LEMMA ClockStays ==
    ASSUME ThreadInv, NEW w \in Workers, WorkerStep(w)
    PROVE  ClockBound(w)'
<1>0. TypeOK /\ ClockBound(w)
  BY DEF ThreadInv
<1>5. /\ MaxTick \in Nat /\ turn[w] \in Nat /\ lastTick[w] \in Nat
      /\ clock \in Nat /\ clock <= MaxTick
  BY ThreadFields
<1>1. CASE CountMessages(w)
  <2>1. turn'[w] = turn[w] + 1 /\ lastTick'[w] = lastTick[w]
    BY <1>0, <1>1 DEF CountMessages, TypeOK
  <2> QED  BY <1>0, <1>5, <2>1 DEF ClockBound
<1>2. CASE MintTurn(w)
  <2>1. /\ turn'[w] = turn[w] /\ lastTick'[w] = NextTick(w) + 1 /\ pc'[w] = "commit"
        /\ turn[w] >= 1 /\ lastTick[w] <= MaxTick + 2 * (turn[w] - 1)
    BY <1>0, <1>2 DEF MintTurn, Goto, ClockBound, TypeOK
  <2>2. NextTick(w) + 1 <= MaxTick + 2 * turn[w]
    BY <1>5, <2>1 DEF NextTick
  <2> QED  BY <2>1, <2>2 DEF ClockBound
<1>3. CASE SyncChanges(w) \/ ReadMessages(w)
  <2>1. turn'[w] = turn[w] /\ lastTick'[w] = lastTick[w] /\ pc[w] \in {"sync", "read"}
    BY <1>3 DEF SyncChanges, ReadMessages
  <2> QED  BY <1>0, <2>1 DEF ClockBound
<1>4. CASE SyncChangesRaises(w) \/ CommitTurn(w) \/ AcceptTurn(w) \/ RejectTurn(w) \/ DeleteTail(w)
  <2>1. /\ turn'[w] = turn[w] /\ lastTick'[w] = lastTick[w]
        /\ pc'[w] \in {"count", "decide", "delete"}
    BY <1>0, <1>4 DEF SyncChangesRaises, CommitTurn, AcceptTurn, RejectTurn, DeleteTail,
       Goto, history, TypeOK
  <2> QED  BY <1>0, <2>1 DEF ClockBound
<1> QED  BY <1>1, <1>2, <1>3, <1>4 DEF WorkerStep
LEMMA OwnTurnsStay ==
    ASSUME ThreadInv, NEW w \in Workers, WorkerStep(w)
    PROVE  OwnTurns(w)'
<1>0. /\ TypeOK /\ OwnTurns(w) /\ ClockBound(w) /\ store \in SUBSET Messages
      /\ pending \in [Workers -> SUBSET Messages]
  BY DEF ThreadInv, TypeOK
<1>1. turn[w] \in Nat /\ lastTick[w] \in Nat /\ NextTick(w) \in Nat /\ NextTick(w) > lastTick[w]
  BY ThreadFields
<1>2. \A m \in store \cup pending[w] : m.tick \in Nat /\ m.turn \in Nat
  BY <1>0, MessageFields
<1>3. CASE CountMessages(w)
  <2>1. /\ turn'[w] = turn[w] + 1 /\ lastTick' = lastTick /\ store' = store
        /\ pending' = pending /\ pending[w] = {} /\ pc'[w] \in {"sync", "read"}
    BY <1>0, <1>3 DEF CountMessages, TypeOK, Goto, OwnTurns
  <2>2. \A m \in store : m.by = w =>
           m.tick <= lastTick[w] /\ m.turn <= turn[w] + 1 /\ m.turn < turn[w] + 1
    BY <1>0, <1>1, <1>2 DEF OwnTurns
  <2> QED  BY <2>1, <2>2 DEF OwnTurns
<1>4. CASE SyncChanges(w) \/ ReadMessages(w)
  <2>1. /\ turn' = turn /\ lastTick' = lastTick /\ store' = store /\ pending' = pending
        /\ pc[w] \in {"sync", "read"}
    BY <1>4 DEF SyncChanges, ReadMessages
  <2> QED  BY <1>0, <2>1 DEF OwnTurns
<1>5. CASE SyncChangesRaises(w)
  <2>1. /\ turn' = turn /\ lastTick' = lastTick /\ store' = store /\ pending' = pending
        /\ pc[w] = "sync" /\ pc'[w] = "count"
    BY <1>0, <1>5 DEF SyncChangesRaises, history, Goto, TypeOK
  <2> QED  BY <1>0, <2>1 DEF OwnTurns
<1>6. CASE MintTurn(w)
  <2>1. PICK human \in Messages, ai \in Messages :
           /\ human.by = w /\ ai.by = w /\ human.turn = turn[w] /\ ai.turn = turn[w]
           /\ human.tick = NextTick(w) /\ ai.tick = NextTick(w) + 1
           /\ pending' = [pending EXCEPT ![w] = {human, ai}]
    BY <1>6, MintedTurn
  <2>2. /\ turn' = turn /\ lastTick'[w] = NextTick(w) + 1 /\ store' = store
        /\ pending'[w] = {human, ai} /\ pc[w] = "mint" /\ pc'[w] = "commit"
    BY <1>0, <1>6, <2>1 DEF MintTurn, TypeOK, Goto
  <2>3. \A m \in store : m.by = w => m.turn < turn[w] /\ m.tick <= lastTick[w]
    BY <1>0, <2>2 DEF OwnTurns
  <2>4. \A m \in store : m.by = w =>
           /\ m.tick < NextTick(w) /\ m.tick < NextTick(w) + 1 /\ m.tick <= NextTick(w) + 1
           /\ m.turn <= turn[w]
    BY <1>1, <1>2, <2>3
  <2>5. \A n \in {human, ai} :
           /\ n.tick <= NextTick(w) + 1 /\ n.turn <= turn[w] /\ n.by = w /\ n.turn = turn[w]
           /\ n.tick \in {NextTick(w), NextTick(w) + 1}
    BY <1>1, <2>1
  <2> QED  BY <2>2, <2>3, <2>4, <2>5 DEF OwnTurns
<1>7. CASE CommitTurn(w)
  <2>1. /\ turn' = turn /\ lastTick' = lastTick /\ store' = store \cup pending[w]
        /\ pending' = pending /\ pc'[w] = "decide"
    BY <1>0, <1>7 DEF CommitTurn, history, Goto, TypeOK
  <2> QED  BY <1>0, <2>1 DEF OwnTurns
<1>8. CASE AcceptTurn(w) \/ RejectTurn(w) \/ DeleteTail(w)
  <2>1. /\ turn' = turn /\ lastTick' = lastTick /\ store' \subseteq store
        /\ \/ pending'[w] = {} /\ pc'[w] = "count"
           \/ pending'[w] = pending[w] /\ pc'[w] = "delete"
    BY <1>0, <1>8 DEF AcceptTurn, RejectTurn, DeleteTail, history, Goto, TypeOK
  <2> QED  BY <1>0, <2>1 DEF OwnTurns
<1> QED  BY <1>3, <1>4, <1>5, <1>6, <1>7, <1>8 DEF WorkerStep

LEMMA OrderStays ==
    ASSUME ThreadInv, [Next]_vars
    PROVE  TurnsInOrder'
<1>0. /\ TypeOK /\ TurnsInOrder /\ pending \in [Workers -> SUBSET Messages]
  BY DEF ThreadInv, TypeOK
<1>1. ASSUME store' \subseteq store PROVE TurnsInOrder'
  BY <1>0, <1>1 DEF TurnsInOrder
<1>2. ASSUME NEW w \in Workers, CommitTurn(w) PROVE TurnsInOrder'
  <2>1. store' = store \cup pending[w] /\ pc[w] = "commit" /\ OwnTurns(w)
    BY <1>2 DEF CommitTurn, ThreadInv
  <2>2. ASSUME NEW m \in store', NEW n \in store', m.by = n.by, m.turn < n.turn
        PROVE  Before(m, n)
    <3>1. CASE m \in store /\ n \in store
      BY <1>0, <2>2, <3>1 DEF TurnsInOrder
    <3>2. CASE m \in store /\ n \in pending[w]
      BY <2>1, <2>2, <3>2 DEF OwnTurns, Before
    <3>3. CASE m \in pending[w]
      <4>1. m \in Messages /\ n \in Messages
        BY <1>0, <2>1 DEF TypeOK
      <4>2. m.turn = turn[w] /\ m.by = w /\ (n \in store => n.turn < turn[w])
            /\ (n \in pending[w] => n.turn = turn[w])
        BY <2>1, <2>2, <3>3 DEF OwnTurns
      <4>3. m.turn \in Nat /\ n.turn \in Nat
        BY <4>1, MessageFields
      <4> QED  BY <2>1, <2>2, <4>2, <4>3
    <3> QED  BY <2>1, <3>1, <3>2, <3>3
  <2> QED  BY <2>2 DEF TurnsInOrder
<1>3. UNCHANGED vars \/ Tick \/ PruneThread => store' \subseteq store
  BY DEF vars, Tick, PruneThread
<1>4. ASSUME NEW w \in Workers, WorkerStep(w) PROVE TurnsInOrder'
  BY <1>1, <1>2, <1>4, RowsWritten
<1> QED  BY <1>1, <1>3, <1>4 DEF Next

LEMMA NextThreadInv == ThreadInv /\ [Next]_vars => ThreadInv'
<1> SUFFICES ASSUME ThreadInv, [Next]_vars PROVE ThreadInv'
  OBVIOUS
<1>1. ASSUME NEW w \in Workers PROVE ClockBound(w)' /\ OwnTurns(w)'
  <2>0. ClockBound(w) /\ OwnTurns(w) /\ TypeOK
    BY DEF ThreadInv
  <2>1. ASSUME pc'[w] = pc[w], turn'[w] = turn[w], lastTick'[w] = lastTick[w],
               pending'[w] = pending[w], \A m \in store' \ store : m.by # w
        PROVE  ClockBound(w)' /\ OwnTurns(w)'
    BY <2>0, <2>1 DEF ClockBound, OwnTurns
  <2>2. CASE UNCHANGED vars \/ Tick \/ PruneThread
    BY <2>1, <2>2 DEF vars, Tick, PruneThread, history
  <2>3. ASSUME NEW v \in Workers, v # w, WorkerStep(v)
        PROVE  ClockBound(w)' /\ OwnTurns(w)'
    <3>1. \A m \in pending[v] : m.by = v
      BY DEF ThreadInv, OwnTurns
    <3> QED  BY <2>1, <2>3, <3>1, OneMoves, RowsWritten
  <2>4. ASSUME WorkerStep(w) PROVE ClockBound(w)' /\ OwnTurns(w)'
    BY <2>4, ClockStays, OwnTurnsStay
  <2> QED  BY <2>2, <2>3, <2>4 DEF Next
<1> QED  BY <1>1, ThreadTyped, KeysStay, OrderStays DEF ThreadInv

\* The variables of the thread, its caches and its workers are of their kinds.
THEOREM TypeCorrect == Spec => []TypeOK
<1>1. ThreadInv => TypeOK
  BY DEF ThreadInv
<1> QED  BY <1>1, InitThreadInv, NextThreadInv, PTL DEF Spec

\* A worker's turns sort in the order it made them, for every number of
\* workers, stalls of the clock, roll-backs and prunes: a tick once minted is
\* never minted again, nor an earlier one.
THEOREM TurnsReplayInOrder == Spec => []TurnsInOrder
<1>1. ThreadInv => TurnsInOrder
  BY DEF ThreadInv
<1> QED  BY <1>1, InitThreadInv, NextThreadInv, PTL DEF Spec
-----------------------------------------------------------------------------
(* A prompt is as fresh as the sync before it.                             *)

\* The feed has always something past the checkpoint when a worker syncs, its
\* own turn at least, so the sync before a read always drops the cache.
SyncDrops(w) ==
    /\ checkpoint[w] <= version
    /\ pc[w] \in {"count", "sync", "decide", "delete"} => checkpoint[w] < version
    /\ pc[w] = "read" => ~loaded[w] /\ cache[w] = << >>

FreshInv == ThreadInv /\ \A w \in Workers : SyncDrops(w)

LEMMA InitFreshInv == Init => FreshInv
<1>1. ASSUME Init, NEW w \in Workers PROVE SyncDrops(w)
  BY <1>1 DEF Init, SyncDrops
<1> QED  BY <1>1, InitThreadInv DEF FreshInv

LEMMA SyncDropsStays ==
    ASSUME FreshInv, Next, Cdf, ~SyncFails, NEW w \in Workers
    PROVE  SyncDrops(w)'
<1>0. /\ TypeOK /\ ThreadInv /\ SyncDrops(w) /\ version \in Nat /\ checkpoint[w] \in Nat
  BY DEF FreshInv, ThreadInv, TypeOK
<1>1. version' \in Nat /\ version' >= version
  <2>1. TypeOK'
    BY <1>0, ThreadTyped
  <2>2. version' = version \/ version' = version + 1
    BY DEF Next, WorkerStep, Tick, PruneThread, CountMessages, SyncChanges, SyncChangesRaises,
       ReadMessages, MintTurn, CommitTurn, AcceptTurn, RejectTurn, DeleteTail
  <2> QED  BY <1>0, <2>1, <2>2 DEF TypeOK
<1>2. ASSUME pc'[w] = pc[w], checkpoint'[w] = checkpoint[w], loaded'[w] = loaded[w],
             cache'[w] = cache[w]
      PROVE  SyncDrops(w)'
  BY <1>0, <1>1, <1>2 DEF SyncDrops
<1>3. CASE Tick \/ PruneThread
  BY <1>2, <1>3 DEF Tick, PruneThread, history
<1>4. ASSUME NEW v \in Workers, v # w, WorkerStep(v) PROVE SyncDrops(w)'
  BY <1>0, <1>2, <1>4, OneMoves
<1>5. CASE CountMessages(w)
  <2>1. /\ pc[w] = "count" /\ pc'[w] = "sync" /\ checkpoint'[w] = checkpoint[w]
    BY <1>0, <1>5 DEF CountMessages, Goto, TypeOK
  <2> QED  BY <1>0, <1>1, <2>1 DEF SyncDrops
<1>6. CASE SyncChanges(w)
  <2>1. /\ pc[w] = "sync" /\ pc'[w] = "read" /\ checkpoint'[w] = version /\ version' = version
    BY <1>0, <1>6 DEF SyncChanges, Goto, TypeOK
  <2>2. Invalidate(w)
    BY <1>0, <1>6, <2>1 DEF SyncChanges, SyncDrops
  <2> QED  BY <1>0, <2>1, <2>2 DEF SyncDrops, Invalidate, TypeOK
<1>7. CASE ReadMessages(w) \/ MintTurn(w)
  <2>1. pc'[w] \in {"mint", "commit"} /\ checkpoint'[w] = checkpoint[w]
    BY <1>0, <1>7 DEF ReadMessages, MintTurn, Goto, TypeOK
  <2> QED  BY <1>0, <1>1, <2>1 DEF SyncDrops
<1>8. CASE CommitTurn(w)
  <2>1. version' = version + 1 /\ pc'[w] = "decide" /\ checkpoint'[w] = checkpoint[w]
    BY <1>0, <1>8 DEF CommitTurn, Goto, TypeOK
  <2> QED  BY <1>0, <2>1 DEF SyncDrops
<1>9. CASE AcceptTurn(w) \/ RejectTurn(w) \/ DeleteTail(w)
  <2>1. /\ pc[w] \in {"decide", "delete"} /\ pc'[w] \in {"count", "delete"}
        /\ checkpoint'[w] = checkpoint[w]
    BY <1>0, <1>9 DEF AcceptTurn, RejectTurn, DeleteTail, Goto, TypeOK
  <2> QED  BY <1>0, <1>1, <2>1 DEF SyncDrops
<1>10. ~SyncChangesRaises(w)
  BY DEF SyncChangesRaises
<1> QED  BY <1>3, <1>4, <1>5, <1>6, <1>7, <1>8, <1>9, <1>10 DEF Next, WorkerStep

LEMMA NextFreshInv ==
    ASSUME Cdf, ~SyncFails
    PROVE  FreshInv /\ [Next]_vars => FreshInv'
<1>1. ASSUME FreshInv, UNCHANGED vars PROVE FreshInv'
  <2>1. \A w \in Workers : SyncDrops(w)'
    BY <1>1 DEF FreshInv, SyncDrops, vars
  <2> QED  BY <1>1, <2>1, NextThreadInv DEF FreshInv
<1>2. ASSUME FreshInv, Next PROVE FreshInv'
  BY <1>2, NextThreadInv, SyncDropsStays DEF FreshInv
<1> QED  BY <1>1, <1>2

\* What a worker reads then is the thread itself.
LEMMA FreshReads ==
    ASSUME FreshInv, [Next]_vars
    PROVE  ReadsFresh
<1> SUFFICES ASSUME NEW w \in Workers, ReadsNow(w)
             PROVE  ToSet(cache'[w]) = store
  BY DEF ReadsFresh
<1>0. TypeOK /\ ThreadInv /\ SyncDrops(w)
  BY DEF FreshInv, ThreadInv
<1>1. pc[w] = "read" /\ pc'[w] = "mint"
  BY DEF ReadsNow
<1>2. ReadMessages(w)
  <2>1. ASSUME NEW v \in Workers, v # w, WorkerStep(v) PROVE pc'[w] = pc[w]
    BY <1>0, <2>1, OneMoves
  <2>2. UNCHANGED vars \/ Tick \/ PruneThread => pc' = pc
    BY DEF vars, Tick, PruneThread
  <2>3. WorkerStep(w) /\ pc[w] = "read" => ReadMessages(w)
    BY DEF WorkerStep, CountMessages, SyncChanges, SyncChangesRaises, MintTurn, CommitTurn,
       AcceptTurn, RejectTurn, DeleteTail
  <2> QED  BY <1>1, <2>1, <2>2, <2>3 DEF Next
<1>3. Fresh(w) = store /\ ~loaded[w]
  BY <1>0, <1>1 DEF SyncDrops, Fresh
<1>4. cache'[w] = << >> \o InOrder(store)
  BY <1>0, <1>2, <1>3 DEF ReadMessages, Refresh, Refreshed, TypeOK
<1>5. InOrder(store) \in Seq(store) /\ ToSet(InOrder(store)) = store
  BY <1>0, StoreInOrder
<1>6. << >> \o InOrder(store) = InOrder(store)
  BY <1>5, ConcatEmptySeq
<1> QED  BY <1>4, <1>5, <1>6

\* With a change feed that answers, a prompt's history holds what was there at
\* the sync before it and shows no row that was gone by then, for every number
\* of workers and prunes.
THEOREM PromptsAreFresh ==
    ASSUME Cdf, ~SyncFails
    PROVE  Spec => [][ReadsFresh]_vars
  BY InitFreshInv, NextFreshInv, FreshReads, PTL DEF Spec
-----------------------------------------------------------------------------
(* A single worker rolls its own turn back.                                *)

\* One worker and nobody who prunes.
Undisturbed(w) == Workers = {w} /\ MaxPrunes = 0

\* The cache lists rows of the thread once each, and misses none before its
\* frontier.
CacheSound(w) ==
    loaded[w] =>
        /\ ToSet(cache[w]) \subseteq store
        /\ Len(cache[w]) = Cardinality(ToSet(cache[w]))
        /\ frontier[w] <= lastTick[w]
        /\ \A m \in (store \cup pending[w]) \ ToSet(cache[w]) : m.tick >= frontier[w]

\* The roll-back point counts the rows there were before the attempt, and the
\* attempt's rows are the last ones.
PointSound(w) ==
    /\ pc[w] \in {"sync", "read", "mint", "commit"} => lenBefore[w] = Cardinality(store)
    /\ pc[w] \in {"decide", "delete"} => pending[w] \subseteq store
    /\ pc[w] = "decide" =>
          /\ lenBefore[w] = Cardinality(store \ pending[w])
          /\ \A m \in store \ pending[w], n \in pending[w] : m.tick < n.tick
    /\ pc[w] = "delete" => doomed[w] = pending[w]

RollbackInv(w) == ThreadInv /\ CacheSound(w) /\ PointSound(w)

LEMMA InitRollbackInv ==
    ASSUME NEW w \in Workers
    PROVE  Init => RollbackInv(w)
  BY InitThreadInv DEF Init, RollbackInv, CacheSound, PointSound

\* A refresh completes the cache: it then lists every row once.
LEMMA RefreshCompletes ==
    ASSUME ThreadInv, NEW w \in Workers, Workers = {w}, CacheSound(w), Refresh(w)
    PROVE  /\ ToSet(cache'[w]) = store /\ Len(cache'[w]) = Cardinality(store)
           /\ frontier'[w] <= lastTick[w]
<1>0. /\ TypeOK /\ store \in SUBSET Messages /\ cache[w] \in Seq(Messages)
      /\ IsFiniteSet(store) /\ lastTick[w] \in Nat /\ OwnTurns(w)
  BY ThreadFields DEF ThreadInv, TypeOK
<1>1. /\ cache'[w] = Refreshed(w)
      /\ frontier'[w] = IF Fresh(w) # {} THEN Last(InOrder(Fresh(w))).tick
                        ELSE IF loaded[w] THEN frontier[w] ELSE 0
  BY <1>0 DEF Refresh, TypeOK
<1>2. Fresh(w) \in SUBSET store
  BY DEF Fresh
<1>3. /\ InOrder(Fresh(w)) \in Seq(Fresh(w)) /\ ToSet(InOrder(Fresh(w))) = Fresh(w)
      /\ Len(InOrder(Fresh(w))) = Cardinality(Fresh(w)) /\ IsFiniteSet(Fresh(w))
      /\ Len(InOrder(Fresh(w))) \in Nat
  BY <1>2, StoreInOrder
<1>4. InOrder(Fresh(w)) \in Seq(Messages)
  BY <1>0, <1>2, <1>3
<1>5. frontier'[w] <= lastTick[w]
  <2>1. CASE Fresh(w) # {}
    <3>1. Len(InOrder(Fresh(w))) # 0
      BY <1>3, <2>1, FS_EmptySet
    <3>2. Last(InOrder(Fresh(w))) \in store
      BY <1>2, <1>3, <3>1, ElementOfSeq DEF Last
    <3>3. Last(InOrder(Fresh(w))).by = w
      BY <1>0, <3>2, MessageFields
    <3> QED  BY <1>0, <1>1, <2>1, <3>2, <3>3 DEF OwnTurns
  <2>2. CASE Fresh(w) = {}
    BY <1>0, <1>1, <2>2 DEF CacheSound
  <2> QED  BY <2>1, <2>2
<1>6. CASE ~loaded[w]
  <2>1. Fresh(w) = store /\ Refreshed(w) = << >> \o InOrder(store)
    BY <1>6 DEF Fresh, Refreshed
  <2>2. Refreshed(w) = InOrder(store)
    BY <1>3, <2>1, ConcatEmptySeq
  <2> QED  BY <1>1, <1>3, <1>5, <2>1, <2>2
<1>7. CASE loaded[w]
  <2>1. Fresh(w) = store \ ToSet(cache[w]) /\ Refreshed(w) = cache[w] \o InOrder(Fresh(w))
    BY <1>7 DEF Fresh, Refreshed, CacheSound
  <2>2. ToSet(Refreshed(w)) = ToSet(cache[w]) \cup Fresh(w)
    <3>1. ToSet(cache[w] \o InOrder(Fresh(w))) = ToSet(cache[w]) \cup ToSet(InOrder(Fresh(w)))
      BY <1>0, <1>4, ElementsOfConcat
    <3> QED  BY <1>3, <2>1, <3>1
  <2>3. Len(Refreshed(w)) = Len(cache[w]) + Cardinality(Fresh(w))
    <3>1. Len(cache[w] \o InOrder(Fresh(w))) = Len(cache[w]) + Len(InOrder(Fresh(w)))
      BY <1>0, <1>4, ConcatProperties
    <3> QED  BY <1>3, <2>1, <3>1
  <2>4. /\ ToSet(cache[w]) \in SUBSET store /\ Len(cache[w]) = Cardinality(ToSet(cache[w]))
    BY <1>7 DEF CacheSound
  <2>5. IsFiniteSet(ToSet(cache[w]))
    BY <1>0, <2>4, FS_Subset
  <2>6. ToSet(cache[w]) \cap Fresh(w) = {} /\ ToSet(cache[w]) \cup Fresh(w) = store
    BY <2>1, <2>4
  <2>7. Cardinality(store) = Cardinality(ToSet(cache[w])) + Cardinality(Fresh(w))
    <3>1. /\ Cardinality(ToSet(cache[w])) \in Nat /\ Cardinality(Fresh(w)) \in Nat
      BY <1>3, <2>5, FS_CardinalityType
    <3>2. Cardinality(ToSet(cache[w]) \cup Fresh(w)) =
             Cardinality(ToSet(cache[w])) + Cardinality(Fresh(w))
                - Cardinality(ToSet(cache[w]) \cap Fresh(w))
      BY <1>3, <2>5, FS_Union
    <3>3. Cardinality(ToSet(cache[w]) \cap Fresh(w)) = 0
      BY <2>6, FS_EmptySet
    <3>4. Cardinality(ToSet(cache[w]) \cup Fresh(w)) = Cardinality(store)
      BY <2>6
    <3> QED  BY <3>1, <3>2, <3>3, <3>4
  <2> QED  BY <1>1, <1>5, <2>2, <2>3, <2>4, <2>6, <2>7
<1> QED  BY <1>6, <1>7

\* The rows beyond the roll-back point are the attempt's.
LEMMA DoomedIsPending ==
    ASSUME ThreadInv, NEW w \in Workers, PointSound(w), RejectTurn(w)
    PROVE  doomed'[w] = pending[w]
<1> DEFINE rows == InOrder(store)
           old == store \ pending[w]
<1>0. /\ TypeOK /\ store \in SUBSET Messages /\ IsFiniteSet(store) /\ Keyed(store)
      /\ IsFiniteSet(old)
  BY StoreInOrder DEF ThreadInv, TypeOK
<1>1. /\ pending[w] \subseteq store /\ lenBefore[w] = Cardinality(old)
      /\ \A m \in old, n \in pending[w] : m.tick < n.tick
  BY DEF RejectTurn, PointSound
<1>2. /\ Len(rows) = Cardinality(store) /\ ToSet(rows) = store /\ rows \in Seq(store)
      /\ \A k \in 1..Cardinality(store) :
            rows[k] \in store /\ Cardinality(Earlier(store, rows[k])) = k - 1
  BY <1>0, InOrderIsWhole
<1>3. Cardinality(store) \in Nat /\ Cardinality(old) \in Nat
  BY <1>0, FS_CardinalityType
<1>4. ASSUME NEW m \in old PROVE Cardinality(Earlier(store, m)) < Cardinality(old)
  <2>1. Earlier(store, m) \subseteq old
    <3>1. \A n \in pending[w] : m.tick < n.tick /\ m.tick \in Nat /\ n.tick \in Nat
      BY <1>0, <1>1, MessageFields
    <3> QED  BY <3>1 DEF Earlier, Before
  <2>2. m \notin Earlier(store, m)
    BY <1>0, BeforeIsOrder DEF Earlier
  <2>3. Cardinality(Earlier(store, m)) \in Nat /\ Cardinality(Earlier(store, m)) <= Cardinality(old)
    BY <1>0, <2>1, FS_Subset, FS_CardinalityType
  <2>4. Cardinality(Earlier(store, m)) # Cardinality(old)
    BY <1>0, <2>1, <2>2, FS_Subset
  <2> QED  BY <1>3, <2>3, <2>4
<1>5. ASSUME NEW m \in pending[w] PROVE Cardinality(Earlier(store, m)) >= Cardinality(old)
  <2>1. old \subseteq Earlier(store, m)
    BY <1>1 DEF Earlier, Before
  <2>2. IsFiniteSet(Earlier(store, m))
    BY <1>0, FS_Subset DEF Earlier
  <2>3. Cardinality(Earlier(store, m)) \in Nat
    BY <2>2, FS_CardinalityType
  <2> QED  BY <1>3, <2>1, <2>2, <2>3, FS_Subset
<1>6. doomed'[w] = {rows[k] : k \in (lenBefore[w] + 1)..Len(rows)}
  BY <1>0 DEF RejectTurn, TypeOK
<1> HIDE DEF rows, old
<1>7. ASSUME NEW k \in (lenBefore[w] + 1)..Len(rows) PROVE rows[k] \in pending[w]
  <2>1. k \in 1..Cardinality(store) /\ k - 1 >= Cardinality(old)
    BY <1>1, <1>2, <1>3
  <2>2. rows[k] \in store /\ Cardinality(Earlier(store, rows[k])) = k - 1
    BY <1>2, <2>1
  <2>3. rows[k] \notin old
    BY <1>3, <1>4, <2>1, <2>2
  <2> QED  BY <2>2, <2>3 DEF old
<1>8. ASSUME NEW m \in pending[w] PROVE \E k \in (lenBefore[w] + 1)..Len(rows) : rows[k] = m
  <2>1. PICK k \in 1..Len(rows) : rows[k] = m
    BY <1>1, <1>2, LenProperties DEF ToSet
  <2>2. k - 1 >= Cardinality(old)
    BY <1>2, <1>5, <2>1
  <2>3. k \in (lenBefore[w] + 1)..Len(rows)
    BY <1>1, <1>2, <1>3, <2>1, <2>2
  <2> QED  BY <2>1, <2>3
<1> QED  BY <1>6, <1>7, <1>8
\* Every step of the worker keeps its cache and its roll-back point sound.
LEMMA NextRollbackInv ==
    ASSUME NEW w \in Workers, Undisturbed(w)
    PROVE  RollbackInv(w) /\ [Next]_vars => RollbackInv(w)'
<1> SUFFICES ASSUME RollbackInv(w), [Next]_vars
             PROVE  CacheSound(w)' /\ PointSound(w)'
  BY NextThreadInv DEF RollbackInv
<1>0. /\ TypeOK /\ ThreadInv /\ CacheSound(w) /\ PointSound(w) /\ OwnTurns(w)
      /\ Workers = {w} /\ store \in SUBSET Messages /\ pending[w] \in SUBSET Messages
      /\ lastTick[w] \in Nat /\ NextTick(w) \in Nat /\ NextTick(w) > lastTick[w]
      /\ frontier[w] \in Nat
  <2>1. frontier[w] \in Ticks \cup {0} /\ MaxTick + 2 * MaxTurns \in Nat
    BY ConstantsAssumption DEF RollbackInv, ThreadInv, TypeOK
  <2>2. frontier[w] \in Nat
    BY <2>1 DEF Ticks
  <2> QED  BY <2>2, ThreadFields DEF RollbackInv, ThreadInv, TypeOK, Undisturbed
<1>1. CASE UNCHANGED vars
  BY <1>0, <1>1 DEF CacheSound, PointSound, vars
<1>2. CASE Tick
  BY <1>0, <1>2 DEF CacheSound, PointSound, Tick, history
<1>3. ~PruneThread
  BY <1>0 DEF PruneThread, Undisturbed, TypeOK
<1>4. CASE CountMessages(w)
  <2>1. /\ ToSet(cache'[w]) = store /\ Len(cache'[w]) = Cardinality(store)
        /\ frontier'[w] <= lastTick[w]
    BY <1>0, <1>4, RefreshCompletes DEF CountMessages
  <2>2. /\ pc'[w] \in {"sync", "read"} /\ store' = store /\ pending' = pending
        /\ pending[w] = {} /\ lastTick' = lastTick /\ lenBefore'[w] = Len(cache'[w])
    BY <1>0, <1>4 DEF CountMessages, Goto, TypeOK, OwnTurns
  <2> QED  BY <2>1, <2>2 DEF CacheSound, PointSound
<1>5. CASE ReadMessages(w)
  <2>1. /\ ToSet(cache'[w]) = store /\ Len(cache'[w]) = Cardinality(store)
        /\ frontier'[w] <= lastTick[w]
    BY <1>0, <1>5, RefreshCompletes DEF ReadMessages
  <2>2. /\ pc[w] = "read" /\ pc'[w] = "mint" /\ store' = store /\ pending' = pending
        /\ pending[w] = {} /\ lastTick' = lastTick /\ lenBefore' = lenBefore
    BY <1>0, <1>5 DEF ReadMessages, Goto, TypeOK, OwnTurns
  <2> QED  BY <1>0, <2>1, <2>2 DEF CacheSound, PointSound
<1>6. CASE SyncChanges(w)
  <2>1. /\ pc[w] = "sync" /\ pc'[w] = "read" /\ store' = store /\ pending' = pending
        /\ lastTick' = lastTick /\ lenBefore' = lenBefore
        /\ ~loaded'[w] \/ UNCHANGED <<cache, loaded, frontier>>
    BY <1>0, <1>6 DEF SyncChanges, Goto, TypeOK, Invalidate
  <2> QED  BY <1>0, <2>1 DEF CacheSound, PointSound
<1>7. CASE SyncChangesRaises(w)
  <2>1. /\ pc'[w] = "count" /\ store' = store /\ pending' = pending
        /\ UNCHANGED <<cache, loaded, frontier, lastTick>>
    BY <1>0, <1>7 DEF SyncChangesRaises, Goto, TypeOK, history
  <2> QED  BY <1>0, <2>1 DEF CacheSound, PointSound
<1>8. CASE MintTurn(w)
  <2>1. PICK human \in Messages, ai \in Messages :
           /\ human.tick = NextTick(w) /\ ai.tick = NextTick(w) + 1
           /\ pending' = [pending EXCEPT ![w] = {human, ai}]
    BY <1>0, <1>8, MintedTurn
  <2>2. /\ pc[w] = "mint" /\ pc'[w] = "commit" /\ store' = store /\ lenBefore' = lenBefore
        /\ pending'[w] = {human, ai} /\ lastTick'[w] = NextTick(w) + 1
        /\ UNCHANGED <<cache, loaded, frontier>>
    BY <1>0, <1>8, <2>1 DEF MintTurn, Goto, TypeOK
  <2>3. ASSUME loaded[w]
        PROVE  /\ frontier[w] <= NextTick(w) + 1
               /\ human.tick >= frontier[w] /\ ai.tick >= frontier[w]
    BY <1>0, <2>1, <2>3 DEF CacheSound
  <2>4. CacheSound(w)'
    BY <1>0, <2>2, <2>3 DEF CacheSound
  <2> QED  BY <1>0, <2>2, <2>4 DEF PointSound
<1>9. CASE CommitTurn(w)
  <2>1. /\ pc[w] = "commit" /\ pc'[w] = "decide" /\ store' = store \cup pending[w]
        /\ UNCHANGED <<cache, loaded, frontier, lastTick, lenBefore, pending>>
    BY <1>0, <1>9 DEF CommitTurn, Goto, TypeOK, history
  <2>2. \A m \in store : \A n \in pending[w] : m.tick < n.tick
    BY <1>0, <2>1, MessageFields DEF OwnTurns
  <2>3. store \cap pending[w] = {}
    <3>1. \A m \in store : m.tick \in Nat
      BY <1>0, MessageFields
    <3>2. ASSUME NEW m \in store \cap pending[w] PROVE FALSE
      <4>1. m.tick < m.tick /\ m.tick \in Nat
        BY <2>2, <3>1
      <4> QED  BY <4>1
    <3> QED  BY <3>2
  <2>4. store' \ pending'[w] = store /\ pending'[w] \subseteq store'
    BY <2>1, <2>3
  <2>5. lenBefore'[w] = Cardinality(store)
    BY <1>0, <2>1 DEF PointSound
  <2>6. PointSound(w)'
    BY <2>1, <2>2, <2>4, <2>5 DEF PointSound
  <2>7. CacheSound(w)'
    BY <1>0, <2>1 DEF CacheSound
  <2> QED  BY <2>6, <2>7
<1>10. CASE AcceptTurn(w)
  <2>1. /\ pc'[w] = "count" /\ store' = store /\ pending'[w] = {}
        /\ UNCHANGED <<cache, loaded, frontier, lastTick>>
    BY <1>0, <1>10 DEF AcceptTurn, Goto, TypeOK, history
  <2> QED  BY <1>0, <2>1 DEF CacheSound, PointSound
<1>11. CASE RejectTurn(w)
  <2>1. /\ pc[w] = "decide" /\ pc'[w] = "delete" /\ store' = store /\ pending' = pending
        /\ UNCHANGED <<cache, loaded, frontier, lastTick>>
    BY <1>0, <1>11 DEF RejectTurn, Goto, TypeOK, history
  <2>2. doomed'[w] = pending[w]
    BY <1>0, <1>11, DoomedIsPending
  <2> QED  BY <1>0, <2>1, <2>2 DEF CacheSound, PointSound
<1>12. CASE DeleteTail(w)
  <2>1. /\ pc'[w] = "count" /\ pending'[w] = {} /\ lastTick' = lastTick
        /\ \/ ~loaded'[w]
           \/ store' = store /\ UNCHANGED <<cache, loaded, frontier>>
    BY <1>0, <1>12 DEF DeleteTail, Goto, TypeOK, Invalidate
  <2> QED  BY <1>0, <2>1 DEF CacheSound, PointSound
<1> QED
  BY <1>0, <1>1, <1>2, <1>3, <1>4, <1>5, <1>6, <1>7, <1>8, <1>9, <1>10, <1>11, <1>12
  DEF Next, WorkerStep

LEMMA RollbackStep ==
    ASSUME NEW w \in Workers, Undisturbed(w), RollbackInv(w), [Next]_vars
    PROVE  RollsBackOwnTurn
<1>0. /\ TypeOK /\ PointSound(w) /\ Workers = {w}
  BY DEF RollbackInv, ThreadInv, Undisturbed
<1> SUFFICES ASSUME pc[w] = "delete", pc'[w] = "count"
             PROVE  /\ store \ store' \subseteq pending[w]
                    /\ store' \cap pending[w] = {}
  BY <1>0 DEF RollsBackOwnTurn
<1>1. DeleteTail(w)
  <2>1. UNCHANGED vars \/ Tick \/ PruneThread => pc' = pc
    BY DEF vars, Tick, PruneThread
  <2>2. WorkerStep(w) /\ pc[w] = "delete" => DeleteTail(w)
    BY DEF WorkerStep, CountMessages, SyncChanges, SyncChangesRaises, ReadMessages,
       MintTurn, CommitTurn, AcceptTurn, RejectTurn
  <2> QED  BY <1>0, <2>1, <2>2 DEF Next
<1>2. store' = store \ doomed[w] /\ doomed[w] = pending[w]
  BY <1>0, <1>1 DEF DeleteTail, PointSound
<1> QED  BY <1>2

\* The roll-back of a rejected attempt deletes the attempt's two rows and no
\* other, and leaves neither of them, when the thread has one worker and nobody
\* prunes it: whether or not the change feed answers, and wherever the cache,
\* its frontier and the clock stand.
THEOREM RejectedTurnIsRolledBack ==
    ASSUME NEW w \in Workers, Undisturbed(w)
    PROVE  Spec => [][RollsBackOwnTurn]_vars
  BY InitRollbackInv, NextRollbackInv, RollbackStep, PTL DEF Spec
-----------------------------------------------------------------------------
(* Turns that commit in the order of their keys are picked up.             *)

\* One turn is on its way at a time, and it sorts behind every row there is
\* and every frontier a cache has reached.
TurnIsNext(w) ==
    pc[w] = "commit" =>
        /\ \A v \in Workers : pc[v] = "commit" => v = w
        /\ \A n \in pending[w] :
              /\ \A m \in store : m.tick <= n.tick
              /\ \A v \in Workers : loaded[v] => frontier[v] <= n.tick

\* A cache misses no row before its frontier, which some worker's clock has
\* reached.
CacheReaches(v) ==
    loaded[v] =>
        /\ \A m \in store \ ToSet(cache[v]) : m.tick >= frontier[v]
        /\ \E x \in Workers : frontier[v] <= lastTick[x]

InTurnInv == ThreadInv /\ \A w \in Workers : TurnIsNext(w) /\ CacheReaches(w)

LEMMA InitInTurnInv == Init => InTurnInv
  BY InitThreadInv DEF Init, InTurnInv, TurnIsNext, CacheReaches

\* A refresh of such a cache holds every row, and its frontier is the tick of
\* one, or as it was.
LEMMA RefreshReaches ==
    ASSUME ThreadInv, NEW w \in Workers, CacheReaches(w), Refresh(w)
    PROVE  /\ store \subseteq ToSet(cache'[w])
           /\ \/ \E m \in store : frontier'[w] = m.tick
              \/ loaded[w] /\ frontier'[w] = frontier[w]
              \/ frontier'[w] = 0
<1>0. /\ TypeOK /\ store \in SUBSET Messages /\ cache[w] \in Seq(Messages)
      /\ loaded[w] \in BOOLEAN
  BY DEF ThreadInv, TypeOK
<1>1. /\ cache'[w] = Refreshed(w)
      /\ frontier'[w] = IF Fresh(w) # {} THEN Last(InOrder(Fresh(w))).tick
                        ELSE IF loaded[w] THEN frontier[w] ELSE 0
  BY <1>0 DEF Refresh, TypeOK
<1>2. Fresh(w) \in SUBSET store
  BY DEF Fresh
<1>3. /\ InOrder(Fresh(w)) \in Seq(Fresh(w)) /\ ToSet(InOrder(Fresh(w))) = Fresh(w)
      /\ Len(InOrder(Fresh(w))) = Cardinality(Fresh(w)) /\ IsFiniteSet(Fresh(w))
      /\ Len(InOrder(Fresh(w))) \in Nat
  BY <1>2, StoreInOrder
<1>4. Fresh(w) # {} => Last(InOrder(Fresh(w))) \in store
  <2> SUFFICES ASSUME Fresh(w) # {} PROVE Last(InOrder(Fresh(w))) \in store
    OBVIOUS
  <2>1. Len(InOrder(Fresh(w))) # 0
    BY <1>3, FS_EmptySet
  <2> QED  BY <1>2, <1>3, <2>1, ElementOfSeq DEF Last
<1>5. store \subseteq ToSet(cache'[w])
  <2> DEFINE before == IF loaded[w] THEN cache[w] ELSE << >>
  <2>1. before \in Seq(Messages) /\ InOrder(Fresh(w)) \in Seq(Messages)
    BY <1>0, <1>2, <1>3
  <2>2. cache'[w] = before \o InOrder(Fresh(w))
    BY <1>1 DEF Refreshed
  <2>3. store \subseteq ToSet(before) \cup Fresh(w)
    BY DEF CacheReaches, Fresh
  <2> HIDE DEF before
  <2>4. ToSet(before \o InOrder(Fresh(w))) = ToSet(before) \cup ToSet(InOrder(Fresh(w)))
    BY <2>1, ElementsOfConcat
  <2> QED  BY <1>3, <2>2, <2>3, <2>4
<1> QED  BY <1>0, <1>1, <1>4, <1>5

LEMMA InTurnStays ==
    ASSUME InTurnInv, Next, ~OutOfOrder
    PROVE  \A v \in Workers : TurnIsNext(v)' /\ CacheReaches(v)'
<1>0. /\ ThreadInv /\ TypeOK /\ store \in SUBSET Messages
      /\ \A v \in Workers : /\ TurnIsNext(v) /\ CacheReaches(v) /\ OwnTurns(v)
                            /\ lastTick[v] \in Nat /\ frontier[v] \in Nat
  <2>1. MaxTick + 2 * MaxTurns \in Nat
    BY ConstantsAssumption
  <2>2. \A v \in Workers : frontier[v] \in Ticks \cup {0}
    BY DEF InTurnInv, ThreadInv, TypeOK
  <2>3. \A v \in Workers : frontier[v] \in Nat
    BY <2>1, <2>2 DEF Ticks
  <2> QED  BY <2>3, ThreadFields DEF InTurnInv, ThreadInv, TypeOK
<1>1. \A m \in store : m.tick \in Nat /\ m.by \in Workers /\ m.tick <= lastTick[m.by]
  BY <1>0, MessageFields DEF OwnTurns
<1>2. ASSUME store' \subseteq store, lastTick' = lastTick,
             \A v \in Workers :
                /\ pc'[v] = "commit" => pc[v] = "commit" /\ pending'[v] = pending[v]
                /\ loaded'[v] => loaded[v] /\ cache'[v] = cache[v] /\ frontier'[v] = frontier[v]
      PROVE  \A v \in Workers : TurnIsNext(v)' /\ CacheReaches(v)'
  BY <1>0, <1>2 DEF TurnIsNext, CacheReaches
<1>3. CASE Tick \/ PruneThread
  BY <1>2, <1>3 DEF Tick, PruneThread, history
<1>4. ASSUME NEW w \in Workers, WorkerStep(w)
      PROVE  \A v \in Workers : TurnIsNext(v)' /\ CacheReaches(v)'
  <2>0. \A v \in Workers : v # w => /\ pc'[v] = pc[v] /\ pending'[v] = pending[v]
                                   /\ lastTick'[v] = lastTick[v]
    BY <1>0, <1>4, OneMoves
  <2>1. CASE CountMessages(w) \/ ReadMessages(w)
    <3>1. /\ Refresh(w) /\ store' = store /\ lastTick' = lastTick /\ pending' = pending
          /\ pc'[w] # "commit"
          /\ \A v \in Workers : v # w =>
                /\ cache'[v] = cache[v] /\ loaded'[v] = loaded[v] /\ frontier'[v] = frontier[v]
      BY <1>0, <2>1 DEF CountMessages, ReadMessages, Refresh, Goto, TypeOK
    <3>2. /\ store \subseteq ToSet(cache'[w])
          /\ \/ \E m \in store : frontier'[w] = m.tick
             \/ loaded[w] /\ frontier'[w] = frontier[w]
             \/ frontier'[w] = 0
      BY <1>0, <3>1, RefreshReaches
    <3>3. CacheReaches(w)'
      BY <1>0, <1>1, <3>1, <3>2 DEF CacheReaches
    <3>4. ASSUME NEW v \in Workers, pc[v] = "commit", NEW n \in pending[v]
          PROVE  frontier'[w] <= n.tick
      <4>1. n.tick \in Nat
        BY <1>0, MessageFields DEF TypeOK
      <4> QED  BY <1>0, <3>2, <3>4, <4>1 DEF TurnIsNext
    <3> QED  BY <1>0, <2>0, <3>1, <3>3, <3>4 DEF TurnIsNext, CacheReaches
  <2>2. CASE SyncChanges(w) \/ SyncChangesRaises(w)
    <3>1. /\ store' = store /\ lastTick' = lastTick /\ pending' = pending /\ pc'[w] # "commit"
          /\ \A v \in Workers :
                loaded'[v] => loaded[v] /\ cache'[v] = cache[v] /\ frontier'[v] = frontier[v]
      BY <1>0, <2>2, SMTT(20) DEF SyncChanges, SyncChangesRaises, Invalidate, Goto, TypeOK, history
    <3> QED  BY <1>2, <2>0, <3>1
  <2>3. CASE MintTurn(w)
    <3>1. PICK human \in Messages, ai \in Messages :
             /\ human.tick = NextTick(w) /\ ai.tick = NextTick(w) + 1
             /\ pending' = [pending EXCEPT ![w] = {human, ai}]
      BY <1>0, <2>3, MintedTurn
    <3>2. /\ store' = store /\ UNCHANGED <<cache, loaded, frontier>> /\ InTurn(w)
          /\ pending'[w] = {human, ai} /\ lastTick'[w] = NextTick(w) + 1 /\ pc'[w] = "commit"
      BY <1>0, <2>3, <3>1 DEF MintTurn, Goto, TypeOK
    <3>3. \A v \in Workers : lastTick[v] <= NextTick(w) /\ pc[v] # "commit"
      BY <3>2 DEF InTurn
    <3>4. NextTick(w) \in Nat /\ NextTick(w) > lastTick[w]
      BY <1>0, ThreadFields
    <3>5. \A m \in store : m.tick <= NextTick(w) /\ m.tick <= NextTick(w) + 1
      BY <1>0, <1>1, <3>3, <3>4
    <3>6. \A v \in Workers : loaded[v] => frontier[v] <= NextTick(w) /\ frontier[v] <= NextTick(w) + 1
      BY <1>0, <3>3, <3>4 DEF CacheReaches
    <3>7. \A v \in Workers : TurnIsNext(v)'
      BY <2>0, <3>1, <3>2, <3>3, <3>5, <3>6 DEF TurnIsNext
    <3>8. \A v \in Workers : CacheReaches(v)'
      <4>1. \A v \in Workers : loaded[v] => frontier[v] <= lastTick'[w]
        BY <3>2, <3>6
      <4> QED  BY <1>0, <3>2, <4>1 DEF CacheReaches
    <3> QED  BY <3>7, <3>8
  <2>4. CASE CommitTurn(w)
    <3>1. /\ store' = store \cup pending[w] /\ pc[w] = "commit" /\ pc'[w] = "decide"
          /\ UNCHANGED <<cache, loaded, frontier, lastTick, pending>>
      BY <1>0, <2>4 DEF CommitTurn, Goto, TypeOK, history
    <3>2. \A n \in pending[w] : \A v \in Workers : loaded[v] => n.tick >= frontier[v]
      <4>1. \A n \in pending[w] : n.tick \in Nat
        BY <1>0, MessageFields DEF TypeOK
      <4> QED  BY <1>0, <3>1, <4>1 DEF TurnIsNext
    <3>3. \A v \in Workers : CacheReaches(v)'
      BY <1>0, <3>1, <3>2 DEF CacheReaches
    <3>4. \A v \in Workers : pc'[v] # "commit"
      BY <1>0, <2>0, <3>1 DEF TurnIsNext
    <3> QED  BY <3>3, <3>4 DEF TurnIsNext
  <2>5. CASE AcceptTurn(w) \/ RejectTurn(w) \/ DeleteTail(w)
    <3>1. /\ store' \subseteq store /\ lastTick' = lastTick /\ pc'[w] # "commit"
          /\ \A v \in Workers :
                loaded'[v] => loaded[v] /\ cache'[v] = cache[v] /\ frontier'[v] = frontier[v]
      BY <1>0, <2>5, SMTT(20) DEF AcceptTurn, RejectTurn, DeleteTail, Invalidate, Goto, TypeOK, history
    <3> QED  BY <1>2, <2>0, <3>1
  <2> QED  BY <1>4, <2>1, <2>2, <2>3, <2>4, <2>5 DEF WorkerStep
<1> QED  BY <1>3, <1>4 DEF Next

LEMMA NextInTurnInv ==
    ASSUME ~OutOfOrder
    PROVE  InTurnInv /\ [Next]_vars => InTurnInv'
<1>1. ASSUME InTurnInv, UNCHANGED vars PROVE InTurnInv'
  <2>1. \A v \in Workers : TurnIsNext(v)' /\ CacheReaches(v)'
    BY <1>1 DEF InTurnInv, TurnIsNext, CacheReaches, vars
  <2> QED  BY <1>1, <2>1, NextThreadInv DEF InTurnInv
<1>2. ASSUME InTurnInv, Next PROVE InTurnInv'
  BY <1>2, NextThreadInv, InTurnStays DEF InTurnInv
<1> QED  BY <1>1, <1>2

LEMMA AppendsStep ==
    ASSUME InTurnInv, [Next]_vars
    PROVE  [\A w \in Workers : ReadsNow(w) => store \subseteq ToSet(cache'[w])]_vars
<1> SUFFICES ASSUME NEW w \in Workers, ReadsNow(w) PROVE store \subseteq ToSet(cache'[w])
  OBVIOUS
<1>1. pc[w] = "read" /\ pc'[w] = "mint" /\ ThreadInv /\ CacheReaches(w)
  BY DEF ReadsNow, InTurnInv
<1>2. Refresh(w)
  <2>1. ASSUME NEW v \in Workers, v # w, WorkerStep(v) PROVE pc'[w] = pc[w]
    BY <1>1, <2>1, OneMoves
  <2>2. UNCHANGED vars \/ Tick \/ PruneThread => pc' = pc
    BY DEF vars, Tick, PruneThread
  <2>3. WorkerStep(w) /\ pc[w] = "read" => Refresh(w)
    BY DEF WorkerStep, CountMessages, SyncChanges, SyncChangesRaises, ReadMessages, MintTurn,
       CommitTurn, AcceptTurn, RejectTurn, DeleteTail
  <2> QED  BY <1>1, <2>1, <2>2, <2>3 DEF Next
<1> QED  BY <1>1, <1>2, RefreshReaches

\* The incremental cache misses no append, with or without a change feed, for
\* every number of workers, roll-backs and prunes, if turns commit in the order
\* their keys were minted in: the one thing the code does not see to.
THEOREM AppendsInTurnArePickedUp ==
    ASSUME ~OutOfOrder
    PROVE  Spec => AppendsPickedUp
  BY InitInTurnInv, NextInTurnInv, AppendsStep, PTL DEF Spec, AppendsPickedUp
===============================================================================
