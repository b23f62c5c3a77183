----------------------------- MODULE SharedThread -----------------------------
(***************************************************************************)
(* Several pipelines on one thread of a shared Delta store.  Each worker   *)
(* has its own KVChatMessageHistory over the same rows: it mints message   *)
(* keys from its clock (_msg_key), reads through an incremental cache      *)
(* (_refresh), appends turns (add_messages), rolls a rejected turn back    *)
(* (truncate_to), and, when a change-feed consumer is configured, learns   *)
(* of other workers' commits (sync_changes) before each model call.        *)
(* Another process may prune the thread (MemoryHub.prune_thread).          *)
(*                                                                         *)
(* A message is its key and its place: clock tick, random suffix, the      *)
(* worker that wrote it, its attempt, and which half of the turn it is.    *)
(***************************************************************************)
EXTENDS Naturals, Sequences, FiniteSets, SequencesExt

CONSTANTS
    Workers,      \* pipelines writing to the thread
    Cdf,          \* TRUE: every worker's hub has a change-feed consumer
    OutOfOrder,   \* TRUE: turns may commit in another order than their keys'
    SyncFails,    \* TRUE: sync_changes may raise once its checkpoint landed
    MaxTick,      \* bound: clock ticks at which turns are minted
    MaxTurns,     \* bound: attempts a worker makes
    MaxPrunes     \* bound: prunes by another process

ASSUME ConstantsAssumption ==
    /\ IsFiniteSet(Workers)
    /\ {Cdf, OutOfOrder, SyncFails} \subseteq BOOLEAN
    /\ MaxTick \in Nat \ {0} /\ MaxTurns \in Nat /\ MaxPrunes \in Nat

\* A turn's two keys are minted one tick apart at least, and a worker never
\* reuses a tick, so ticks may run ahead of the clock.
Ticks == 1..(MaxTick + 2 * MaxTurns)
Rands == 1..Cardinality(Workers)

Messages == [tick : Ticks, rand : Rands, by : Workers, turn : 1..MaxTurns]

\* Keys sort by tick, then by the random suffix.
Before(m, n) == m.tick < n.tick \/ (m.tick = n.tick /\ m.rand < n.rand)
InOrder(S)   == [k \in 1..Cardinality(S) |->
                    CHOOSE m \in S : Cardinality({n \in S : Before(n, m)}) = k - 1]

VARIABLES
    store,       \* the thread's rows
    version,     \* commits to the messages table so far
    clock,
    pc,          \* pc[w]: where worker w stands
    turn,        \* turn[w]: attempts it has made
    lastTick,    \* _last_us
    cache,       \* _msg_cache, oldest first
    loaded,      \* FALSE: the cache is None
    frontier,    \* _cache_frontier, a bare tick; 0 sorts before every key
    checkpoint,  \* durable CDF checkpoint; 0: none yet
    lenBefore,   \* the roll-back point of the attempt at hand
    pending,     \* the turn minted, until it is committed
    doomed,      \* the rows truncate_to decided to delete
    prunes,
    synced       \* history: the store as of the worker's last sync

vars == <<store, version, clock, pc, turn, lastTick, cache, loaded, frontier,
          checkpoint, lenBefore, pending, doomed, prunes, synced>>

history == <<lastTick, cache, loaded, frontier>>

\* Every variable is of its kind.
TypeOK ==
    /\ store \in SUBSET Messages
    /\ version \in Nat
    /\ clock \in 1..MaxTick
    /\ pc \in [Workers -> {"count", "sync", "read", "mint", "commit",
                           "decide", "delete"}]
    /\ turn \in [Workers -> 0..MaxTurns]
    /\ lastTick \in [Workers -> Ticks \cup {0}]
    /\ cache \in [Workers -> Seq(Messages)]
    /\ loaded \in [Workers -> BOOLEAN]
    /\ frontier \in [Workers -> Ticks \cup {0}]
    /\ checkpoint \in [Workers -> Nat]
    /\ lenBefore \in [Workers -> Nat]
    /\ pending \in [Workers -> SUBSET Messages]
    /\ doomed \in [Workers -> SUBSET Messages]
    /\ prunes \in 0..MaxPrunes
    /\ synced \in [Workers -> SUBSET Messages]

Init ==
    /\ store = {} /\ version = 1 /\ clock = 1 /\ prunes = 0
    /\ pc = [w \in Workers |-> "count"]
    /\ turn = [w \in Workers |-> 0]
    /\ lastTick = [w \in Workers |-> 0]
    /\ cache = [w \in Workers |-> << >>]
    /\ loaded = [w \in Workers |-> FALSE]
    /\ frontier = [w \in Workers |-> 0]
    /\ checkpoint = [w \in Workers |-> 0]
    /\ lenBefore = [w \in Workers |-> 0]
    /\ pending = [w \in Workers |-> {}]
    /\ doomed = [w \in Workers |-> {}]
    /\ synced = [w \in Workers |-> {}]

Goto(w, place) == pc' = [pc EXCEPT ![w] = place]

\* _refresh: the whole thread at first, then the rows from the frontier tick
\* on that are not cached yet, appended in key order.
Fresh(w) ==
    IF loaded[w]
    THEN {m \in store : m.tick >= frontier[w]} \ ToSet(cache[w])
    ELSE store

Refreshed(w) == (IF loaded[w] THEN cache[w] ELSE << >>) \o InOrder(Fresh(w))

Refresh(w) ==
    /\ cache' = [cache EXCEPT ![w] = Refreshed(w)]
    /\ loaded' = [loaded EXCEPT ![w] = TRUE]
    /\ frontier' = [frontier EXCEPT ![w] =
                      IF Fresh(w) # {} THEN Last(InOrder(Fresh(w))).tick
                      ELSE IF loaded[w] THEN @ ELSE 0]

\* _invalidate_cache
Invalidate(w) ==
    /\ cache' = [cache EXCEPT ![w] = << >>]
    /\ loaded' = [loaded EXCEPT ![w] = FALSE]
    /\ frontier' = [frontier EXCEPT ![w] = 0]

-----------------------------------------------------------------------------

Tick ==
    /\ clock < MaxTick
    /\ clock' = clock + 1
    /\ UNCHANGED <<store, version, pc, turn, history, checkpoint, lenBefore,
                   pending, doomed, prunes, synced>>

\* _answer_item: len_before = history.message_count().
CountMessages(w) ==
    /\ pc[w] = "count"
    /\ turn[w] < MaxTurns
    /\ turn' = [turn EXCEPT ![w] = @ + 1]
    /\ Refresh(w)
    /\ lenBefore' = [lenBefore EXCEPT ![w] = Len(cache'[w])]
    /\ Goto(w, IF Cdf THEN "sync" ELSE "read")
    /\ UNCHANGED <<store, version, clock, lastTick, checkpoint, pending, doomed,
                   prunes, synced>>

\* Mutant: the changes are consumed and no cache is dropped.
SyncChangesKeepsCache(w) ==
    /\ pc[w] = "sync"
    /\ checkpoint' = [checkpoint EXCEPT ![w] = version]
    /\ synced' = [synced EXCEPT ![w] = store]
    /\ Goto(w, "read")
    /\ UNCHANGED <<store, version, clock, turn, history, lenBefore, pending,
                   doomed, prunes>>

\* sync_changes: the first call is a baseline, a later one invalidates if the
\* feed has changes past the checkpoint.
SyncChanges(w) ==
    /\ pc[w] = "sync"
    /\ checkpoint' = [checkpoint EXCEPT ![w] = version]
    /\ IF checkpoint[w] < version
       THEN Invalidate(w)
       ELSE UNCHANGED <<cache, loaded, frontier>>
    /\ synced' = [synced EXCEPT ![w] = store]
    /\ Goto(w, "read")
    /\ UNCHANGED <<store, version, clock, turn, lastTick, lenBefore, pending,
                   doomed, prunes>>

\* The audit MERGE landed and its call raised: the checkpoint has moved, no
\* cache was dropped, and the item is given up.
SyncChangesRaises(w) ==
    /\ SyncFails
    /\ pc[w] = "sync"
    /\ checkpoint' = [checkpoint EXCEPT ![w] = version]
    /\ Goto(w, "count")
    /\ UNCHANGED <<store, version, clock, turn, history, lenBefore, pending,
                   doomed, prunes, synced>>

\* _call_model: history.messages, the turns the prompt is built from.
ReadMessages(w) ==
    /\ pc[w] = "read"
    /\ Refresh(w)
    /\ Goto(w, "mint")
    /\ UNCHANGED <<store, version, clock, turn, lastTick, checkpoint, lenBefore,
                   pending, doomed, prunes, synced>>

\* Every key minted so far is unique: the random suffixes differ.
Minted == store \cup UNION {pending[w] : w \in Workers}

\* Mutant: the clock alone.
NextTickOfClock(w) == clock

NextTick(w) == IF clock > lastTick[w] THEN clock ELSE lastTick[w] + 1

\* Every key minted so far sorts no later than w's next one, and no turn is on
\* its way: what holds when turns commit as soon as they are minted.
InTurn(w) == \A v \in Workers : lastTick[v] <= NextTick(w) /\ pc[v] # "commit"

\* add_messages mints a key for each half of the turn.
MintTurn(w) ==
    /\ pc[w] = "mint"
    /\ OutOfOrder \/ InTurn(w)
    /\ \E r \in Rands :
         LET human == [tick |-> NextTick(w), rand |-> r, by |-> w, turn |-> turn[w]]
             ai    == [human EXCEPT !.tick = @ + 1]
         IN  /\ \A m \in Minted, n \in {human, ai} :
                    <<m.tick, m.rand>> # <<n.tick, n.rand>>
             /\ pending' = [pending EXCEPT ![w] = {human, ai}]
    /\ lastTick' = [lastTick EXCEPT ![w] = NextTick(w) + 1]
    /\ Goto(w, "commit")
    /\ UNCHANGED <<store, version, clock, turn, cache, loaded, frontier, checkpoint,
                   lenBefore, doomed, prunes, synced>>

\* The INSERT commits.
CommitTurn(w) ==
    /\ pc[w] = "commit"
    /\ store' = store \cup pending[w]
    /\ version' = version + 1
    /\ Goto(w, "decide")
    /\ UNCHANGED <<clock, turn, history, checkpoint, lenBefore, pending, doomed,
                   prunes, synced>>

\* The attempt is kept: the next one is another item's.
AcceptTurn(w) ==
    /\ pc[w] = "decide"
    /\ pending' = [pending EXCEPT ![w] = {}]
    /\ Goto(w, "count")
    /\ UNCHANGED <<store, version, clock, turn, history, checkpoint, lenBefore,
                   doomed, prunes, synced>>

\* Mutant: the cut is one message too early.
RejectTurnEarly(w) ==
    LET rows == InOrder(store) IN
    /\ pc[w] = "decide"
    /\ doomed' = [doomed EXCEPT ![w] =
                    {rows[k] : k \in (1..Len(rows)) \ (1..(lenBefore[w] - 1))}]
    /\ Goto(w, "delete")
    /\ UNCHANGED <<store, version, clock, turn, history, checkpoint, lenBefore,
                   pending, prunes, synced>>

\* truncate_to(len_before) reads every row, past the cache ...
RejectTurn(w) ==
    LET rows == InOrder(store) IN
    /\ pc[w] = "decide"
    /\ doomed' = [doomed EXCEPT ![w] =
                    {rows[k] : k \in (lenBefore[w] + 1)..Len(rows)}]
    /\ Goto(w, "delete")
    /\ UNCHANGED <<store, version, clock, turn, history, checkpoint, lenBefore,
                   pending, prunes, synced>>

\* ... and deletes the keys beyond the first len_before, one commit, unless
\* none of them is there any more.
DeleteTail(w) ==
    /\ pc[w] = "delete"
    /\ store' = store \ doomed[w]
    /\ IF store' # store
       THEN version' = version + 1 /\ Invalidate(w)
       ELSE UNCHANGED <<version, cache, loaded, frontier>>
    /\ pending' = [pending EXCEPT ![w] = {}]
    /\ doomed' = [doomed EXCEPT ![w] = {}]
    /\ Goto(w, "count")
    /\ UNCHANGED <<clock, turn, lastTick, checkpoint, lenBefore, prunes, synced>>

\* Another process prunes the thread by age (MemoryHub.prune_thread).  Both
\* halves of a turn carry one timestamp, and a worker's turns age in order.
PruneThread ==
    /\ prunes < MaxPrunes
    /\ \E cut \in [Workers -> 0..MaxTurns] :
          store' = {m \in store : m.turn > cut[m.by]}
    /\ store' # store
    /\ version' = version + 1
    /\ prunes' = prunes + 1
    /\ UNCHANGED <<clock, pc, turn, history, checkpoint, lenBefore, pending,
                   doomed, synced>>

\* What worker w does.
WorkerStep(w) ==
    \/ CountMessages(w) \/ SyncChanges(w) \/ SyncChangesRaises(w)
    \/ ReadMessages(w) \/ MintTurn(w) \/ CommitTurn(w)
    \/ AcceptTurn(w) \/ RejectTurn(w) \/ DeleteTail(w)

Next == Tick \/ PruneThread \/ (\E w \in Workers : WorkerStep(w))

Spec == Init /\ [][Next]_vars

-----------------------------------------------------------------------------
(* Properties.                                                             *)

ReadsNow(w) == pc[w] = "read" /\ pc'[w] = "mint"

\* The incremental cache misses no append: when a prompt's history is read,
\* it holds every row of the thread, other workers' included ("appends from
\* other writers are still picked up").
AppendsPickedUp ==
    [][\A w \in Workers : ReadsNow(w) => store \subseteq ToSet(cache'[w])]_vars

\* With a change-feed consumer, a prompt's history is at least as fresh as
\* the sync before it: no row committed by then and still there is missing,
\* and no row that was gone by then is shown.
ReadsFresh ==
    \A w \in Workers : ReadsNow(w) =>
        /\ synced[w] \cap store \subseteq ToSet(cache'[w])
        /\ ToSet(cache'[w]) \subseteq synced[w] \cup store

\* Rolling a rejected turn back deletes that turn and nothing else
\* ("dropping the just-appended (human, AI) pair"), and when it is done none
\* of the turn is left in the thread ("so the retry replaces it in place").
RollsBackOwnTurn ==
    \A w \in Workers : pc[w] = "delete" /\ pc'[w] = "count" =>
        /\ store \ store' \subseteq pending[w]
        /\ store' \cap pending[w] = {}

\* One instance's messages keep the order it wrote them in, however the
\* clock stands: the thread replays a worker's turns as they happened.
TurnsInOrder ==
    \A m, n \in store :
        (m.by = n.by /\ m.turn < n.turn) => Before(m, n)
=============================================================================
