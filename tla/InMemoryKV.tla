------------------------------ MODULE InMemoryKV ------------------------------
(***************************************************************************)
(* _InMemoryBackend: a dict of rows and, beside it, the list of its keys   *)
(* kept sorted by hand, so that every read of a prefix is a bisection and  *)
(* a walk.  A key is its prefix and the rest of it, in string order; what  *)
(* a row holds is left out.                                                *)
(***************************************************************************)
EXTENDS Naturals, Sequences, FiniteSets, SequencesExt

CONSTANTS
    KeyPrefixes,   \* 1..n, in string order
    KeyRests,      \* 1..m
    MaxKVWrites    \* bound: calls that change the store

ASSUME KVAssumption ==
    /\ KeyPrefixes \subseteq Nat /\ IsFiniteSet(KeyPrefixes)
    /\ KeyRests \subseteq Nat /\ IsFiniteSet(KeyRests)
    /\ MaxKVWrites \in Nat

AllKeys    == KeyPrefixes \X KeyRests
Less(a, b) == a[1] < b[1] \/ (a[1] = b[1] /\ a[2] < b[2])
Ascending(keys) == \A i, j \in DOMAIN keys : i < j => Less(keys[i], keys[j])

VARIABLES
    mem,         \* the keys of _mem
    sortedKeys,  \* _sorted_keys
    kvWrites

kvVars == <<mem, sortedKeys, kvWrites>>

KVTypeOK ==
    /\ mem \subseteq AllKeys /\ ToSet(sortedKeys) \subseteq AllKeys
    /\ kvWrites \in 0..MaxKVWrites

KVInit == mem = {} /\ sortedKeys = << >> /\ kvWrites = 0

\* bisect_left, bisect_right: places are counted from 1 here.
BisectLeft(k)  == 1 + Cardinality({i \in DOMAIN sortedKeys : Less(sortedKeys[i], k)})
BisectRight(k) == 1 + Cardinality({i \in DOMAIN sortedKeys : ~Less(k, sortedKeys[i])})

\* The first place from lo on that is not of prefix p, or past the end.
WalkEnd(p, lo) ==
    LET others == {i \in lo..Len(sortedKeys) : sortedKeys[i][1] # p}
    IN  IF others = {} THEN Len(sortedKeys) + 1
        ELSE CHOOSE i \in others : \A j \in others : i <= j

PrefixLo(p) == 1 + Cardinality({i \in DOMAIN sortedKeys : sortedKeys[i][1] < p})
PrefixHi(p) == WalkEnd(p, PrefixLo(p))

\* Mutant: an update inserts its key again.
UpsertRowAgain(k) ==
    /\ mem' = mem \cup {k}
    /\ sortedKeys' = InsertAt(sortedKeys, BisectRight(k), k)

\* upsert, append: insort a key that is new.
UpsertRow(k) ==
    /\ mem' = mem \cup {k}
    /\ sortedKeys' = IF k \in mem THEN sortedKeys
                     ELSE InsertAt(sortedKeys, BisectRight(k), k)

DeleteRow(k) ==
    /\ k \in mem
    /\ mem' = mem \ {k}
    /\ sortedKeys' = RemoveAt(sortedKeys, BisectLeft(k))

\* clear_prefix: the range is deleted from both.
ClearPrefix(p) ==
    /\ mem' = mem \ {sortedKeys[i] : i \in PrefixLo(p)..(PrefixHi(p) - 1)}
    /\ sortedKeys' = SubSeq(sortedKeys, 1, PrefixLo(p) - 1)
                     \o SubSeq(sortedKeys, PrefixHi(p), Len(sortedKeys))

\* replace_all, clear: the keys, sorted.
ReplaceRows(keys) ==
    /\ mem' = keys
    /\ sortedKeys' \in {order \in SetToSeqs(keys) : Ascending(order)}

KVNext ==
    /\ kvWrites < MaxKVWrites /\ kvWrites' = kvWrites + 1
    /\ \/ \E k \in AllKeys : UpsertRow(k) \/ DeleteRow(k)
       \/ \E p \in KeyPrefixes : ClearPrefix(p)
       \/ \E keys \in SUBSET AllKeys : ReplaceRows(keys)

KVSpec == KVInit /\ [][KVNext]_kvVars

-----------------------------------------------------------------------------
RecordsAfter(p, after) ==
    LET lo == IF BisectRight(after) > PrefixLo(p) THEN BisectRight(after) ELSE PrefixLo(p)
    IN  SubSeq(sortedKeys, lo, WalkEnd(p, lo) - 1)

HasPrefix(p) == PrefixLo(p) <= Len(sortedKeys) /\ sortedKeys[PrefixLo(p)][1] = p

(* Every read by prefix finds, in order, exactly the rows of the dict that are
   past the given key: no sequence of calls leaves the key list out of step
   with the dict, unsorted, or with a key twice. *)
ReadsFindTheRows ==
    \A p \in KeyPrefixes :
        LET have == {k \in mem : k[1] = p}
        IN  /\ HasPrefix(p) <=> have # {}
            /\ \A after \in AllKeys :
                   /\ Ascending(RecordsAfter(p, after))
                   /\ ToSet(RecordsAfter(p, after)) = {k \in have : Less(after, k)}
=============================================================================
