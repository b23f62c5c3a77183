------------------------------ MODULE ThreadFork ------------------------------
(***************************************************************************)
(* Forking a run at an item boundary (SasLLMPipeline.fork_run):            *)
(* fork_thread copies the first turns onto an empty thread (one INSERT of  *)
(* the messages, one MERGE of their chats), then RunLedger.fork copies the *)
(* ok facts one commit at a time, then the verdicts.  Any of these commits *)
(* may raise, or the process may die; a second fork onto the same thread   *)
(* may be under way, and so may the run that writes the source thread.     *)
(***************************************************************************)
EXTENDS Naturals, Sequences, FiniteSets, SequencesExt

CONSTANTS
    ForkItems,    \* N: items of the source run
    Forkers       \* processes forking onto the same destination

ASSUME ForkAssumption == ForkItems \in Nat

Outcomes == {"ok", "error", "late"}  \* late: the turn is stored, the fact says error
All      == ForkItems + 1            \* upto_items = None

VARIABLES
    srcTurns,    \* the source's turns, each named by its item
    srcFact,     \* srcFact[i]: the item's run fact
    dstTurns,    \* the destination's turns
    dstChats,    \* items whose chat has a static row on the destination
    dstFact,     \* items with an ok fact on the destination
    dstVerdict,  \* items with a verdict on the destination
    forking,     \* forking[f]: where a fork stands
    together,    \* history: two forks found the destination empty
    srcMoved     \* history: the source was written after a fork read its turns

forkVars == <<srcTurns, srcFact, dstTurns, dstChats, dstFact, dstVerdict,
              forking, together, srcMoved>>

NotForking == [at |-> "idle"]

ForkTypeOK ==
    /\ srcTurns \in Seq(1..ForkItems) /\ dstTurns \in Seq(1..ForkItems)
    /\ srcFact \in [1..ForkItems -> {"none", "ok", "error"}]
    /\ dstFact \cup dstVerdict \cup dstChats \subseteq 1..ForkItems
    /\ \A f \in Forkers : forking[f].at \in {"idle", "insert", "chats", "facts", "verdicts"}
    /\ together \in BOOLEAN /\ srcMoved \in BOOLEAN

ForkInit ==
    /\ srcTurns = << >> /\ srcFact = [i \in 1..ForkItems |-> "none"]
    /\ dstTurns = << >> /\ dstChats = {} /\ dstFact = {} /\ dstVerdict = {}
    /\ forking = [f \in Forkers |-> NotForking]
    /\ together = FALSE /\ srcMoved = FALSE

Goes(f, stage) == forking' = [forking EXCEPT ![f] = stage]
Reading        == \E f \in Forkers : forking[f].at # "idle"

\* The source run ends its next item: the turn, then the fact (a validator's
\* verdict, written in between, is there when the fact is).
SourceItem(outcome) ==
    \E i \in 1..ForkItems :
        /\ srcFact[i] = "none" /\ \A j \in 1..(i - 1) : srcFact[j] # "none"
        /\ srcTurns' = IF outcome = "error" THEN srcTurns ELSE Append(srcTurns, i)
        /\ srcFact' = [srcFact EXCEPT ![i] = IF outcome = "ok" THEN "ok" ELSE "error"]
        /\ srcMoved' = (srcMoved \/ Reading)
        /\ UNCHANGED <<dstTurns, dstChats, dstFact, dstVerdict, forking, together>>

Prefix(s, n) == SubSeq(s, 1, IF n < Len(s) THEN n ELSE Len(s))

\* The first 2 * upto_items messages are the first upto_items turns.
CopiedTurns(upto) == Prefix(srcTurns, upto)

\* Mutant: a fork onto a thread with messages is not refused.
RefusedNever(f) == FALSE

\* has_prefix: the destination must hold no message.
Refused(f) == dstTurns # << >>

\* fork_thread up to its read of the source.
ForkBegin(f, upto) ==
    /\ forking[f].at = "idle" /\ ~Refused(f)
    /\ together' = (together \/ \E g \in Forkers : forking[g].at = "insert")
    /\ Goes(f, [at |-> "insert", upto |-> upto, turns |-> CopiedTurns(upto)])
    /\ UNCHANGED <<srcTurns, srcFact, dstTurns, dstChats, dstFact, dstVerdict, srcMoved>>

\* append_many: the messages are one INSERT ...
ForkInsert(f) ==
    /\ forking[f].at = "insert"
    /\ dstTurns' = dstTurns \o forking[f].turns
    /\ Goes(f, [forking[f] EXCEPT !.at = "chats"])
    /\ UNCHANGED <<srcTurns, srcFact, dstChats, dstFact, dstVerdict, together, srcMoved>>

\* ... and their chats' rows one MERGE.  The facts to copy are read next.
ForkChats(f) ==
    /\ forking[f].at = "chats"
    /\ dstChats' = dstChats \cup ToSet(forking[f].turns)
    /\ Goes(f, [at |-> "facts", upto |-> forking[f].upto,
                left |-> {i \in 1..ForkItems : srcFact[i] = "ok" /\ i <= forking[f].upto}])
    /\ UNCHANGED <<srcTurns, srcFact, dstTurns, dstFact, dstVerdict, together, srcMoved>>

\* record_run_fact, one item at a time.
ForkFact(f) ==
    /\ forking[f].at = "facts"
    /\ \E i \in forking[f].left :
        /\ dstFact' = dstFact \cup {i}
        /\ Goes(f, [forking[f] EXCEPT !.left = @ \ {i}])
    /\ UNCHANGED <<srcTurns, srcFact, dstTurns, dstChats, dstVerdict, together, srcMoved>>

\* The verdicts, of whatever items of the source have one, are read after.
ForkFactsEnd(f) ==
    /\ forking[f].at = "facts" /\ forking[f].left = {}
    /\ Goes(f, [at |-> "verdicts", upto |-> forking[f].upto,
                left |-> {i \in ToSet(srcTurns) : i <= forking[f].upto}])
    /\ UNCHANGED <<srcTurns, srcFact, dstTurns, dstChats, dstFact, dstVerdict,
                   together, srcMoved>>

ForkVerdict(f) ==
    /\ forking[f].at = "verdicts"
    /\ \E i \in forking[f].left :
        /\ dstVerdict' = dstVerdict \cup {i}
        /\ Goes(f, [forking[f] EXCEPT !.left = @ \ {i}])
    /\ UNCHANGED <<srcTurns, srcFact, dstTurns, dstChats, dstFact, together, srcMoved>>

\* The fork returns, or a commit raises, or its process dies.
ForkEnds(f) ==
    /\ forking[f].at # "idle"
    /\ Goes(f, NotForking)
    /\ UNCHANGED <<srcTurns, srcFact, dstTurns, dstChats, dstFact, dstVerdict,
                   together, srcMoved>>

ForkNext ==
    \/ \E o \in Outcomes : SourceItem(o)
    \/ \E f \in Forkers :
        \/ \E upto \in 0..All : ForkBegin(f, upto)
        \/ ForkInsert(f) \/ ForkChats(f) \/ ForkFact(f) \/ ForkFactsEnd(f)
        \/ ForkVerdict(f) \/ ForkEnds(f)

ForkSpec == ForkInit /\ [][ForkNext]_forkVars

-----------------------------------------------------------------------------
(* Wherever a fork stops, every item whose ok fact reached the branch has its
   turn there, so a resume of the branch skips no item it holds no answer of:
   the facts up to an item boundary never outrun the turns copied for it,
   whichever items failed, if the source was at rest. *)
ForkedFactsHaveTurns == ~srcMoved => dstFact \subseteq ToSet(dstTurns)

(* The check that the destination is empty keeps a second, or a repeated, fork
   from copying the turns again, unless two forks run the check side by side. *)
ForkedOnce == ~together => IsInjective(dstTurns)

(* Both: a branch is the source's, whole up to its last fact, and once. *)
BranchIsWhole == ForkedFactsHaveTurns /\ ForkedOnce
=============================================================================
