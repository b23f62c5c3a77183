---------------------------- MODULE RollingSummary ----------------------------
(***************************************************************************)
(* RollingSummarizer beside a thread whose pipelines roll turns back and   *)
(* rewind it: before every model call refresh compares the number of turns *)
(* the stored summary covers with the thread, starts over when the thread  *)
(* is shorter, and folds what lies between the coverage and the newest     *)
(* KeepLast turns once it is worth a call.  That call, or the save after   *)
(* it, may raise, which fails the item.  A turn is its number; each counts *)
(* one token.                                                              *)
(***************************************************************************)
EXTENDS Naturals, Sequences

CONSTANTS
    KeepLast,       \* keep_last_turns
    Trigger,        \* trigger_tokens
    MaxTurnsMade    \* bound: turns ever appended

ASSUME SummaryAssumption == KeepLast \in Nat /\ Trigger \in Nat /\ MaxTurnsMade \in Nat

VARIABLES
    turns,       \* group_turns of the thread
    turnsMade,
    summary,     \* [covered |-> covered_turns, of |-> the turns its text is of]
    call         \* "idle", "refresh" (a model call begins), "call" (prompted)

summaryVars == <<turns, turnsMade, summary, call>>

NoSummary == [covered |-> 0, of |-> << >>]

SummaryTypeOK ==
    /\ turns \in Seq(1..MaxTurnsMade) /\ turnsMade \in 0..MaxTurnsMade
    /\ summary.covered \in Nat /\ summary.of \in Seq(1..MaxTurnsMade)
    /\ call \in {"idle", "refresh", "call"}

SummaryInit == turns = << >> /\ turnsMade = 0 /\ summary = NoSummary /\ call = "idle"

BeginCall ==
    /\ call = "idle" /\ call' = "refresh"
    /\ UNCHANGED <<turns, turnsMade, summary>>

Frontier == IF Len(turns) > KeepLast THEN Len(turns) - KeepLast ELSE 0

\* Mutant: a coverage past the end is kept.
LoadedAnyway == summary

\* The stored state, or a fresh one when the thread shrank under it.
Loaded == IF summary.covered > Len(turns) THEN NoSummary ELSE summary

WorthFolding(s) == Frontier > s.covered /\ Frontier - s.covered >= Trigger

Folded(s) == [covered |-> Frontier,
              of |-> s.of \o SubSeq(turns, s.covered + 1, Frontier)]

Refresh ==
    /\ call = "refresh" /\ call' = "call"
    /\ summary' = IF WorthFolding(Loaded) THEN Folded(Loaded) ELSE Loaded
    /\ UNCHANGED <<turns, turnsMade>>

\* The summarizing call, or the save of its answer, raises: the reset is saved.
RefreshRaises ==
    /\ call = "refresh" /\ WorthFolding(Loaded)
    /\ call' = "idle" /\ summary' = Loaded
    /\ UNCHANGED <<turns, turnsMade>>

\* The call is answered and its turn stored, or it raises.
EndCall ==
    /\ call = "call" /\ call' = "idle"
    /\ \/ /\ turnsMade < MaxTurnsMade
          /\ turnsMade' = turnsMade + 1
          /\ turns' = Append(turns, turnsMade')
       \/ UNCHANGED <<turns, turnsMade>>
    /\ UNCHANGED summary

\* truncate_to: a rejected turn is rolled back, or a resume rewinds the thread.
CutThread(n) ==
    /\ call = "idle" /\ n < Len(turns)
    /\ turns' = SubSeq(turns, 1, n)
    /\ UNCHANGED <<turnsMade, summary, call>>

ResetSummary ==
    /\ call = "idle" /\ summary # NoSummary
    /\ summary' = NoSummary
    /\ UNCHANGED <<turns, turnsMade, call>>

SummaryNext ==
    \/ BeginCall \/ Refresh \/ RefreshRaises \/ EndCall \/ ResetSummary
    \/ \E n \in 0..MaxTurnsMade : CutThread(n)

SummarySpec == SummaryInit /\ [][SummaryNext]_summaryVars

-----------------------------------------------------------------------------
(* A prompt's summary is of the thread as it is: what it was folded from are
   the oldest turns, every one of them once and none that was rolled back,
   however far the thread was cut since it was folded. *)
SummaryIsPrefix ==
    call = "call" => /\ summary.covered <= Len(turns)
                     /\ summary.of = SubSeq(turns, 1, summary.covered)

(* Turns do not pile up unfolded: when a prompt is built, those older than the
   tail and not covered are fewer than the trigger. *)
FoldedInTime ==
    call = "call" /\ Frontier > summary.covered => Frontier - summary.covered < Trigger

(* Both: the summary in a prompt is of this thread, and of enough of it. *)
SummaryIsOfThread == SummaryIsPrefix /\ FoldedInTime
=============================================================================
