------------------------------ MODULE PipelineRun ------------------------------
(***************************************************************************)
(* One translation thread of SasLLMPipeline and the runs an operator makes *)
(* on it: SasLLMPipeline._process / _answer_item (src/pipeline/engine.py), *)
(* the RunLedger behind resume (src/pipeline/run_ledger.py) and the part   *)
(* of LiveValidator and KVChatMessageHistory they drive.                   *)
(*                                                                         *)
(* A run answers items 1..N in order.  Three kinds of row outlive it in    *)
(* the memory store: the (human, AI) messages of the thread, one run fact  *)
(* per item and one validation verdict per item.  They are written by      *)
(* separate commits, so a process that dies, or a call that raises, leaves *)
(* them in any of the combinations below, and the next run has to make     *)
(* sense of what it finds.                                                 *)
(*                                                                         *)
(* An item is its 1-based index: its id, its place in every run over the   *)
(* same source and the "index" of its facts agree.  An answer is named by  *)
(* the run, the item and the attempt that produced it; what it says is     *)
(* left out, whether it passes validation is chosen when it is scored.     *)
(***************************************************************************)
EXTENDS Naturals, Sequences, FiniteSets

CONSTANTS
    N,             \* items in the source
    MaxRetries,    \* largest validation.retries a run may be configured with
    Modes,         \* the configurations an operator may start a run with
    MaxRuns,       \* bound: runs started on the thread
    RetentionMax,  \* max_messages of the thread's history; 0 = no retention
    Faults         \* what may go wrong: see FaultKinds

Items == 1..N

\* What a call into the outside world may do instead of succeeding.
\*   llm       the model call raises before anything is stored
\*   late      the turn is inserted, then the rest of add_messages raises
\*   score     validate_item raises before it stores its verdict
\*   rollback  truncate_to raises while a rejected turn is dropped
\*   crash     the process dies, or the store refuses a fact write
FaultKinds == {"llm", "late", "score", "rollback", "crash"}

ModeSet == [resume : BOOLEAN, retries : 0..MaxRetries, validator : BOOLEAN]

ASSUME ConstantsAssumption ==
    /\ N \in Nat \ {0}
    /\ MaxRetries \in Nat
    /\ MaxRuns \in Nat
    /\ RetentionMax \in Nat
    /\ Faults \subseteq FaultKinds
    /\ Modes \subseteq ModeSet
    /\ Modes # {}
    \* The constructor drops the retry budget when there is no validator.
    /\ \A m \in Modes : m.retries > 0 => m.validator

Answers  == [run : 1..MaxRuns, item : Items, attempt : 1..(MaxRetries + 1)]
NoAnswer == [run |-> 0, item |-> 0, attempt |-> 0]

Messages == [role : {"human", "ai"}, of : Answers]
Turn(a)  == << [role |-> "human", of |-> a], [role |-> "ai", of |-> a] >>

Verdicts  == [status : {"none", "pass", "fail"}, of : Answers \cup {NoAnswer}]
NoVerdict == [status |-> "none", of |-> NoAnswer]

Outputs  == [kind : {"none", "skipped", "answered"},
             response : Answers \cup {NoAnswer},
             validation : Verdicts]
NoOutput == [kind |-> "none", response |-> NoAnswer, validation |-> NoVerdict]

VARIABLES
    \* --- the memory store ---
    msgs,       \* the thread's messages, oldest first
    fact,       \* fact[i]: status of the run fact of item i, "none" if absent
    verdict,    \* verdict[i]: the stored validation fact of item i
    accepted,   \* history: the answer whose acceptance fact[i] = "ok" recorded
    \* --- the running process ---
    pc,         \* where the run stands
    mode,       \* its configuration
    run,        \* how many runs were started
    idx,        \* 1-based position of the item at hand
    attempt,    \* attempts made on it
    lenBefore,  \* messages stored before the attempt (0 without retries)
    result,     \* verdict of the attempt at hand, "none" if unscored
    redo,       \* resume: first item to redo, N + 1 if there is none
    completed,  \* resume: items that are skipped
    completedValidations,  \* resume: the verdicts read back
    recovered,  \* resume: the messages read back
    outputs     \* the outputs list, by item

store    == <<msgs, fact, verdict, accepted>>
resumed  == <<redo, completed, completedValidations, recovered>>
attempts == <<attempt, lenBefore, result>>
vars     == <<store, pc, mode, run, idx, attempts, resumed, outputs>>

Stopped  == {"idle", "returned", "raised", "crashed"}
Running  == {"resume", "truncate", "dropFact", "dropVerdict",
             "item", "call", "validate", "decide", "error"}

\* Every variable is of its kind: rows for the items there are, a place a run has.
TypeOK ==
    /\ msgs \in Seq(Messages)
    /\ fact \in [Items -> {"none", "ok", "error"}]
    /\ verdict \in [Items -> Verdicts]
    /\ accepted \in [Items -> Answers \cup {NoAnswer}]
    /\ pc \in Stopped \cup Running
    /\ mode \in Modes
    /\ run \in 0..MaxRuns
    /\ (pc \in Running => run \in 1..MaxRuns)
    /\ idx \in 1..(N + 1)
    /\ (pc \in {"truncate", "dropFact", "dropVerdict",
                "call", "validate", "decide", "error"} => idx \in Items)
    /\ attempt \in 0..(MaxRetries + 1)
    /\ (pc \in {"call", "validate", "decide"} => attempt \in 1..(mode.retries + 1))
    /\ lenBefore \in Nat
    /\ result \in {"none", "pass", "fail"}
    /\ redo \in 1..(N + 1)
    /\ completed \in SUBSET Items
    /\ completedValidations \in [Items -> Verdicts]
    /\ recovered \in Seq(Messages)
    /\ outputs \in [Items -> Outputs]

-----------------------------------------------------------------------------
(* The thread's history: the list a KVChatMessageHistory stores.           *)

\* Mutant: one turn too many is kept.
TruncateToTurnMore(s, keep) == IF Len(s) <= keep + 2 THEN s ELSE SubSeq(s, 1, keep + 2)

\* truncate_to(keep): keep the oldest messages.
TruncateTo(s, keep) == IF Len(s) <= keep THEN s ELSE SubSeq(s, 1, keep)

\* _apply_retention: prune_to_count(max_messages) keeps the newest messages.
ApplyRetention(s) ==
    IF RetentionMax = 0 \/ Len(s) <= RetentionMax
    THEN s
    ELSE SubSeq(s, Len(s) - RetentionMax + 1, Len(s))

\* Mutant: a 1-based item index taken for a 0-based one.
RecoveredResponseOfNext(s, i) ==
    IF 2 * i + 2 <= Len(s) /\ s[2 * i + 2].role = "ai" THEN s[2 * i + 2].of ELSE NoAnswer

\* recovered_response: item i's answer is looked for at 0-based position
\* 2 * i - 1, and must be an AI message.
RecoveredResponse(s, i) ==
    IF 2 * i <= Len(s) /\ s[2 * i].role = "ai" THEN s[2 * i].of ELSE NoAnswer

-----------------------------------------------------------------------------
(* Resume: RunLedger.resume_state and _rewind_for_resume.                  *)

OkItems == {i \in Items : fact[i] = "ok"}

\* "Done and good": an ok fact, and no verdict that says it failed.
Satisfied(i) == fact[i] = "ok" /\ verdict[i].status # "fail"

\* Mutant: what comes from r on may be done as well.
IsRedoStartAnywhere(r) == \A i \in Items : i < r => Satisfied(i)

\* r is the first item to redo; N + 1 when every item is satisfied.
IsRedoStart(r) ==
    /\ \A i \in Items : i < r => Satisfied(i)
    /\ r \in Items => ~Satisfied(r)

Current == [run |-> run, item |-> idx, attempt |-> attempt]

\* The values a process starts a run with, and leaves behind when it stops.
ForgetResume ==
    /\ redo' = N + 1
    /\ completed' = {}
    /\ completedValidations' = [i \in Items |-> NoVerdict]
    /\ recovered' = << >>

ForgetAttempt ==
    /\ attempt' = 0
    /\ lenBefore' = 0
    /\ result' = "none"

ForgetLocals ==
    /\ ForgetResume
    /\ ForgetAttempt
    /\ idx' = 1
    /\ outputs' = [i \in Items |-> NoOutput]

Init ==
    /\ msgs = << >>
    /\ fact = [i \in Items |-> "none"]
    /\ verdict = [i \in Items |-> NoVerdict]
    /\ accepted = [i \in Items |-> NoAnswer]
    /\ pc = "idle"
    /\ mode \in Modes
    /\ run = 0
    /\ idx = 1
    /\ attempt = 0 /\ lenBefore = 0 /\ result = "none"
    /\ redo = N + 1
    /\ completed = {}
    /\ completedValidations = [i \in Items |-> NoVerdict]
    /\ recovered = << >>
    /\ outputs = [i \in Items |-> NoOutput]

\* An operator starts a run on the thread: run_files(..., thread_id, resume).
StartRun(m) ==
    /\ pc \in Stopped
    /\ run < MaxRuns
    /\ mode' = m
    /\ run' = run + 1
    /\ pc' = IF m.resume THEN "resume" ELSE "item"
    /\ ForgetLocals
    /\ UNCHANGED store

\* resume_state, without validation-driven retry: every ok item is skipped.
ResumeObserveOnly ==
    /\ pc = "resume"
    /\ mode.retries = 0
    /\ completed' = OkItems
    /\ completedValidations' = verdict
    /\ recovered' = IF OkItems = {} THEN << >> ELSE msgs
    /\ pc' = "item"
    /\ UNCHANGED <<store, mode, run, idx, attempts, redo, outputs>>

\* resume_state, with validation-driven retry: skip the satisfied prefix and
\* rewind to the first item that is missing, errored or failing.
ResumeValidationAware ==
    /\ pc = "resume"
    /\ mode.retries > 0
    /\ \E r \in 1..(N + 1) :
          /\ IsRedoStart(r)
          /\ redo' = r
          /\ completed' = 1..(r - 1)
          /\ IF r = N + 1
             THEN pc' = "item" /\ idx' = 1
             ELSE pc' = "truncate" /\ idx' = r
    /\ completedValidations' = verdict
    /\ recovered' = IF OkItems = {} THEN << >> ELSE msgs
    /\ UNCHANGED <<store, mode, run, attempts, outputs>>

\* _rewind_for_resume, first commit: drop the turns from item redo on.
TruncateForResume ==
    /\ pc = "truncate"
    /\ msgs' = TruncateTo(msgs, 2 * (redo - 1))
    /\ pc' = "dropFact"
    /\ UNCHANGED <<fact, verdict, accepted, mode, run, idx, attempts, resumed, outputs>>

\* Mutant: the run facts survive the rewind.
DropFactForgotten ==
    /\ pc = "dropFact"
    /\ pc' = "dropVerdict"
    /\ UNCHANGED <<store, mode, run, idx, attempts, resumed, outputs>>

\* _rewind_for_resume, one commit per row: the run fact of item idx ...
DropFact ==
    /\ pc = "dropFact"
    /\ fact' = [fact EXCEPT ![idx] = "none"]
    /\ pc' = "dropVerdict"
    /\ UNCHANGED <<msgs, verdict, accepted, mode, run, idx, attempts, resumed, outputs>>

\* Mutant: the verdicts survive the rewind.
DropVerdictForgotten ==
    /\ pc = "dropVerdict"
    /\ IF idx = N
       THEN pc' = "item" /\ idx' = 1
       ELSE pc' = "dropFact" /\ idx' = idx + 1
    /\ UNCHANGED <<store, mode, run, attempts, resumed, outputs>>

\* ... then its verdict, then the next item's rows.
DropVerdict ==
    /\ pc = "dropVerdict"
    /\ verdict' = [verdict EXCEPT ![idx] = NoVerdict]
    /\ IF idx = N
       THEN pc' = "item" /\ idx' = 1
       ELSE pc' = "dropFact" /\ idx' = idx + 1
    /\ UNCHANGED <<msgs, fact, accepted, mode, run, attempts, resumed, outputs>>

-----------------------------------------------------------------------------
(* The item loop: SasLLMPipeline._process.                                 *)

\* An item resume called complete is not sent again: its output is rebuilt
\* from the message snapshot and the verdicts read before the rewind.
SkipItem ==
    /\ pc = "item"
    /\ idx \in Items
    /\ idx \in completed
    /\ outputs' = [outputs EXCEPT ![idx] =
                     [kind |-> "skipped",
                      response |-> RecoveredResponse(recovered, idx),
                      validation |-> completedValidations[idx]]]
    /\ idx' = idx + 1
    /\ UNCHANGED <<store, pc, mode, run, attempts, resumed>>

\* First attempt: note the roll-back point if a retry might follow.
BeginItem ==
    /\ pc = "item"
    /\ idx \in Items
    /\ idx \notin completed
    /\ attempt' = 1
    /\ lenBefore' = IF mode.retries > 0 THEN Len(msgs) ELSE 0
    /\ result' = "none"
    /\ pc' = "call"
    /\ UNCHANGED <<store, mode, run, idx, resumed, outputs>>

\* _call_model answers: the turn is added and retention applied, one call.
CallModel ==
    /\ pc = "call"
    /\ msgs' = ApplyRetention(msgs \o Turn(Current))
    /\ pc' = IF mode.validator THEN "validate" ELSE "decide"
    /\ UNCHANGED <<fact, verdict, accepted, mode, run, idx, attempts, resumed, outputs>>

\* _call_model raises: the gateway failed, and no turn was stored.
CallModelRaises ==
    /\ "llm" \in Faults
    /\ pc = "call"
    /\ pc' = "error"
    /\ UNCHANGED <<store, mode, run, idx, attempts, resumed, outputs>>

\* _call_model raises after its INSERT landed: the chat row MERGE, or
\* retention, failed behind the messages.
CallModelRaisesLate ==
    /\ "late" \in Faults
    /\ pc = "call"
    /\ msgs' = msgs \o Turn(Current)
    /\ pc' = "error"
    /\ UNCHANGED <<fact, verdict, accepted, mode, run, idx, attempts, resumed, outputs>>

\* validate_item scores the answer and upserts the verdict of the item.
ValidateItem(status) ==
    /\ pc = "validate"
    /\ verdict' = [verdict EXCEPT ![idx] = [status |-> status, of |-> Current]]
    /\ result' = status
    /\ pc' = "decide"
    /\ UNCHANGED <<msgs, fact, accepted, mode, run, idx, attempt, lenBefore, resumed, outputs>>

\* validate_item raises: swallowed, the attempt goes unscored.
ValidateItemRaises ==
    /\ "score" \in Faults
    /\ pc = "validate"
    /\ result' = "none"
    /\ pc' = "decide"
    /\ UNCHANGED <<store, mode, run, idx, attempt, lenBefore, resumed, outputs>>

\* Mutant: one attempt beyond the budget.
IsFinalOneMore == result # "fail" \/ attempt > 1 + mode.retries

IsFinal == result # "fail" \/ attempt >= 1 + mode.retries

\* The attempt is kept: _answer_item returns, _process writes the ok fact.
AcceptAnswer ==
    /\ pc = "decide"
    /\ IsFinal
    /\ fact' = [fact EXCEPT ![idx] = "ok"]
    /\ accepted' = [accepted EXCEPT ![idx] = Current]
    /\ outputs' = [outputs EXCEPT ![idx] =
                     [kind |-> "answered",
                      response |-> Current,
                      validation |-> IF result = "none" THEN NoVerdict
                                     ELSE [status |-> result, of |-> Current]]]
    /\ idx' = idx + 1
    /\ ForgetAttempt
    /\ pc' = "item"
    /\ UNCHANGED <<msgs, verdict, mode, run, resumed>>

\* Mutant: the rejected attempt is not counted.
RejectAnswerUncounted ==
    /\ pc = "decide"
    /\ ~IsFinal
    /\ msgs' = TruncateTo(msgs, lenBefore)
    /\ result' = "none"
    /\ pc' = "call"
    /\ UNCHANGED <<fact, verdict, accepted, mode, run, idx, attempt, lenBefore,
                   resumed, outputs>>

\* The attempt is rejected: its turn is dropped and the loop starts over,
\* which reads the roll-back point again.
RejectAnswer ==
    /\ pc = "decide"
    /\ ~IsFinal
    /\ msgs' = TruncateTo(msgs, lenBefore)
    /\ attempt' = attempt + 1
    /\ lenBefore' = Len(msgs')
    /\ result' = "none"
    /\ pc' = "call"
    /\ UNCHANGED <<fact, verdict, accepted, mode, run, idx, resumed, outputs>>

\* Dropping the rejected turn raises out of _answer_item.
RejectAnswerRaises ==
    /\ "rollback" \in Faults
    /\ pc = "decide"
    /\ ~IsFinal
    /\ pc' = "error"
    /\ UNCHANGED <<store, mode, run, idx, attempts, resumed, outputs>>

\* _process records the error fact and lets the exception out.
RecordError ==
    /\ pc = "error"
    /\ fact' = [fact EXCEPT ![idx] = "error"]
    /\ pc' = "raised"
    /\ ForgetLocals
    /\ UNCHANGED <<msgs, verdict, accepted, mode, run>>

\* Every item has an output: the run returns them.
ReturnOutputs ==
    /\ pc = "item"
    /\ idx = N + 1
    /\ pc' = "returned"
    /\ idx' = 1
    /\ ForgetResume
    /\ UNCHANGED <<store, mode, run, attempts, outputs>>

\* The process dies between any two commits.  A fact write that raises ends
\* the run at the same place with the same rows.
Crash ==
    /\ "crash" \in Faults
    /\ pc \in Running
    /\ pc' = "crashed"
    /\ ForgetLocals
    /\ UNCHANGED <<store, mode, run>>

\* The steps the process itself takes once it is started.
Step ==
    \/ ResumeObserveOnly \/ ResumeValidationAware
    \/ TruncateForResume \/ DropFact \/ DropVerdict
    \/ SkipItem \/ BeginItem
    \/ CallModel \/ CallModelRaises \/ CallModelRaisesLate
    \/ (\E status \in {"pass", "fail"} : ValidateItem(status))
    \/ ValidateItemRaises
    \/ AcceptAnswer \/ RejectAnswer \/ RejectAnswerRaises
    \/ RecordError \/ ReturnOutputs

Next == Step \/ Crash \/ (\E m \in Modes : StartRun(m))

\* A started process runs: every call it makes returns or raises (the client
\* has a request timeout and a bounded number of retries).  Nothing obliges
\* an operator to start a run, nor a process to die.
Fairness == WF_vars(Step)

Spec == Init /\ [][Next]_vars /\ Fairness

-----------------------------------------------------------------------------
(* Properties.                                                             *)

\* An item that resume skips is reported with its own accepted answer or
\* with none: recovered_response never hands out another item's or another
\* attempt's text ("degrades to None rather than guessing").
RecoveredNotForeign ==
    \A i \in Items :
        outputs[i].kind = "skipped" => outputs[i].response \in {NoAnswer, accepted[i]}

\* With validation-aware resume the answer is always there: whatever the
\* earlier runs died of, a skipped item comes back with exactly the answer
\* that its ok fact recorded.
SkippedIsAccepted ==
    \A i \in Items : outputs[i].kind = "skipped" => outputs[i].response = accepted[i]

\* When the model is called, the thread it is shown holds one turn per
\* earlier item, that item's accepted answer: no rejected, failed, crashed or
\* re-done attempt is ever in the history a later prompt is built from.
PromptHistoryIsAccepted ==
    pc = "call" =>
        /\ Len(msgs) = 2 * (idx - 1)
        /\ \A i \in 1..(idx - 1) :
               msgs[2 * i] = [role |-> "ai", of |-> accepted[i]]

\* The thread holds one answer per item: a rejected attempt's turn is gone
\* before the next attempt's is stored ("exactly one -- the final -- (human,
\* AI) pair persists per item").
OnePairPerItem ==
    \A j, k \in 1..Len(msgs) :
        (msgs[j].role = "ai" /\ msgs[k].role = "ai"
            /\ msgs[j].of.item = msgs[k].of.item) => j = k

\* A run that returns leaves the thread at exactly one (human, AI) pair per
\* item, in item order, the pair the outputs report.
ReturnedThreadMatchesOutputs ==
    pc = "returned" =>
        /\ Len(msgs) = 2 * N
        /\ \A i \in Items :
               /\ outputs[i].kind # "none"
               /\ msgs[2 * i] = [role |-> "ai", of |-> outputs[i].response]

\* A run that does not resume appends to whatever the thread holds: its own N
\* turns come last, in item order, one per item, and are what it reports --
\* no attempt it rolled back and no turn an earlier run left is among them.
ThreadEndsInOutputs ==
    (pc = "returned" /\ ~mode.resume) =>
        /\ Len(msgs) >= 2 * N
        /\ \A i \in Items :
               /\ outputs[i].kind = "answered"
               /\ msgs[Len(msgs) - 2 * (N - i)] =
                      [role |-> "ai", of |-> outputs[i].response]

\* A verdict stored beside an ok fact judges the answer that was accepted
\* ("the final attempt's turn and verdict are what persist").
VerdictOfAccepted ==
    \A i \in Items :
        (fact[i] = "ok" /\ verdict[i].status # "none") => verdict[i].of = accepted[i]

\* The weaker form that must survive a scorer that fails: a *passing* verdict
\* is never about a text the item's ok fact did not accept, so nothing is
\* reported as validated that was not.
PassingVerdictOfAccepted ==
    \A i \in Items :
        (fact[i] = "ok" /\ verdict[i].status = "pass") => verdict[i].of = accepted[i]

\* Work that is done and good stays done: no step of any later run, rewind,
\* retry or crash takes an item out of the satisfied prefix of the thread.
DoneStaysDone ==
    [][\A i \in Items :
          (\A j \in 1..i : Satisfied(j)) => (\A j \in 1..i : Satisfied(j)')]_vars

\* A run that was started stops: the retry loop and the rewind end.
RunStops == (pc \in Running) ~> (pc \in Stopped)

-----------------------------------------------------------------------------
(* What the thread promises, as AcceptedLog states it: the turns of the    *)
(* longest prefix of items that have an ok fact and a stored turn.         *)

Stored(i) == fact[i] = "ok" /\ 2 * i <= Len(msgs)

DonePrefix ==
    CHOOSE n \in 0..N :
        /\ \A i \in 1..n : Stored(i)
        /\ n < N => ~Stored(n + 1)

acceptedLog ==
    [k \in 1..DonePrefix |->
        [answer |-> msgs[2 * k].of, failing |-> verdict[k].status = "fail"]]

Log == INSTANCE AcceptedLog WITH log <- acceptedLog

\* The run implements the abstract log of accepted answers.
RefinesAcceptedLog == Log!Spec
=============================================================================
