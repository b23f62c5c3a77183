-------------------------- MODULE PipelineRunProofs --------------------------
(***************************************************************************)
(* Safety of PipelineRun in the validation-aware configuration, proved for *)
(* every number of items, runs and retries, and every set of faults: when  *)
(* each run resumes and retries, and no retention prunes the thread, no    *)
(* crash, failing call or rewind makes a resumed run report an answer that *)
(* its item's ok fact did not record.                                      *)
(* Below it, runs that do not resume, and runs that resume and only        *)
(* observe their verdicts.                                                 *)
(***************************************************************************)
EXTENDS PipelineRun, ProofLemmas

\* The configuration the theorems are about.
ValidationAware ==
    /\ \A m \in Modes : m.resume /\ m.retries > 0
    /\ RetentionMax = 0

Ai(a) == [role |-> "ai", of |-> a]

Looping   == {"item", "call", "validate", "decide", "error"}
Rewinding == {"dropFact", "dropVerdict"}
Resumed   == Looping \cup Rewinding \cup {"truncate"}

\* How many items the thread should hold a turn of: those before the one at
\* hand, or, while the loop is still skipping, all that resume kept.
Done == IF idx < redo THEN redo - 1 ELSE idx - 1

\* (1) The store, whatever the process does: a satisfied prefix has its turns,
\* and the turn at an ok item's place is the accepted one.
PrefixStored ==
    \A i \in Items : (\A j \in 1..i : Satisfied(j)) => 2 * i <= Len(msgs)

OkStored ==
    \A i \in Items :
        (fact[i] = "ok" /\ 2 * i <= Len(msgs)) => msgs[2 * i] = Ai(accepted[i])

ThreadBounded == Len(msgs) <= 2 * N

\* (2) What resume computed stays true while the run uses it.
ResumeKept ==
    pc \in Resumed =>
        /\ completed = 1..(redo - 1)
        /\ \A i \in Items : i < redo => Satisfied(i)
        /\ \A i \in Items : i < redo =>
              2 * i <= Len(recovered) /\ recovered[2 * i] = Ai(accepted[i])

\* (3) The rewind: turns first, then facts and verdicts in item order, so the
\* item to redo never looks satisfied in between.
RewindOrder ==
    /\ pc = "truncate" => redo = idx /\ ~Satisfied(redo)
    /\ pc \in Rewinding =>
          /\ redo \in Items /\ redo <= idx
          /\ ~Satisfied(redo)
          /\ Len(msgs) = 2 * (redo - 1)
          /\ \A i \in Items : (redo <= i /\ i < idx) =>
                fact[i] = "none" /\ verdict[i].status = "none"
    /\ pc = "dropVerdict" => fact[idx] = "none"

\* (4) The item loop: exactly the items done have ok facts and turns.
LoopInStep ==
    pc \in Looping =>
        /\ \A i \in Items : fact[i] = "ok" <=> i <= Done
        /\ pc # "item" => redo <= idx
        /\ pc \in {"item", "call"} => Len(msgs) = 2 * Done
        /\ pc \in {"validate", "decide"} =>
              Len(msgs) = 2 * idx /\ msgs[2 * idx] = Ai(Current)
        /\ pc = "error" => Len(msgs) \in {2 * Done, 2 * idx}
        /\ pc \in {"call", "validate", "decide"} => lenBefore = 2 * Done

\* (5) Every output the run has collected is the answer accepted for its item.
OutputsAccepted ==
    \A i \in Items :
        outputs[i].kind # "none" => outputs[i].response = accepted[i]

\* (6) A run that has come to an item has an output for every one before it.
OutputsCollected ==
    /\ pc \in Looping =>
          \A i \in Items : i < idx => outputs[i].kind # "none"
    /\ pc = "returned" =>
          /\ Len(msgs) = 2 * N
          /\ \A i \in Items : fact[i] = "ok" /\ outputs[i].kind # "none"

\* (7) No verdict of an earlier run is left where the loop will write one, and
\* within an item a passing verdict is about the attempt at hand.
VerdictsInStep ==
    pc \in Looping =>
        /\ \A i \in Items : (Done < i /\ i # idx) => verdict[i].status = "none"
        /\ (pc = "item" /\ idx \in Items /\ Done < idx) => verdict[idx].status = "none"
        /\ pc \in {"call", "validate"} => verdict[idx].status # "pass"
        /\ pc = "decide" =>
              IF result = "none" THEN verdict[idx].status # "pass"
              ELSE verdict[idx] = [status |-> result, of |-> Current]

Inv ==
    /\ PrefixStored /\ OkStored /\ ThreadBounded
    /\ ResumeKept /\ RewindOrder /\ LoopInStep
    /\ OutputsAccepted /\ OutputsCollected
    /\ VerdictsInStep /\ PassingVerdictOfAccepted

\* The inductive invariant.
IInv == TypeOK /\ Inv

-----------------------------------------------------------------------------
(* What the helpers on the thread return.                                  *)

\* truncate_to keeps a prefix, and is the identity on a short thread.
LEMMA TruncateToKeepsPrefix ==
    ASSUME NEW S, NEW s \in Seq(S), NEW keep \in Nat
    PROVE  /\ TruncateTo(s, keep) \in Seq(S)
           /\ Len(TruncateTo(s, keep)) = IF Len(s) <= keep THEN Len(s) ELSE keep
           /\ \A k \in 1..Len(TruncateTo(s, keep)) : TruncateTo(s, keep)[k] = s[k]
<1>1. Len(s) \in Nat /\ \A k \in 1..Len(s) : s[k] \in S
  BY ElementOfSeq, LenProperties
<1>2. CASE Len(s) <= keep
  BY <1>1, <1>2 DEF TruncateTo
<1>3. CASE ~(Len(s) <= keep)
  <2>1. \A k \in 1..keep : s[k] \in S
    BY <1>1, <1>3
  <2>2. /\ SubSeq(s, 1, keep) \in Seq(S)
        /\ Len(SubSeq(s, 1, keep)) = IF 1 <= keep THEN keep - 1 + 1 ELSE 0
        /\ \A k \in 1..(keep - 1 + 1) : SubSeq(s, 1, keep)[k] = s[1 + k - 1]
    BY <2>1, SubSeqProperties
  <2>3. Len(SubSeq(s, 1, keep)) = keep
    BY <2>2
  <2>4. \A k \in 1..keep : SubSeq(s, 1, keep)[k] = s[k]
    BY <2>2
  <2> QED  BY <1>3, <2>2, <2>3, <2>4 DEF TruncateTo
<1> QED  BY <1>2, <1>3

\* Retention keeps a thread a thread.
LEMMA RetentionKeepsSeq ==
    ASSUME NEW S, NEW s \in Seq(S)
    PROVE  ApplyRetention(s) \in Seq(S)
<1>1. RetentionMax \in Nat
  BY ConstantsAssumption
<1>2. Len(s) \in Nat /\ \A k \in 1..Len(s) : s[k] \in S
  BY ElementOfSeq, LenProperties
<1>3. CASE RetentionMax = 0 \/ Len(s) <= RetentionMax
  BY <1>3 DEF ApplyRetention
<1>4. CASE ~(RetentionMax = 0 \/ Len(s) <= RetentionMax)
  <2>1. \A k \in (Len(s) - RetentionMax + 1)..Len(s) : s[k] \in S
    BY <1>1, <1>2, <1>4
  <2>2. SubSeq(s, Len(s) - RetentionMax + 1, Len(s)) \in Seq(S)
    BY <1>1, <1>2, <2>1, SubSeqProperties
  <2> QED  BY <1>4, <2>2 DEF ApplyRetention
<1> QED  BY <1>3, <1>4

\* add_messages appends a turn whose second message is the answer.
LEMMA TurnAppended ==
    ASSUME NEW s \in Seq(Messages), NEW a \in Answers
    PROVE  /\ s \o Turn(a) \in Seq(Messages)
           /\ Len(s \o Turn(a)) = Len(s) + 2
           /\ \A k \in 1..Len(s) : (s \o Turn(a))[k] = s[k]
           /\ (s \o Turn(a))[Len(s) + 2] = Ai(a)
<1>1. Turn(a) \in Seq(Messages) /\ Len(Turn(a)) = 2 /\ Turn(a)[2] = Ai(a)
  BY DEF Turn, Messages, Ai
<1>2. Len(s) \in Nat
  BY LenProperties
<1>3. /\ s \o Turn(a) \in Seq(Messages)
      /\ Len(s \o Turn(a)) = Len(s) + Len(Turn(a))
      /\ \A k \in 1..(Len(s) + Len(Turn(a))) :
            (s \o Turn(a))[k] = IF k <= Len(s) THEN s[k] ELSE Turn(a)[k - Len(s)]
  BY <1>1, ConcatProperties
<1> QED  BY <1>1, <1>2, <1>3

\* What recovered_response returns is an answer, or none.
LEMMA RecoveredResponseType ==
    ASSUME NEW s \in Seq(Messages), NEW i \in Items
    PROVE  RecoveredResponse(s, i) \in Answers \cup {NoAnswer}
<1>1. i \in Nat /\ i >= 1 /\ Len(s) \in Nat
  BY ConstantsAssumption, LenProperties DEF Items
<1>2. ASSUME 2 * i <= Len(s)
      PROVE  s[2 * i].of \in Answers
  <2>1. s[2 * i] \in Messages
    BY <1>1, <1>2, ElementOfSeq
  <2> QED  BY <2>1 DEF Messages
<1> QED  BY <1>2 DEF RecoveredResponse

-----------------------------------------------------------------------------
(* Type correctness.                                                       *)

LEMMA InitTypeOK == Init => TypeOK
<1> SUFFICES ASSUME Init PROVE TypeOK
  OBVIOUS
<1>1. NoVerdict \in Verdicts /\ NoOutput \in Outputs
  BY DEF NoVerdict, Verdicts, NoOutput, Outputs
<1> QED
  BY <1>1, ConstantsAssumption DEF Init, TypeOK, Items, Stopped, Running

\* The answer an attempt in progress produces is one of Answers.
LEMMA CurrentType ==
    ASSUME TypeOK, pc \in {"call", "validate", "decide"}
    PROVE  Current \in Answers
<1>1. mode.retries \in 0..MaxRetries
  BY ConstantsAssumption DEF TypeOK, ModeSet
<1>2. attempt \in 1..(MaxRetries + 1)
  BY <1>1, ConstantsAssumption DEF TypeOK
<1>3. run \in 1..MaxRuns /\ idx \in Items
  BY DEF TypeOK, Running
<1> QED  BY <1>2, <1>3 DEF Current, Answers

LEMMA NextTypeOK == TypeOK /\ [Next]_vars => TypeOK'
<1> SUFFICES ASSUME TypeOK, [Next]_vars PROVE TypeOK'
  OBVIOUS
<1> USE ConstantsAssumption
<1>0. /\ NoVerdict \in Verdicts /\ NoOutput \in Outputs
      /\ mode.retries \in 0..MaxRetries
      /\ \A m \in Modes : m.retries \in 0..MaxRetries
      /\ 1 \in Items /\ N \in Items /\ Items \subseteq 1..(N + 1)
      /\ \A i \in Items : i + 1 \in 1..(N + 1)
  BY DEF NoVerdict, Verdicts, NoOutput, Outputs, TypeOK, ModeSet, Items
<1>1. CASE UNCHANGED vars
  BY <1>1 DEF vars, store, attempts, resumed, TypeOK
<1>2. ASSUME NEW m \in Modes, StartRun(m) PROVE TypeOK'
  BY <1>0, <1>2 DEF TypeOK, StartRun, ForgetLocals, ForgetResume,
     ForgetAttempt, store, Stopped, Running
<1>3. CASE ResumeObserveOnly
  BY <1>0, <1>3 DEF TypeOK, ResumeObserveOnly, OkItems, store, attempts, Stopped, Running
<1>4. CASE ResumeValidationAware
  <2>1. PICK r \in 1..(N + 1) :
          /\ redo' = r
          /\ completed' = 1..(r - 1)
          /\ IF r = N + 1 THEN pc' = "item" /\ idx' = 1
             ELSE pc' = "truncate" /\ idx' = r
    BY <1>4 DEF ResumeValidationAware
  <2>2. completed' \in SUBSET Items /\ redo' \in 1..(N + 1)
    BY <2>1 DEF Items
  <2>3. /\ pc' \in {"item", "truncate"} /\ idx' \in 1..(N + 1)
        /\ pc' = "truncate" => idx' \in Items
    BY <2>1 DEF Items
  <2> QED
    BY <1>4, <2>2, <2>3 DEF TypeOK, ResumeValidationAware, store, attempts, Stopped, Running
<1>5. CASE TruncateForResume
  <2>1. TruncateTo(msgs, 2 * (redo - 1)) \in Seq(Messages)
    BY TruncateToKeepsPrefix DEF TypeOK
  <2> QED
    BY <1>5, <2>1 DEF TypeOK, TruncateForResume, attempts, resumed, Stopped, Running
<1>6. CASE DropFact
  BY <1>6 DEF TypeOK, DropFact, attempts, resumed, Stopped, Running
<1>7. CASE DropVerdict
  BY <1>0, <1>7 DEF TypeOK, DropVerdict, attempts, resumed, Stopped, Running, Items
<1>8. CASE SkipItem
  <2>1. RecoveredResponse(recovered, idx) \in Answers \cup {NoAnswer}
    BY <1>8, RecoveredResponseType DEF TypeOK, SkipItem
  <2>2. completedValidations[idx] \in Verdicts
    BY <1>8 DEF TypeOK, SkipItem
  <2>3. outputs' \in [Items -> Outputs]
    BY <1>8, <2>1, <2>2 DEF TypeOK, SkipItem, Outputs
  <2> QED
    BY <1>0, <1>8, <2>3 DEF TypeOK, SkipItem, store, attempts, resumed, Stopped, Running
<1>9. CASE BeginItem
  <2>1. Len(msgs) \in Nat
    BY LenProperties DEF TypeOK
  <2> QED
    BY <1>0, <1>9, <2>1 DEF TypeOK, BeginItem, store, resumed, Stopped, Running
<1>10. CASE CallModel
  <2>1. msgs' \in Seq(Messages)
    BY <1>10, CurrentType, TurnAppended, RetentionKeepsSeq DEF TypeOK, CallModel
  <2> QED
    BY <1>10, <2>1 DEF TypeOK, CallModel, attempts, resumed, Stopped, Running
<1>11. CASE CallModelRaises
  BY <1>11 DEF TypeOK, CallModelRaises, store, attempts, resumed, Stopped, Running
<1>12. CASE CallModelRaisesLate
  <2>1. msgs' \in Seq(Messages)
    BY <1>12, CurrentType, TurnAppended DEF TypeOK, CallModelRaisesLate
  <2> QED
    BY <1>12, <2>1 DEF TypeOK, CallModelRaisesLate, attempts, resumed, Stopped, Running
<1>13. ASSUME NEW status \in {"pass", "fail"}, ValidateItem(status) PROVE TypeOK'
  <2>1. [status |-> status, of |-> Current] \in Verdicts
    BY <1>13, CurrentType DEF Verdicts, ValidateItem
  <2>2. verdict' \in [Items -> Verdicts]
    BY <1>13, <2>1 DEF TypeOK, ValidateItem
  <2> QED
    BY <1>13, <2>2 DEF TypeOK, ValidateItem, resumed, Stopped, Running
<1>14. CASE ValidateItemRaises
  BY <1>14 DEF TypeOK, ValidateItemRaises, store, resumed, Stopped, Running
<1>15. CASE AcceptAnswer
  <2>1. Current \in Answers /\ idx \in Items
    BY <1>15, CurrentType DEF AcceptAnswer, TypeOK
  <2>2. (IF result = "none" THEN NoVerdict
         ELSE [status |-> result, of |-> Current]) \in Verdicts
    BY <1>0, <2>1 DEF Verdicts, TypeOK
  <2>3. outputs' \in [Items -> Outputs]
    BY <1>15, <2>1, <2>2 DEF TypeOK, AcceptAnswer, Outputs
  <2>4. accepted' \in [Items -> Answers \cup {NoAnswer}]
    BY <1>15, <2>1 DEF TypeOK, AcceptAnswer
  <2> QED
    BY <1>0, <1>15, <2>1, <2>3, <2>4 DEF TypeOK, AcceptAnswer, ForgetAttempt,
       resumed, Stopped, Running
<1>16. CASE RejectAnswer
  <2>1. msgs' \in Seq(Messages)
    BY <1>16, TruncateToKeepsPrefix DEF TypeOK, RejectAnswer
  <2>2. Len(msgs') \in Nat
    BY <2>1, LenProperties
  <2>3. attempt' \in 1..(mode.retries + 1)
    BY <1>0, <1>16 DEF TypeOK, RejectAnswer, IsFinal
  <2>4. attempt' \in 0..(MaxRetries + 1)
    BY <1>0, <2>3
  <2> QED
    BY <1>16, <2>1, <2>2, <2>3, <2>4 DEF TypeOK, RejectAnswer, resumed, Stopped, Running
<1>17. CASE RejectAnswerRaises
  BY <1>17 DEF TypeOK, RejectAnswerRaises, store, attempts, resumed, Stopped, Running
<1>18. CASE RecordError
  BY <1>0, <1>18 DEF TypeOK, RecordError, ForgetLocals, ForgetResume, ForgetAttempt,
     Stopped, Running
<1>19. CASE ReturnOutputs
  BY <1>0, <1>19 DEF TypeOK, ReturnOutputs, ForgetResume, store, attempts, Stopped, Running
<1>20. CASE Crash
  BY <1>0, <1>20 DEF TypeOK, Crash, ForgetLocals, ForgetResume, ForgetAttempt, store,
     Stopped, Running
<1> QED
  BY <1>1, <1>2, <1>3, <1>4, <1>5, <1>6, <1>7, <1>8, <1>9, <1>10, <1>11, <1>12,
     <1>13, <1>14, <1>15, <1>16, <1>17, <1>18, <1>19, <1>20 DEF Next, Step

\* The types of the thread, its facts and verdicts and of the run's locals,
\* with where the item at hand and its attempt may stand, in every reachable
\* state of every configuration.
THEOREM TypeCorrect == Spec => []TypeOK
<1>1. Init => TypeOK
  BY InitTypeOK
<1>2. TypeOK /\ [Next]_vars => TypeOK'
  BY NextTypeOK
<1> QED  BY <1>1, <1>2, PTL DEF Spec

-----------------------------------------------------------------------------
(* The inductive invariant: one lemma per action, one step per conjunct.   *)

\* What every lemma below knows of the numbers in the state.
LEMMA Arithmetic ==
    ASSUME TypeOK
    PROVE  /\ N \in Nat /\ N >= 1 /\ Items = 1..N
           /\ idx \in Nat /\ idx >= 1 /\ idx <= N + 1
           /\ redo \in Nat /\ redo >= 1 /\ redo <= N + 1
           /\ Len(msgs) \in Nat
           /\ \A k \in 1..Len(msgs) : msgs[k] \in Messages
           /\ Done \in Nat /\ Done <= N
           /\ redo <= idx => Done = idx - 1
  BY ConstantsAssumption, LenProperties, ElementOfSeq DEF TypeOK, Items, Done

\* The store conjuncts depend on the store alone.
LEMMA StoreInvStable ==
    ASSUME PrefixStored, OkStored, ThreadBounded, PassingVerdictOfAccepted,
           UNCHANGED store
    PROVE  /\ PrefixStored' /\ OkStored' /\ ThreadBounded'
           /\ PassingVerdictOfAccepted'
  BY DEF PrefixStored, OkStored, ThreadBounded, PassingVerdictOfAccepted, Satisfied, store

LEMMA InitInv ==
    ASSUME Init
    PROVE  Inv
<1>1. 1 \in Items /\ \A i \in Items : i \in 1..i /\ 1 \in 1..i
  BY ConstantsAssumption DEF Items
<1>2. PrefixStored
  BY <1>1 DEF Init, PrefixStored, Satisfied
<1>3. OkStored /\ ThreadBounded /\ PassingVerdictOfAccepted
  BY ConstantsAssumption DEF Init, OkStored, ThreadBounded, PassingVerdictOfAccepted, Items
<1>4. ResumeKept /\ RewindOrder /\ LoopInStep /\ VerdictsInStep
  BY DEF Init, ResumeKept, RewindOrder, LoopInStep, VerdictsInStep, Resumed, Looping, Rewinding
<1>5. OutputsAccepted /\ OutputsCollected
  BY DEF Init, OutputsAccepted, OutputsCollected, Looping, NoOutput
<1> QED  BY <1>2, <1>3, <1>4, <1>5 DEF Inv

\* Where the process is not in a run, only the store is constrained.
LEMMA StoppedInv ==
    ASSUME PrefixStored', OkStored', ThreadBounded', PassingVerdictOfAccepted',
           pc' \in {"resume", "raised", "crashed"},
           outputs' = [i \in Items |-> NoOutput]
    PROVE  Inv'
<1>1. /\ ResumeKept' /\ RewindOrder' /\ LoopInStep' /\ VerdictsInStep'
      /\ OutputsCollected'
  BY DEF ResumeKept, RewindOrder, LoopInStep, VerdictsInStep, OutputsCollected,
     Resumed, Looping, Rewinding
<1>2. OutputsAccepted'
  BY DEF OutputsAccepted, NoOutput
<1> QED  BY <1>1, <1>2 DEF Inv

LEMMA StartRunInv ==
    ASSUME ValidationAware, Inv, NEW m \in Modes, StartRun(m)
    PROVE  Inv'
<1>1. pc' = "resume" /\ outputs' = [i \in Items |-> NoOutput] /\ UNCHANGED store
  BY DEF StartRun, ForgetLocals, ValidationAware
<1>2. PrefixStored' /\ OkStored' /\ ThreadBounded' /\ PassingVerdictOfAccepted'
  BY <1>1, StoreInvStable DEF Inv
<1> QED  BY <1>1, <1>2, StoppedInv

LEMMA CrashInv ==
    ASSUME Inv, Crash
    PROVE  Inv'
<1>1. pc' = "crashed" /\ outputs' = [i \in Items |-> NoOutput] /\ UNCHANGED store
  BY DEF Crash, ForgetLocals
<1>2. PrefixStored' /\ OkStored' /\ ThreadBounded' /\ PassingVerdictOfAccepted'
  BY <1>1, StoreInvStable DEF Inv
<1> QED  BY <1>1, <1>2, StoppedInv

LEMMA RecordErrorInv ==
    ASSUME IInv, RecordError
    PROVE  Inv'
<1> USE DEF IInv, Inv
<1>1. idx \in Items /\ fact' = [fact EXCEPT ![idx] = "error"]
  BY DEF RecordError, TypeOK
<1>2. \A i \in Items : fact'[i] = "ok" => fact[i] = "ok"
  BY <1>1 DEF TypeOK
<1>3. UNCHANGED <<msgs, verdict, accepted>>
  BY DEF RecordError
<1>4. \A i \in Items : Satisfied(i)' => Satisfied(i)
  BY <1>2, <1>3 DEF Satisfied
<1>5. \A i \in Items : \A j \in 1..i : j \in Items
  BY ConstantsAssumption DEF Items
<1>6. PrefixStored'
  BY <1>3, <1>4, <1>5 DEF PrefixStored
<1>7. OkStored' /\ ThreadBounded' /\ PassingVerdictOfAccepted'
  BY <1>2, <1>3 DEF OkStored, ThreadBounded, PassingVerdictOfAccepted
<1>8. pc' = "raised" /\ outputs' = [i \in Items |-> NoOutput]
  BY DEF RecordError, ForgetLocals
<1> QED  BY <1>6, <1>7, <1>8, StoppedInv

LEMMA ReturnOutputsInv ==
    ASSUME IInv, ReturnOutputs
    PROVE  Inv'
<1> USE DEF IInv, Inv
<1>1. UNCHANGED store /\ UNCHANGED outputs /\ pc = "item" /\ idx = N + 1 /\ pc' = "returned"
  BY DEF ReturnOutputs
<1>2. PrefixStored' /\ OkStored' /\ ThreadBounded' /\ PassingVerdictOfAccepted'
  BY <1>1, StoreInvStable
<1>3. ResumeKept' /\ RewindOrder' /\ LoopInStep' /\ VerdictsInStep'
  BY <1>1 DEF ResumeKept, RewindOrder, LoopInStep, VerdictsInStep, Resumed, Looping, Rewinding
<1>4. OutputsAccepted'
  BY <1>1 DEF OutputsAccepted, store
<1>5. Done = N
  BY <1>1, Arithmetic
<1>6. OutputsCollected'
  BY <1>1, <1>5, Arithmetic DEF OutputsCollected, LoopInStep, Looping, store
<1> QED  BY <1>2, <1>3, <1>4, <1>6

\* The snapshot resume takes holds the accepted answer of every kept item, and
\* when nothing is to redo the thread is exactly as long as it should be.
LEMMA ResumeInv ==
    ASSUME ValidationAware, IInv, ResumeValidationAware
    PROVE  Inv'
<1> USE DEF IInv, Inv
<1>1. PICK r \in 1..(N + 1) :
        /\ IsRedoStart(r) /\ redo' = r /\ completed' = 1..(r - 1)
        /\ IF r = N + 1 THEN pc' = "item" /\ idx' = 1
           ELSE pc' = "truncate" /\ idx' = r
  BY DEF ResumeValidationAware
<1>2. /\ UNCHANGED <<store, outputs>> /\ pc = "resume"
      /\ recovered' = IF OkItems = {} THEN << >> ELSE msgs
      /\ result' = result
  BY DEF ResumeValidationAware, attempts
<1>3. UNCHANGED <<msgs, fact, verdict, accepted>>
  BY <1>2 DEF store
<1>4. PrefixStored' /\ OkStored' /\ ThreadBounded' /\ PassingVerdictOfAccepted'
  BY <1>2, StoreInvStable
<1>5. \A i \in Items : i < r => Satisfied(i) /\ Satisfied(i)'
  BY <1>1, <1>3 DEF IsRedoStart, Satisfied
<1>6. \A i \in Items : i < r => 2 * i <= Len(msgs) /\ msgs[2 * i] = Ai(accepted[i])
  <2> SUFFICES ASSUME NEW i \in Items, i < r
               PROVE  2 * i <= Len(msgs) /\ msgs[2 * i] = Ai(accepted[i])
    OBVIOUS
  <2>1. \A j \in 1..i : j \in Items /\ j < r
    BY Arithmetic
  <2>2. 2 * i <= Len(msgs)
    BY <1>5, <2>1 DEF PrefixStored
  <2>3. fact[i] = "ok"
    BY <1>5 DEF Satisfied
  <2> QED  BY <2>2, <2>3 DEF OkStored
<1>7. ResumeKept'
  <2>1. \A i \in Items : i < r => recovered' = msgs
    BY <1>2, <1>5 DEF OkItems, Satisfied
  <2> QED
    BY <1>1, <1>3, <1>5, <1>6, <2>1 DEF ResumeKept
<1>8. RewindOrder'
  <2>1. pc' = "truncate" => r \in Items
    BY <1>1, Arithmetic
  <2> QED
    BY <1>1, <1>3, <2>1 DEF RewindOrder, Rewinding, IsRedoStart, Satisfied
<1>9. LoopInStep'
  <2> SUFFICES ASSUME r = N + 1 PROVE LoopInStep'
    BY <1>1, Arithmetic DEF LoopInStep, Looping
  <2>1. pc' = "item" /\ idx' = 1 /\ redo' = N + 1
    BY <1>1, Arithmetic
  <2>2. Done' = N
    BY <2>1, Arithmetic DEF Done
  <2>3. Len(msgs') = 2 * N
    <3>1. N \in Items /\ N < r
      BY Arithmetic
    <3>2. 2 * N <= Len(msgs) /\ Len(msgs) <= 2 * N
      BY <1>6, <3>1 DEF ThreadBounded
    <3> QED  BY <1>3, <3>2, Arithmetic
  <2>4. \A i \in Items : fact'[i] = "ok" /\ i <= N
    BY <1>3, <1>5, Arithmetic DEF Satisfied
  <2> QED
    BY <2>1, <2>2, <2>3, <2>4 DEF LoopInStep
<1>10. OutputsAccepted'
  BY <1>2, <1>3 DEF OutputsAccepted
<1>11. OutputsCollected'
  BY <1>1, Arithmetic DEF OutputsCollected, Looping
<1>12. VerdictsInStep'
  <2> SUFFICES ASSUME r = N + 1 PROVE VerdictsInStep'
    BY <1>1, Arithmetic DEF VerdictsInStep, Looping
  <2>1. pc' = "item" /\ idx' = 1 /\ Done' = N
    BY <1>1, Arithmetic DEF Done
  <2> QED
    BY <2>1, Arithmetic DEF VerdictsInStep
<1> QED  BY <1>4, <1>7, <1>8, <1>9, <1>10, <1>11, <1>12

LEMMA TruncateForResumeInv ==
    ASSUME IInv, TruncateForResume
    PROVE  Inv'
<1> USE DEF IInv, Inv
<1>1. /\ pc = "truncate" /\ pc' = "dropFact"
      /\ msgs' = TruncateTo(msgs, 2 * (redo - 1))
      /\ UNCHANGED <<fact, verdict, accepted, idx, outputs, result>>
      /\ UNCHANGED <<redo, completed, recovered>>
  BY DEF TruncateForResume, resumed, attempts
<1>2. redo = idx /\ idx \in Items /\ ~Satisfied(redo)
  BY <1>1 DEF RewindOrder, TypeOK
<1>3. \A i \in Items : i < redo => Satisfied(i)
  BY <1>1 DEF ResumeKept, Resumed
<1>4. Len(msgs) >= 2 * (redo - 1)
  <2>1. CASE redo = 1
    BY <2>1, Arithmetic
  <2>2. CASE redo # 1
    <3>1. redo - 1 \in Items /\ \A j \in 1..(redo - 1) : j \in Items /\ j < redo
      BY <2>2, Arithmetic
    <3> QED  BY <1>3, <3>1 DEF PrefixStored
  <2> QED  BY <2>1, <2>2
<1>5. /\ Len(msgs') = 2 * (redo - 1)
      /\ \A k \in 1..(2 * (redo - 1)) : msgs'[k] = msgs[k]
  <2>1. 2 * (redo - 1) \in Nat /\ msgs \in Seq(Messages)
    BY Arithmetic DEF TypeOK
  <2>2. /\ Len(msgs') = IF Len(msgs) <= 2 * (redo - 1) THEN Len(msgs) ELSE 2 * (redo - 1)
        /\ \A k \in 1..Len(msgs') : msgs'[k] = msgs[k]
    BY <1>1, <2>1, TruncateToKeepsPrefix
  <2>3. Len(msgs') = 2 * (redo - 1)
    <3>1. Len(msgs) <= 2 * (redo - 1) => Len(msgs) = 2 * (redo - 1)
      BY <1>4, Arithmetic
    <3> QED  BY <2>2, <3>1
  <2> QED  BY <2>2, <2>3
<1>6. \A i \in Items : Satisfied(i)' <=> Satisfied(i)
  BY <1>1 DEF Satisfied
<1>7. PrefixStored'
  <2> SUFFICES ASSUME NEW i \in Items, \A j \in 1..i : Satisfied(j)'
               PROVE  2 * i <= Len(msgs')
    BY DEF PrefixStored
  <2>1. \A j \in 1..i : Satisfied(j)
    BY <1>6, Arithmetic
  <2>2. i < redo
    BY <1>2, <2>1, Arithmetic
  <2> QED  BY <1>5, <2>2, Arithmetic
<1>8. OkStored'
  <2> SUFFICES ASSUME NEW i \in Items, fact'[i] = "ok", 2 * i <= Len(msgs')
               PROVE  msgs'[2 * i] = Ai(accepted'[i])
    BY DEF OkStored
  <2>1. 2 * i \in 1..(2 * (redo - 1)) /\ 2 * i <= Len(msgs)
    BY <1>4, <1>5, Arithmetic
  <2> QED  BY <1>1, <1>5, <2>1 DEF OkStored
<1>9. ThreadBounded'
  BY <1>5, Arithmetic DEF ThreadBounded
<1>10. ResumeKept'
  BY <1>1, <1>6 DEF ResumeKept, Resumed
<1>11. RewindOrder'
  BY <1>1, <1>2, <1>5, <1>6, Arithmetic DEF RewindOrder, Rewinding
<1>12. /\ LoopInStep' /\ OutputsAccepted' /\ OutputsCollected' /\ VerdictsInStep'
       /\ PassingVerdictOfAccepted'
  BY <1>1 DEF LoopInStep, OutputsAccepted, OutputsCollected, VerdictsInStep,
     PassingVerdictOfAccepted, Looping
<1> QED  BY <1>7, <1>8, <1>9, <1>10, <1>11, <1>12

LEMMA DropFactInv ==
    ASSUME IInv, DropFact
    PROVE  Inv'
<1> USE DEF IInv, Inv
<1>1. /\ pc = "dropFact" /\ pc' = "dropVerdict"
      /\ fact' = [fact EXCEPT ![idx] = "none"]
      /\ UNCHANGED <<msgs, verdict, accepted, idx, outputs>>
      /\ UNCHANGED <<redo, completed, recovered>>
  BY DEF DropFact, resumed
<1>2. /\ idx \in Items /\ redo \in Items /\ redo <= idx
      /\ fact'[idx] = "none" /\ \A i \in Items : i # idx => fact'[i] = fact[i]
  BY <1>1 DEF RewindOrder, Rewinding, TypeOK
<1>3. \A i \in Items : Satisfied(i)' => Satisfied(i)
  BY <1>1, <1>2 DEF Satisfied
<1>4. PrefixStored'
  <2>1. \A i \in Items : \A j \in 1..i : j \in Items
    BY Arithmetic
  <2> QED  BY <1>1, <1>3, <2>1 DEF PrefixStored
<1>5. OkStored' /\ ThreadBounded' /\ PassingVerdictOfAccepted'
  BY <1>1, <1>2 DEF OkStored, ThreadBounded, PassingVerdictOfAccepted
<1>6. ResumeKept'
  BY <1>1, <1>2, Arithmetic DEF ResumeKept, Resumed, Rewinding, Satisfied
<1>7. RewindOrder'
  BY <1>1, <1>2, <1>3, Arithmetic DEF RewindOrder, Rewinding
<1>8. LoopInStep' /\ OutputsAccepted' /\ OutputsCollected' /\ VerdictsInStep'
  BY <1>1 DEF LoopInStep, OutputsAccepted, OutputsCollected, VerdictsInStep, Looping
<1> QED  BY <1>4, <1>5, <1>6, <1>7, <1>8

LEMMA DropVerdictInv ==
    ASSUME IInv, DropVerdict
    PROVE  Inv'
<1> USE DEF IInv, Inv
<1>1. /\ pc = "dropVerdict"
      /\ verdict' = [verdict EXCEPT ![idx] = NoVerdict]
      /\ UNCHANGED <<msgs, fact, accepted, outputs>>
      /\ UNCHANGED <<redo, completed, recovered>>
      /\ IF idx = N THEN pc' = "item" /\ idx' = 1
         ELSE pc' = "dropFact" /\ idx' = idx + 1
  BY DEF DropVerdict, resumed
<1>2. /\ idx \in Items /\ redo \in Items /\ redo <= idx /\ fact[idx] = "none"
      /\ verdict'[idx].status = "none"
      /\ \A i \in Items : i # idx => verdict'[i] = verdict[i]
  BY <1>1 DEF RewindOrder, Rewinding, TypeOK, NoVerdict
<1>3. \A i \in Items : Satisfied(i)' <=> Satisfied(i)
  BY <1>1, <1>2 DEF Satisfied
<1>4. /\ ~Satisfied(redo) /\ Len(msgs) = 2 * (redo - 1)
      /\ \A i \in Items : i < redo => Satisfied(i)
      /\ \A i \in Items : (redo <= i /\ i < idx) =>
            fact[i] = "none" /\ verdict[i].status = "none"
  BY <1>1 DEF RewindOrder, Rewinding, ResumeKept, Resumed
<1>5. PrefixStored'
  <2>1. \A i \in Items : \A j \in 1..i : j \in Items
    BY Arithmetic
  <2> QED  BY <1>1, <1>3, <2>1 DEF PrefixStored
<1>6. OkStored' /\ ThreadBounded' /\ PassingVerdictOfAccepted'
  BY <1>1, <1>2 DEF OkStored, ThreadBounded, PassingVerdictOfAccepted
<1>7. ResumeKept'
  BY <1>1, <1>3 DEF ResumeKept, Resumed, Rewinding
<1>8. RewindOrder'
  BY <1>1, <1>2, <1>3, <1>4, Arithmetic DEF RewindOrder, Rewinding
<1>9. pc' # "item" => LoopInStep' /\ OutputsCollected' /\ VerdictsInStep'
  BY <1>1 DEF LoopInStep, OutputsCollected, VerdictsInStep, Looping
<1>10. ASSUME pc' = "item"
       PROVE  LoopInStep' /\ OutputsCollected' /\ VerdictsInStep'
  <2>1. idx = N /\ idx' = 1 /\ Done' = redo - 1
    BY <1>1, <1>10, Arithmetic DEF Done
  <2>2. LoopInStep'
    BY <1>1, <1>2, <1>4, <1>10, <2>1, Arithmetic, SMTT(20) DEF LoopInStep, Satisfied
  <2>3. OutputsCollected'
    BY <1>10, <2>1, Arithmetic DEF OutputsCollected
  <2>4. VerdictsInStep'
    <3>1. \A i \in Items : redo - 1 < i => verdict'[i].status = "none"
      BY <1>2, <1>4, <2>1, Arithmetic
    <3> QED  BY <1>10, <2>1, <3>1 DEF VerdictsInStep
  <2> QED  BY <2>2, <2>3, <2>4
<1>11. OutputsAccepted'
  BY <1>1 DEF OutputsAccepted
<1> QED  BY <1>5, <1>6, <1>7, <1>8, <1>9, <1>10, <1>11

\* Where an attempt is being made: the items before the one at hand, and no
\* other, have their ok facts.
LEMMA AttemptFacts ==
    ASSUME IInv, pc \in {"call", "validate", "decide", "error"}
    PROVE  /\ idx \in Items /\ redo <= idx /\ Done = idx - 1
           /\ \A i \in Items : fact[i] = "ok" <=> i < idx
           /\ pc = "call" => Len(msgs) = 2 * (idx - 1)
           /\ pc \in {"validate", "decide"} =>
                 Len(msgs) = 2 * idx /\ msgs[2 * idx] = Ai(Current)
           /\ pc = "error" => Len(msgs) \in {2 * (idx - 1), 2 * idx}
           /\ pc # "error" => lenBefore = 2 * (idx - 1)
<1>1. LoopInStep /\ TypeOK /\ pc \in Looping /\ pc # "item"
  BY DEF IInv, Inv, Looping
<1>2. idx \in Items /\ redo <= idx /\ Done = idx - 1
  BY <1>1, Arithmetic DEF TypeOK, LoopInStep
<1>3. \A i \in Items : fact[i] = "ok" <=> i < idx
  BY <1>1, <1>2, Arithmetic DEF LoopInStep
<1> QED  BY <1>1, <1>2, <1>3 DEF LoopInStep

\* A step that leaves facts and accepted answers alone, and verdicts but for
\* the item at hand, keeps what resume computed and what outputs report.
LEMMA AttemptKeepsRun ==
    ASSUME IInv, pc \in {"call", "validate", "decide", "error"},
           pc' \in {"call", "validate", "decide", "error"},
           UNCHANGED <<fact, accepted, idx, redo, completed, recovered, outputs>>,
           \A i \in Items : i # idx => verdict'[i] = verdict[i]
    PROVE  /\ ResumeKept' /\ RewindOrder' /\ OutputsAccepted' /\ OutputsCollected'
           /\ Done' = Done
           /\ PassingVerdictOfAccepted'
           /\ \A i \in Items : (\A j \in 1..i : Satisfied(j)') => i < idx
<1> USE DEF IInv, Inv
<1>1. idx \in Items /\ redo <= idx /\ \A i \in Items : fact[i] = "ok" <=> i < idx
  BY AttemptFacts
<1>2. ResumeKept'
  <2>1. \A i \in Items : i < redo => i # idx
    BY <1>1, Arithmetic
  <2>2. \A i \in Items : i < redo => Satisfied(i)'
    BY <2>1 DEF ResumeKept, Resumed, Looping, Satisfied
  <2> QED  BY <2>2 DEF ResumeKept, Resumed, Looping
<1>3. RewindOrder' /\ OutputsAccepted' /\ OutputsCollected'
  BY DEF RewindOrder, Rewinding, OutputsAccepted, OutputsCollected, Looping
<1>4. Done' = Done
  BY DEF Done
<1>5. PassingVerdictOfAccepted'
  <2>1. \A i \in Items : fact'[i] = "ok" => verdict'[i] = verdict[i]
    BY <1>1, Arithmetic
  <2> QED  BY <2>1 DEF PassingVerdictOfAccepted
<1>6. ASSUME NEW i \in Items, \A j \in 1..i : Satisfied(j)'
      PROVE  i < idx
  <2>1. i \in 1..i /\ i \in Nat
    BY Arithmetic
  <2>2. fact[i] = "ok"
    BY <1>6, <2>1 DEF Satisfied
  <2> QED  BY <1>1, <2>2
<1> QED  BY <1>2, <1>3, <1>4, <1>5, <1>6

\* The same for the thread, which an attempt only changes behind the turns of
\* the items before it.
LEMMA AttemptKeepsThread ==
    ASSUME IInv, pc \in {"call", "validate", "decide", "error"},
           UNCHANGED <<fact, accepted, idx>>,
           \A i \in Items : (\A j \in 1..i : Satisfied(j)') => i < idx,
           Len(msgs') \in {2 * (idx - 1), 2 * idx},
           \A k \in 1..(2 * (idx - 1)) : msgs'[k] = msgs[k]
    PROVE  PrefixStored' /\ OkStored' /\ ThreadBounded'
<1> USE DEF IInv, Inv
<1>1. idx \in Items /\ \A i \in Items : fact[i] = "ok" <=> i < idx
  BY AttemptFacts
<1>2. PrefixStored'
  BY <1>1, Arithmetic DEF PrefixStored
<1>3. OkStored'
  <2> SUFFICES ASSUME NEW i \in Items, fact'[i] = "ok", 2 * i <= Len(msgs')
               PROVE  msgs'[2 * i] = Ai(accepted'[i])
    BY DEF OkStored
  <2>1. i < idx /\ i \in Nat /\ i >= 1 /\ idx \in Nat
    BY <1>1, Arithmetic
  <2>2. 2 * i \in 1..(2 * (idx - 1))
    BY <2>1
  <2>3. Len(msgs) >= 2 * (idx - 1)
    BY <2>1, AttemptFacts
  <2>4. 2 * i <= Len(msgs)
    BY <2>1, <2>3, Arithmetic
  <2> QED  BY <2>2, <2>4 DEF OkStored
<1>4. ThreadBounded'
  BY <1>1, Arithmetic DEF ThreadBounded
<1> QED  BY <1>2, <1>3, <1>4

LEMMA SkipItemInv ==
    ASSUME IInv, SkipItem
    PROVE  Inv'
<1> USE DEF IInv, Inv
<1>1. /\ pc = "item" /\ pc' = "item" /\ idx \in Items /\ idx \in completed
      /\ UNCHANGED <<store, redo, completed, recovered, result>>
      /\ idx' = idx + 1
  BY DEF SkipItem, resumed, attempts
<1>2. UNCHANGED <<msgs, fact, verdict, accepted>>
  BY <1>1 DEF store
<1>3. idx < redo /\ 2 * idx <= Len(recovered) /\ recovered[2 * idx] = Ai(accepted[idx])
  BY <1>1, Arithmetic DEF ResumeKept, Resumed, Looping
<1>4. /\ outputs'[idx].kind # "none" /\ outputs'[idx].response = accepted[idx]
      /\ \A i \in Items : i # idx => outputs'[i] = outputs[i]
  <2>1. RecoveredResponse(recovered, idx) = accepted[idx]
    BY <1>3 DEF RecoveredResponse, Ai
  <2>2. outputs \in [Items -> Outputs]
    BY DEF TypeOK
  <2> QED  BY <1>1, <2>1, <2>2 DEF SkipItem
<1>5. PrefixStored' /\ OkStored' /\ ThreadBounded' /\ PassingVerdictOfAccepted'
  BY <1>1, StoreInvStable
<1>6. ResumeKept' /\ RewindOrder'
  BY <1>1, <1>2 DEF ResumeKept, RewindOrder, Resumed, Looping, Rewinding, Satisfied
<1>7. Done' = Done
  BY <1>1, <1>3, Arithmetic DEF Done
<1>8. LoopInStep'
  BY <1>1, <1>2, <1>7 DEF LoopInStep, Looping
<1>9. OutputsAccepted'
  BY <1>2, <1>4 DEF OutputsAccepted
<1>10. OutputsCollected'
  BY <1>1, <1>4, Arithmetic DEF OutputsCollected, Looping
<1>11. VerdictsInStep'
  <2>1. Done = redo - 1
    BY <1>3 DEF Done
  <2>2. \A i \in Items : Done < i => verdict[i].status = "none"
    BY <1>1, <1>3, <2>1, Arithmetic DEF VerdictsInStep, Looping
  <2> QED  BY <1>1, <1>2, <1>7, <2>2 DEF VerdictsInStep
<1> QED  BY <1>5, <1>6, <1>8, <1>9, <1>10, <1>11

LEMMA BeginItemInv ==
    ASSUME ValidationAware, IInv, BeginItem
    PROVE  Inv'
<1> USE DEF IInv, Inv
<1>1. /\ pc = "item" /\ pc' = "call" /\ idx \in Items /\ idx \notin completed
      /\ UNCHANGED <<store, idx, redo, completed, recovered, outputs>>
      /\ lenBefore' = IF mode.retries > 0 THEN Len(msgs) ELSE 0
  BY DEF BeginItem, resumed
<1>2. UNCHANGED <<msgs, fact, verdict, accepted>>
  BY <1>1 DEF store
<1>3. lenBefore' = Len(msgs)
  BY <1>1 DEF ValidationAware, TypeOK
<1>4. redo <= idx /\ Done = idx - 1 /\ Done' = Done
  BY <1>1, Arithmetic DEF ResumeKept, Resumed, Looping, Done
<1>5. PrefixStored' /\ OkStored' /\ ThreadBounded' /\ PassingVerdictOfAccepted'
  BY <1>1, StoreInvStable
<1>6. ResumeKept' /\ RewindOrder'
  BY <1>1, <1>2 DEF ResumeKept, RewindOrder, Resumed, Looping, Rewinding, Satisfied
<1>7. LoopInStep'
  BY <1>1, <1>2, <1>3, <1>4 DEF LoopInStep, Looping
<1>8. OutputsAccepted' /\ OutputsCollected'
  BY <1>1, <1>2 DEF OutputsAccepted, OutputsCollected, Looping
<1>9. VerdictsInStep'
  <2>1. Done < idx
    BY <1>4, Arithmetic
  <2> QED  BY <1>1, <1>2, <1>4, <2>1 DEF VerdictsInStep, Looping
<1> QED  BY <1>5, <1>6, <1>7, <1>8, <1>9

\* The turn of the attempt lands right behind the turns of the items done.
LEMMA TurnOfCurrent ==
    ASSUME IInv, pc = "call"
    PROVE  /\ Len(msgs \o Turn(Current)) = 2 * idx
           /\ (msgs \o Turn(Current))[2 * idx] = Ai(Current)
           /\ \A k \in 1..(2 * (idx - 1)) : (msgs \o Turn(Current))[k] = msgs[k]
<1>1. Current \in Answers /\ msgs \in Seq(Messages)
  BY CurrentType DEF IInv, TypeOK
<1>2. Len(msgs) = 2 * (idx - 1) /\ idx \in Nat
  BY AttemptFacts, Arithmetic DEF IInv
<1>3. Len(msgs) + 2 = 2 * idx
  BY <1>2
<1> QED  BY <1>1, <1>2, <1>3, TurnAppended

LEMMA CallModelInv ==
    ASSUME ValidationAware, IInv, CallModel
    PROVE  Inv'
<1> USE DEF IInv, Inv
<1>1. /\ pc = "call" /\ pc' \in {"validate", "decide"}
      /\ (pc' = "validate" \/ ~mode.validator)
      /\ msgs' = ApplyRetention(msgs \o Turn(Current))
      /\ UNCHANGED <<fact, verdict, accepted, idx, redo, completed, recovered, outputs>>
      /\ UNCHANGED <<mode, run, attempt, lenBefore, result>>
  BY DEF CallModel, attempts, resumed
<1>2. mode.validator
  BY ConstantsAssumption DEF ValidationAware, TypeOK
<1>3. pc' = "validate"
  BY <1>1, <1>2
<1>4. msgs' = msgs \o Turn(Current)
  BY <1>1 DEF ApplyRetention, ValidationAware
<1>5. /\ Len(msgs') = 2 * idx /\ msgs'[2 * idx] = Ai(Current)
      /\ \A k \in 1..(2 * (idx - 1)) : msgs'[k] = msgs[k]
  BY <1>1, <1>4, TurnOfCurrent
<1>6. Current' = Current
  BY <1>1 DEF Current
<1>7. /\ ResumeKept' /\ RewindOrder' /\ OutputsAccepted' /\ OutputsCollected'
      /\ Done' = Done /\ PassingVerdictOfAccepted'
      /\ \A i \in Items : (\A j \in 1..i : Satisfied(j)') => i < idx
  BY <1>1, AttemptKeepsRun
<1>8. PrefixStored' /\ OkStored' /\ ThreadBounded'
  BY <1>1, <1>5, <1>7, AttemptKeepsThread
<1>9. LoopInStep'
  BY <1>1, <1>3, <1>5, <1>6, <1>7, AttemptFacts DEF LoopInStep, Looping
<1>10. VerdictsInStep'
  BY <1>1, <1>3, <1>7 DEF VerdictsInStep, Looping
<1> QED  BY <1>7, <1>8, <1>9, <1>10

LEMMA CallModelRaisesInv ==
    ASSUME IInv, CallModelRaises
    PROVE  Inv'
<1> USE DEF IInv, Inv
<1>1. /\ pc = "call" /\ pc' = "error"
      /\ UNCHANGED <<fact, verdict, accepted, idx, redo, completed, recovered, outputs>>
      /\ UNCHANGED msgs
  BY DEF CallModelRaises, store, resumed
<1>2. /\ ResumeKept' /\ RewindOrder' /\ OutputsAccepted' /\ OutputsCollected'
      /\ Done' = Done /\ PassingVerdictOfAccepted'
      /\ \A i \in Items : (\A j \in 1..i : Satisfied(j)') => i < idx
  BY <1>1, AttemptKeepsRun
<1>3. PrefixStored' /\ OkStored' /\ ThreadBounded'
  BY <1>1, <1>2, AttemptFacts, AttemptKeepsThread
<1>4. LoopInStep' /\ VerdictsInStep'
  BY <1>1, <1>2 DEF LoopInStep, VerdictsInStep, Looping
<1> QED  BY <1>2, <1>3, <1>4

LEMMA CallModelRaisesLateInv ==
    ASSUME IInv, CallModelRaisesLate
    PROVE  Inv'
<1> USE DEF IInv, Inv
<1>1. /\ pc = "call" /\ pc' = "error"
      /\ UNCHANGED <<fact, verdict, accepted, idx, redo, completed, recovered, outputs>>
      /\ msgs' = msgs \o Turn(Current)
  BY DEF CallModelRaisesLate, resumed
<1>2. /\ ResumeKept' /\ RewindOrder' /\ OutputsAccepted' /\ OutputsCollected'
      /\ Done' = Done /\ PassingVerdictOfAccepted'
      /\ \A i \in Items : (\A j \in 1..i : Satisfied(j)') => i < idx
  BY <1>1, AttemptKeepsRun
<1>3. PrefixStored' /\ OkStored' /\ ThreadBounded'
  BY <1>1, <1>2, TurnOfCurrent, AttemptKeepsThread
<1>4. LoopInStep' /\ VerdictsInStep'
  BY <1>1, <1>2, TurnOfCurrent DEF LoopInStep, VerdictsInStep, Looping
<1> QED  BY <1>2, <1>3, <1>4

LEMMA ValidateItemInv ==
    ASSUME IInv, NEW status \in {"pass", "fail"}, ValidateItem(status)
    PROVE  Inv'
<1> USE DEF IInv, Inv
<1>1. /\ pc = "validate" /\ pc' = "decide" /\ result' = status
      /\ verdict' = [verdict EXCEPT ![idx] = [status |-> status, of |-> Current]]
      /\ UNCHANGED <<fact, accepted, idx, redo, completed, recovered, outputs>>
      /\ UNCHANGED <<msgs, run, attempt, lenBefore>>
  BY DEF ValidateItem, resumed
<1>2. idx \in Items
  BY <1>1, AttemptFacts
<1>3. /\ verdict'[idx] = [status |-> result', of |-> Current'] /\ result' # "none"
      /\ \A i \in Items : i # idx => verdict'[i] = verdict[i]
      /\ Current' = Current
  BY <1>1, <1>2 DEF TypeOK, Current
<1>4. /\ ResumeKept' /\ RewindOrder' /\ OutputsAccepted' /\ OutputsCollected'
      /\ Done' = Done /\ PassingVerdictOfAccepted'
      /\ \A i \in Items : (\A j \in 1..i : Satisfied(j)') => i < idx
  BY <1>1, <1>3, AttemptKeepsRun
<1>5. PrefixStored' /\ OkStored' /\ ThreadBounded'
  BY <1>1, <1>4, AttemptFacts, AttemptKeepsThread
<1>6. LoopInStep'
  BY <1>1, <1>3, <1>4 DEF LoopInStep, Looping
<1>7. VerdictsInStep'
  BY <1>1, <1>3, <1>4 DEF VerdictsInStep, Looping
<1> QED  BY <1>4, <1>5, <1>6, <1>7

LEMMA ValidateItemRaisesInv ==
    ASSUME IInv, ValidateItemRaises
    PROVE  Inv'
<1> USE DEF IInv, Inv
<1>1. /\ pc = "validate" /\ pc' = "decide" /\ result' = "none"
      /\ UNCHANGED <<fact, verdict, accepted, idx, redo, completed, recovered, outputs>>
      /\ UNCHANGED <<msgs, run, attempt, lenBefore>>
  BY DEF ValidateItemRaises, store, resumed
<1>2. Current' = Current
  BY <1>1 DEF Current
<1>3. /\ ResumeKept' /\ RewindOrder' /\ OutputsAccepted' /\ OutputsCollected'
      /\ Done' = Done /\ PassingVerdictOfAccepted'
      /\ \A i \in Items : (\A j \in 1..i : Satisfied(j)') => i < idx
  BY <1>1, AttemptKeepsRun
<1>4. PrefixStored' /\ OkStored' /\ ThreadBounded'
  BY <1>1, <1>3, AttemptFacts, AttemptKeepsThread
<1>5. LoopInStep' /\ VerdictsInStep'
  BY <1>1, <1>2, <1>3 DEF LoopInStep, VerdictsInStep, Looping
<1> QED  BY <1>3, <1>4, <1>5

LEMMA RejectAnswerInv ==
    ASSUME ValidationAware, IInv, RejectAnswer
    PROVE  Inv'
<1> USE DEF IInv, Inv
<1>1. /\ pc = "decide" /\ pc' = "call" /\ result = "fail"
      /\ msgs' = TruncateTo(msgs, lenBefore) /\ lenBefore' = Len(msgs')
      /\ UNCHANGED <<fact, verdict, accepted, idx, redo, completed, recovered, outputs>>
  BY DEF RejectAnswer, IsFinal, resumed
<1>2. lenBefore = 2 * (idx - 1) /\ Len(msgs) = 2 * idx /\ idx \in Nat /\ idx >= 1
  BY <1>1, AttemptFacts, Arithmetic
<1>3. /\ Len(msgs') = 2 * (idx - 1)
      /\ \A k \in 1..(2 * (idx - 1)) : msgs'[k] = msgs[k]
  <2>1. /\ Len(msgs') = IF Len(msgs) <= lenBefore THEN Len(msgs) ELSE lenBefore
        /\ \A k \in 1..Len(msgs') : msgs'[k] = msgs[k]
    BY <1>1, TruncateToKeepsPrefix DEF TypeOK
  <2> QED  BY <1>2, <2>1
<1>4. /\ ResumeKept' /\ RewindOrder' /\ OutputsAccepted' /\ OutputsCollected'
      /\ Done' = Done /\ PassingVerdictOfAccepted'
      /\ \A i \in Items : (\A j \in 1..i : Satisfied(j)') => i < idx
  BY <1>1, AttemptKeepsRun
<1>5. PrefixStored' /\ OkStored' /\ ThreadBounded'
  BY <1>1, <1>3, <1>4, AttemptKeepsThread
<1>6. LoopInStep'
  BY <1>1, <1>3, <1>4, AttemptFacts DEF LoopInStep, Looping
<1>7. VerdictsInStep'
  <2>1. verdict[idx] = [status |-> "fail", of |-> Current]
    BY <1>1 DEF VerdictsInStep, Looping
  <2> QED  BY <1>1, <1>4, <2>1 DEF VerdictsInStep, Looping
<1> QED  BY <1>4, <1>5, <1>6, <1>7

LEMMA RejectAnswerRaisesInv ==
    ASSUME IInv, RejectAnswerRaises
    PROVE  Inv'
<1> USE DEF IInv, Inv
<1>1. /\ pc = "decide" /\ pc' = "error"
      /\ UNCHANGED <<fact, verdict, accepted, idx, redo, completed, recovered, outputs>>
      /\ UNCHANGED msgs
  BY DEF RejectAnswerRaises, store, resumed
<1>2. /\ ResumeKept' /\ RewindOrder' /\ OutputsAccepted' /\ OutputsCollected'
      /\ Done' = Done /\ PassingVerdictOfAccepted'
      /\ \A i \in Items : (\A j \in 1..i : Satisfied(j)') => i < idx
  BY <1>1, AttemptKeepsRun
<1>3. PrefixStored' /\ OkStored' /\ ThreadBounded'
  BY <1>1, <1>2, AttemptFacts, AttemptKeepsThread
<1>4. LoopInStep' /\ VerdictsInStep'
  BY <1>1, <1>2, AttemptFacts DEF LoopInStep, VerdictsInStep, Looping
<1> QED  BY <1>2, <1>3, <1>4

LEMMA AcceptAnswerInv ==
    ASSUME IInv, AcceptAnswer
    PROVE  Inv'
<1> USE DEF IInv, Inv
<1>1. /\ pc = "decide" /\ pc' = "item" /\ idx' = idx + 1
      /\ UNCHANGED <<msgs, verdict, redo, completed, recovered>>
  BY DEF AcceptAnswer, resumed
<1>2. /\ idx \in Items /\ redo <= idx /\ Done = idx - 1
      /\ \A i \in Items : fact[i] = "ok" <=> i < idx
      /\ Len(msgs) = 2 * idx /\ msgs[2 * idx] = Ai(Current)
  BY <1>1, AttemptFacts
<1>3. /\ fact'[idx] = "ok" /\ accepted'[idx] = Current
      /\ outputs'[idx].kind = "answered" /\ outputs'[idx].response = Current
      /\ \A i \in Items : i # idx =>
            /\ fact'[i] = fact[i] /\ accepted'[i] = accepted[i]
            /\ outputs'[i] = outputs[i]
  BY <1>2 DEF AcceptAnswer, TypeOK
<1>4. \A i \in Items : fact'[i] = "ok" <=> i <= idx
  BY <1>2, <1>3, Arithmetic
<1>5. PrefixStored'
  <2> SUFFICES ASSUME NEW i \in Items, \A j \in 1..i : Satisfied(j)'
               PROVE  2 * i <= Len(msgs')
    BY DEF PrefixStored
  <2>1. i \in 1..i /\ i \in Nat
    BY Arithmetic
  <2>2. i <= idx
    BY <1>4, <2>1 DEF Satisfied
  <2> QED  BY <1>1, <1>2, <2>1, <2>2, Arithmetic
<1>6. OkStored'
  <2> SUFFICES ASSUME NEW i \in Items, fact'[i] = "ok", 2 * i <= Len(msgs')
               PROVE  msgs'[2 * i] = Ai(accepted'[i])
    BY DEF OkStored
  <2>1. CASE i = idx
    BY <1>1, <1>2, <1>3, <2>1
  <2>2. CASE i # idx
    BY <1>1, <1>3, <2>2 DEF OkStored
  <2> QED  BY <2>1, <2>2
<1>7. ThreadBounded'
  BY <1>1 DEF ThreadBounded
<1>8. ResumeKept'
  <2>1. \A i \in Items : i < redo => i # idx
    BY <1>2, Arithmetic
  <2>2. \A i \in Items : i < redo => Satisfied(i)'
    BY <1>1, <1>3, <2>1 DEF ResumeKept, Resumed, Looping, Satisfied
  <2> QED  BY <1>1, <1>3, <2>1, <2>2 DEF ResumeKept, Resumed, Looping
<1>9. RewindOrder'
  BY <1>1 DEF RewindOrder, Rewinding
<1>10. Done' = idx
  BY <1>1, <1>2, Arithmetic DEF Done
<1>11. LoopInStep'
  BY <1>1, <1>2, <1>4, <1>10 DEF LoopInStep
<1>12. OutputsAccepted'
  BY <1>3 DEF OutputsAccepted
<1>13. OutputsCollected'
  BY <1>1, <1>2, <1>3, Arithmetic DEF OutputsCollected, Looping
<1>14. VerdictsInStep'
  <2>1. \A i \in Items : idx < i => verdict[i].status = "none"
    BY <1>1, <1>2, Arithmetic, SMTT(20) DEF VerdictsInStep, Looping
  <2> QED  BY <1>1, <1>10, <2>1 DEF VerdictsInStep
<1>15. PassingVerdictOfAccepted'
  <2> SUFFICES ASSUME NEW i \in Items, fact'[i] = "ok", verdict'[i].status = "pass"
               PROVE  verdict'[i].of = accepted'[i]
    BY DEF PassingVerdictOfAccepted
  <2>1. CASE i = idx
    <3>1. IF result = "none" THEN verdict[idx].status # "pass"
          ELSE verdict[idx] = [status |-> result, of |-> Current]
      BY <1>1 DEF VerdictsInStep, Looping
    <3> QED  BY <1>1, <1>3, <2>1, <3>1
  <2>2. CASE i # idx
    BY <1>1, <1>3, <2>2 DEF PassingVerdictOfAccepted
  <2> QED  BY <2>1, <2>2
<1> QED  BY <1>5, <1>6, <1>7, <1>8, <1>9, <1>11, <1>12, <1>13, <1>14, <1>15

LEMMA NextInv ==
    ASSUME ValidationAware, IInv, [Next]_vars
    PROVE  Inv'
<1>1. CASE UNCHANGED vars
  BY <1>1 DEF IInv, Inv, PrefixStored, OkStored, ThreadBounded, ResumeKept, RewindOrder,
     LoopInStep, OutputsAccepted, OutputsCollected, VerdictsInStep,
     PassingVerdictOfAccepted, Satisfied, Done, Current, vars, store, attempts, resumed
<1>2. CASE ResumeObserveOnly
  <2>1. mode.retries # 0
    BY ConstantsAssumption DEF IInv, TypeOK, ValidationAware, ModeSet
  <2> QED  BY <1>2, <2>1 DEF ResumeObserveOnly
<1>3. Inv
  BY DEF IInv
<1> QED
  BY <1>1, <1>2, <1>3, StartRunInv, CrashInv, ResumeInv, TruncateForResumeInv,
     DropFactInv, DropVerdictInv, SkipItemInv, BeginItemInv, CallModelInv,
     CallModelRaisesInv, CallModelRaisesLateInv, ValidateItemInv,
     ValidateItemRaisesInv, AcceptAnswerInv, RejectAnswerInv, RejectAnswerRaisesInv,
     RecordErrorInv, ReturnOutputsInv DEF Next, Step

-----------------------------------------------------------------------------
(* The theorems about validation-aware resume.                             *)

\* IInv holds throughout every validation-aware execution.
THEOREM Invariance ==
    ASSUME ValidationAware
    PROVE  Spec => []IInv
<1>1. Init => IInv
  BY InitTypeOK, InitInv DEF IInv
<1>2. IInv /\ [Next]_vars => IInv'
  BY NextTypeOK, NextInv DEF IInv
<1> QED  BY <1>1, <1>2, PTL DEF Spec

\* An item a resumed run skips is reported with the answer its ok fact
\* recorded, whatever calls failed and wherever earlier processes died.
THEOREM ResumeReportsAccepted ==
    ASSUME ValidationAware
    PROVE  Spec => []SkippedIsAccepted
<1>1. IInv => SkippedIsAccepted
  BY DEF IInv, Inv, OutputsAccepted, SkippedIsAccepted
<1> QED  BY <1>1, Invariance, PTL

\* The history a prompt is built from holds one turn per earlier item, its
\* accepted answer: no turn of a rejected, failed or crashed attempt leaks in.
THEOREM PromptsSeeAccepted ==
    ASSUME ValidationAware
    PROVE  Spec => []PromptHistoryIsAccepted
<1>1. IInv => PromptHistoryIsAccepted
  <2> SUFFICES ASSUME IInv, pc = "call"
               PROVE  /\ Len(msgs) = 2 * (idx - 1)
                      /\ \A i \in 1..(idx - 1) : msgs[2 * i] = Ai(accepted[i])
    BY DEF PromptHistoryIsAccepted, Ai
  <2>1. /\ Len(msgs) = 2 * (idx - 1) /\ idx \in Items
        /\ \A i \in Items : fact[i] = "ok" <=> i < idx
    BY AttemptFacts
  <2>2. ASSUME NEW i \in 1..(idx - 1)
        PROVE  msgs[2 * i] = Ai(accepted[i])
    <3>1. i \in Items /\ i < idx /\ 2 * i <= Len(msgs)
      BY <2>1, Arithmetic DEF IInv
    <3> QED  BY <2>1, <3>1 DEF IInv, Inv, OkStored
  <2> QED  BY <2>1, <2>2
<1> QED  BY <1>1, Invariance, PTL

\* A run that returns leaves one (human, AI) pair per item in the thread, and
\* its outputs report exactly those answers.
THEOREM ReturnedRunIsStored ==
    ASSUME ValidationAware
    PROVE  Spec => []ReturnedThreadMatchesOutputs
<1>1. IInv => ReturnedThreadMatchesOutputs
  <2> SUFFICES ASSUME IInv, pc = "returned"
               PROVE  /\ Len(msgs) = 2 * N
                      /\ \A i \in Items :
                            /\ outputs[i].kind # "none"
                            /\ msgs[2 * i] = Ai(outputs[i].response)
    BY DEF ReturnedThreadMatchesOutputs, Ai
  <2>1. /\ Len(msgs) = 2 * N
        /\ \A i \in Items : fact[i] = "ok" /\ outputs[i].kind # "none"
    BY DEF IInv, Inv, OutputsCollected
  <2>2. \A i \in Items : 2 * i <= Len(msgs)
    BY <2>1, Arithmetic DEF IInv
  <2> QED  BY <2>1, <2>2 DEF IInv, Inv, OkStored, OutputsAccepted
<1> QED  BY <1>1, Invariance, PTL

\* A stored passing verdict is about the answer its item's ok fact accepted,
\* even when the scorer fails between attempts.
THEOREM PassingVerdictsAreCurrent ==
    ASSUME ValidationAware
    PROVE  Spec => []PassingVerdictOfAccepted
<1>1. IInv => PassingVerdictOfAccepted
  BY DEF IInv, Inv
<1> QED  BY <1>1, Invariance, PTL

\* A step that changes the fact or the verdict of one item only, an item that
\* is not satisfied, keeps every satisfied prefix satisfied.
LEMMA PrefixUntouched ==
    ASSUME IInv, NEW x \in Items, ~Satisfied(x),
           \A i \in Items : i # x => fact'[i] = fact[i] /\ verdict'[i] = verdict[i]
    PROVE  \A i \in Items :
              (\A j \in 1..i : Satisfied(j)) => (\A j \in 1..i : Satisfied(j)')
<1>1. \A i \in Items : \A j \in 1..i : j \in Items
  BY Arithmetic DEF IInv
<1> QED  BY <1>1 DEF Satisfied

LEMMA RewindSparesDone ==
    ASSUME IInv, NEW x \in Items, NEW r \in Items, r <= x, ~Satisfied(r),
           \A i \in Items : i # x => fact'[i] = fact[i] /\ verdict'[i] = verdict[i]
    PROVE  \A i \in Items :
              (\A j \in 1..i : Satisfied(j)) => (\A j \in 1..i : Satisfied(j)')
<1> SUFFICES ASSUME NEW i \in Items, \A j \in 1..i : Satisfied(j), NEW j \in 1..i
             PROVE  Satisfied(j)'
  OBVIOUS
<1>1. i < r
  BY Arithmetic DEF IInv
<1>2. j \in Items /\ j # x
  BY <1>1, Arithmetic DEF IInv
<1> QED  BY <1>2 DEF Satisfied

\* Work that is done and good stays done: no rewind, retry, failure or crash
\* takes an item out of the satisfied prefix of the thread.
THEOREM DoneIsNeverUndone ==
    ASSUME ValidationAware
    PROVE  Spec => DoneStaysDone
<1> DEFINE Kept == \A i \in Items :
               (\A j \in 1..i : Satisfied(j)) => (\A j \in 1..i : Satisfied(j)')
<1>1. ASSUME IInv, [Next]_vars PROVE [Kept]_vars
  <2> USE <1>1
  <2>1. UNCHANGED <<fact, verdict>> => Kept
    BY DEF Satisfied
  <2>2. CASE DropFact \/ DropVerdict
    <3>1. /\ idx \in Items /\ redo \in Items /\ redo <= idx /\ ~Satisfied(redo)
      BY <2>2 DEF IInv, Inv, TypeOK, DropFact, DropVerdict, RewindOrder, Rewinding
    <3>2. \A i \in Items : i # idx => fact'[i] = fact[i] /\ verdict'[i] = verdict[i]
      BY <2>2 DEF DropFact, DropVerdict, IInv, TypeOK
    <3> QED  BY <3>1, <3>2, RewindSparesDone
  <2>3. ASSUME pc \in {"validate", "decide", "error"},
               \A i \in Items : i # idx => fact'[i] = fact[i] /\ verdict'[i] = verdict[i]
        PROVE  Kept
    <3>1. pc \in {"call", "validate", "decide", "error"}
      BY <2>3
    <3>2. idx \in Items /\ (fact[idx] = "ok" <=> idx < idx)
      BY <3>1, AttemptFacts
    <3>3. ~Satisfied(idx)
      BY <3>2, Arithmetic DEF IInv, Satisfied
    <3> QED  BY <2>3, <3>2, <3>3, PrefixUntouched
  <2>4. CASE \E status \in {"pass", "fail"} : ValidateItem(status)
    BY <2>3, <2>4 DEF ValidateItem, IInv, TypeOK
  <2>5. CASE AcceptAnswer \/ RecordError
    BY <2>3, <2>5 DEF AcceptAnswer, RecordError, IInv, TypeOK
  <2> QED
    BY <2>1, <2>2, <2>4, <2>5 DEF Next, Step, StartRun, Crash, ResumeObserveOnly,
       ResumeValidationAware, TruncateForResume, SkipItem, BeginItem, CallModel,
       CallModelRaises, CallModelRaisesLate, ValidateItemRaises, RejectAnswer,
       RejectAnswerRaises, ReturnOutputs, store
<1>2. IInv /\ [Next]_vars => [Kept]_vars
  BY <1>1
<1> QED  BY <1>2, Invariance, PTL DEF Spec, DoneStaysDone, Kept

-----------------------------------------------------------------------------
(* One pair per item, and the verdict of the accepted answer.              *)

\* An AI message stands at its item's place, and nowhere else.
AiInPlace ==
    \A k \in 1..Len(msgs) : msgs[k].role = "ai" => k = 2 * msgs[k].of.item

LEMMA AiStaysInPlace ==
    ASSUME ValidationAware, IInv, AiInPlace, [Next]_vars
    PROVE  AiInPlace'
<1> USE DEF AiInPlace
<1>1. CASE UNCHANGED msgs
  BY <1>1
<1>2. ASSUME NEW keep \in Nat, msgs' = TruncateTo(msgs, keep)
      PROVE  AiInPlace'
  <2>1. /\ Len(msgs') = IF Len(msgs) <= keep THEN Len(msgs) ELSE keep
        /\ \A k \in 1..Len(msgs') : msgs'[k] = msgs[k]
    BY <1>2, TruncateToKeepsPrefix DEF IInv, TypeOK
  <2>2. \A k \in 1..Len(msgs') : k \in 1..Len(msgs)
    BY <1>2, <2>1, Arithmetic DEF IInv
  <2> QED  BY <2>1, <2>2
<1>3. ASSUME pc = "call", msgs' = msgs \o Turn(Current)
      PROVE  AiInPlace'
  <2>1. Current \in Answers /\ msgs \in Seq(Messages) /\ Len(msgs) \in Nat
    BY <1>3, CurrentType, Arithmetic DEF IInv, TypeOK
  <2>2. idx \in Items /\ idx \in Nat /\ Len(msgs) = 2 * (idx - 1)
    BY <1>3, AttemptFacts, Arithmetic DEF IInv
  <2>3. /\ Len(msgs') = Len(msgs) + 2
        /\ \A k \in 1..Len(msgs) : msgs'[k] = msgs[k]
        /\ msgs'[Len(msgs) + 2] = Ai(Current)
    BY <1>3, <2>1, TurnAppended
  <2>4. msgs'[Len(msgs) + 1].role = "human"
    <3>1. /\ Turn(Current) \in Seq(Messages) /\ Len(Turn(Current)) = 2
          /\ Turn(Current)[1].role = "human"
      BY <2>1 DEF Turn, Messages
    <3>2. msgs'[Len(msgs) + 1] = Turn(Current)[1]
      BY <1>3, <2>1, <3>1, ConcatProperties
    <3> QED  BY <3>1, <3>2
  <2> SUFFICES ASSUME NEW k \in 1..Len(msgs'), msgs'[k].role = "ai"
               PROVE  k = 2 * msgs'[k].of.item
    OBVIOUS
  <2>5. CASE k <= Len(msgs)
    BY <2>1, <2>3, <2>5
  <2>6. CASE k = Len(msgs) + 2
    BY <2>2, <2>3, <2>6 DEF Ai, Current
  <2>7. k # Len(msgs) + 1
    BY <2>4
  <2> QED  BY <2>1, <2>3, <2>5, <2>6, <2>7
<1>4. CASE TruncateForResume \/ RejectAnswer
  <2>1. 2 * (redo - 1) \in Nat /\ lenBefore \in Nat
    BY Arithmetic DEF IInv, TypeOK
  <2> QED  BY <1>2, <1>4, <2>1 DEF TruncateForResume, RejectAnswer
<1>5. CASE CallModel \/ CallModelRaisesLate
  BY <1>3, <1>5 DEF CallModel, CallModelRaisesLate, ApplyRetention, ValidationAware
<1> QED
  BY <1>1, <1>4, <1>5 DEF Next, Step, StartRun, Crash, ResumeObserveOnly,
     ResumeValidationAware, DropFact, DropVerdict, SkipItem, BeginItem,
     CallModelRaises, ValidateItem, ValidateItemRaises, AcceptAnswer,
     RejectAnswerRaises, RecordError, ReturnOutputs, store, vars

\* The thread never holds two answers for one item: not while an attempt is
\* being retried, and not after a run that died anywhere was resumed.
THEOREM OneAnswerPerItem ==
    ASSUME ValidationAware
    PROVE  Spec => []OnePairPerItem
<1>1. Init => AiInPlace
  BY DEF Init, AiInPlace
<1>2. IInv /\ AiInPlace /\ [Next]_vars => AiInPlace'
  BY AiStaysInPlace
<1>3. AiInPlace => OnePairPerItem
  <2> SUFFICES ASSUME AiInPlace, NEW j \in 1..Len(msgs), NEW k \in 1..Len(msgs),
                      msgs[j].role = "ai", msgs[k].role = "ai",
                      msgs[j].of.item = msgs[k].of.item
               PROVE  j = k
    BY DEF OnePairPerItem
  <2> QED  BY DEF AiInPlace
<1> QED  BY <1>1, <1>2, <1>3, Invariance, PTL DEF Spec

\* With a scorer that never fails, an attempt is scored before it is decided on.
Scored == pc = "decide" => result # "none"

LEMMA VerdictStaysOfAccepted ==
    ASSUME ValidationAware, "score" \notin Faults,
           IInv, Scored, VerdictOfAccepted, [Next]_vars
    PROVE  Scored' /\ VerdictOfAccepted'
<1>1. mode.validator
  BY ConstantsAssumption DEF ValidationAware, IInv, TypeOK
<1>2. Scored'
  <2>1. CASE UNCHANGED vars
    BY <2>1 DEF Scored, vars, attempts
  <2>2. pc' = "decide" => (\E status \in {"pass", "fail"} : ValidateItem(status))
                          \/ UNCHANGED vars
    BY <1>1 DEF Next, Step, StartRun, Crash, ResumeObserveOnly, ResumeValidationAware,
       TruncateForResume, DropFact, DropVerdict, SkipItem, BeginItem, CallModel,
       CallModelRaises, CallModelRaisesLate, ValidateItemRaises, AcceptAnswer,
       RejectAnswer, RejectAnswerRaises, RecordError, ReturnOutputs
  <2> QED  BY <2>1, <2>2 DEF Scored, ValidateItem
<1>3. ASSUME NEW x \in Items, fact'[x] # "ok" \/ verdict'[x].of = accepted'[x]
                              \/ verdict'[x].status = "none",
             \A i \in Items : i # x => /\ fact'[i] = fact[i] /\ verdict'[i] = verdict[i]
                                       /\ accepted'[i] = accepted[i]
      PROVE  VerdictOfAccepted'
  BY <1>3 DEF VerdictOfAccepted
<1>4. CASE UNCHANGED <<fact, verdict, accepted>>
  BY <1>2, <1>4 DEF VerdictOfAccepted
<1>5. CASE DropFact \/ DropVerdict \/ RecordError
  <2>1. idx \in Items
    BY <1>5 DEF DropFact, DropVerdict, RecordError, IInv, TypeOK
  <2>2. fact'[idx] # "ok" \/ verdict'[idx].status = "none"
    BY <1>5, <2>1 DEF DropFact, DropVerdict, RecordError, NoVerdict, IInv, TypeOK
  <2>3. \A i \in Items : i # idx => /\ fact'[i] = fact[i] /\ verdict'[i] = verdict[i]
                                    /\ accepted'[i] = accepted[i]
    BY <1>5, <2>1 DEF DropFact, DropVerdict, RecordError, IInv, TypeOK
  <2> QED  BY <1>2, <1>3, <2>1, <2>2, <2>3
<1>6. CASE \E status \in {"pass", "fail"} : ValidateItem(status)
  <2>1. idx \in Items /\ fact[idx] # "ok"
    <3>1. idx \in Items /\ (fact[idx] = "ok" <=> idx < idx)
      BY <1>6, AttemptFacts DEF ValidateItem
    <3> QED  BY <3>1, Arithmetic DEF IInv
  <2>2. \A i \in Items : i # idx => /\ fact'[i] = fact[i] /\ verdict'[i] = verdict[i]
                                    /\ accepted'[i] = accepted[i]
    BY <1>6, <2>1 DEF ValidateItem, IInv, TypeOK
  <2>3. fact'[idx] # "ok"
    BY <1>6, <2>1 DEF ValidateItem
  <2> QED  BY <1>2, <1>3, <2>1, <2>2, <2>3
<1>7. CASE AcceptAnswer
  <2>1. idx \in Items
    BY <1>7, AttemptFacts DEF AcceptAnswer
  <2>2. verdict[idx] = [status |-> result, of |-> Current]
    BY <1>7 DEF AcceptAnswer, Scored, IInv, Inv, VerdictsInStep, Looping
  <2>3. accepted'[idx] = Current /\ verdict'[idx].of = Current
    BY <1>7, <2>1, <2>2 DEF AcceptAnswer, IInv, TypeOK
  <2>4. \A i \in Items : i # idx => /\ fact'[i] = fact[i] /\ verdict'[i] = verdict[i]
                                    /\ accepted'[i] = accepted[i]
    BY <1>7, <2>1 DEF AcceptAnswer, IInv, TypeOK
  <2> QED  BY <1>2, <1>3, <2>1, <2>3, <2>4
<1> QED
  BY <1>2, <1>4, <1>5, <1>6, <1>7 DEF Next, Step, StartRun, Crash, ResumeObserveOnly,
     ResumeValidationAware, TruncateForResume, SkipItem, BeginItem, CallModel,
     CallModelRaises, CallModelRaisesLate, ValidateItemRaises, RejectAnswer,
     RejectAnswerRaises, ReturnOutputs, store, vars

\* Unless the scorer fails, whatever verdict stands beside an ok fact judges
\* the answer that was accepted: retries and rewinds leave no stale one.
THEOREM VerdictsAreOfAccepted ==
    ASSUME ValidationAware, "score" \notin Faults
    PROVE  Spec => []VerdictOfAccepted
<1>1. Init => Scored /\ VerdictOfAccepted
  BY DEF Init, Scored, VerdictOfAccepted
<1>2. IInv /\ Scored /\ VerdictOfAccepted /\ [Next]_vars => Scored' /\ VerdictOfAccepted'
  BY VerdictStaysOfAccepted
<1> QED  BY <1>1, <1>2, Invariance, PTL DEF Spec

-----------------------------------------------------------------------------
(* Runs that do not resume.                                                *)

\* The configuration of the theorem below.
FreshRuns ==
    /\ \A m \in Modes : ~m.resume
    /\ RetentionMax = 0

\* The first len messages end in the turns of the items answered so far.
EndsInAnswers(len) ==
    /\ len >= 2 * (idx - 1)
    /\ \A i \in Items : i < idx =>
          /\ outputs[i].kind = "answered"
          /\ msgs[len - 2 * (idx - 1 - i)] = Ai(outputs[i].response)

\* What holds while such a run goes through its items, whatever the thread
\* held before: the turn of the attempt at hand, if it was stored, comes
\* behind them, and the roll-back point is where they end.
FreshInv ==
    /\ pc \notin Rewinding \cup {"resume", "truncate"}
    /\ pc \in Looping => completed = {}
    /\ pc \in {"item", "call"} => EndsInAnswers(Len(msgs))
    /\ pc \in {"validate", "decide"} =>
          EndsInAnswers(Len(msgs) - 2) /\ msgs[Len(msgs)] = Ai(Current)
    /\ (pc = "call" /\ mode.retries > 0) => lenBefore = Len(msgs)
    /\ (pc \in {"validate", "decide"} /\ mode.retries > 0) => lenBefore = Len(msgs) - 2

FreshIInv == TypeOK /\ FreshInv /\ ThreadEndsInOutputs

LEMMA FreshStep ==
    ASSUME FreshRuns, FreshIInv, Next
    PROVE  FreshInv' /\ ThreadEndsInOutputs'
<1> USE DEF FreshIInv
<1>0. /\ N \in Nat /\ Items = 1..N /\ idx \in Nat /\ idx >= 1 /\ idx <= N + 1
      /\ Len(msgs) \in Nat /\ ~mode.resume /\ FreshInv
  BY Arithmetic DEF TypeOK, FreshRuns
<1>1. CASE pc' \in Stopped /\ pc' # "returned"
  BY <1>1 DEF FreshInv, Looping, Rewinding, Stopped, ThreadEndsInOutputs
<1>2. CASE \E m \in Modes : StartRun(m)
  <2>1. pc' = "item" /\ completed' = {} /\ idx' = 1 /\ msgs' = msgs
    BY <1>2 DEF StartRun, FreshRuns, ForgetLocals, ForgetResume, store
  <2>2. EndsInAnswers(Len(msgs))'
    BY <1>0, <2>1 DEF EndsInAnswers
  <2> QED  BY <2>1, <2>2 DEF FreshInv, Looping, Rewinding, ThreadEndsInOutputs
<1>3. CASE BeginItem
  <2>1. /\ pc = "item" /\ pc' = "call" /\ UNCHANGED <<msgs, idx, outputs, mode, completed>>
        /\ mode.retries > 0 => lenBefore' = Len(msgs)
    BY <1>3 DEF BeginItem, store, resumed
  <2>2. EndsInAnswers(Len(msgs))'
    BY <1>0, <2>1 DEF FreshInv, EndsInAnswers
  <2> QED  BY <1>0, <2>1, <2>2 DEF FreshInv, Looping, Rewinding, ThreadEndsInOutputs
<1>4. CASE CallModel
  <2>1. /\ pc = "call" /\ pc' \in {"validate", "decide"} /\ msgs' = msgs \o Turn(Current)
        /\ UNCHANGED <<idx, outputs, mode, completed, lenBefore, run, attempt>>
    BY <1>4 DEF CallModel, attempts, resumed, FreshRuns, ApplyRetention
  <2>2. Current \in Answers /\ msgs \in Seq(Messages) /\ Current' = Current
    BY <2>1, CurrentType DEF TypeOK, Current
  <2>3. /\ Len(msgs') = Len(msgs) + 2 /\ msgs'[Len(msgs) + 2] = Ai(Current)
        /\ \A k \in 1..Len(msgs) : msgs'[k] = msgs[k]
    BY <2>1, <2>2, TurnAppended
  <2>4. Len(msgs') - 2 = Len(msgs)
    BY <1>0, <2>3
  <2>5. EndsInAnswers(Len(msgs) - 2)'
    <3>1. EndsInAnswers(Len(msgs))
      BY <1>0, <2>1 DEF FreshInv
    <3>2. \A i \in Items : i < idx => Len(msgs) - 2 * (idx - 1 - i) \in 1..Len(msgs)
      BY <1>0, <3>1 DEF EndsInAnswers
    <3> QED  BY <2>1, <2>3, <2>4, <3>1, <3>2 DEF EndsInAnswers
  <2> QED
    BY <1>0, <2>1, <2>2, <2>3, <2>4, <2>5 DEF FreshInv, Looping, Rewinding, ThreadEndsInOutputs
<1>5. CASE ValidateItemRaises \/ \E status \in {"pass", "fail"} : ValidateItem(status)
  <2>1. /\ pc = "validate" /\ pc' = "decide"
        /\ UNCHANGED <<msgs, idx, outputs, mode, completed, lenBefore, run, attempt>>
    BY <1>5 DEF ValidateItem, ValidateItemRaises, store, resumed
  <2>2. EndsInAnswers(Len(msgs) - 2)' /\ Current' = Current
    BY <1>0, <2>1 DEF FreshInv, EndsInAnswers, Current
  <2> QED  BY <1>0, <2>1, <2>2 DEF FreshInv, Looping, Rewinding, ThreadEndsInOutputs
<1>6. CASE RejectAnswer
  <2>1. /\ pc = "decide" /\ pc' = "call" /\ msgs' = TruncateTo(msgs, lenBefore)
        /\ lenBefore' = Len(msgs')
        /\ UNCHANGED <<idx, outputs, mode, completed>>
    BY <1>6 DEF RejectAnswer, resumed
  <2>2. mode.retries > 0
    <3>1. mode.retries \in Nat /\ attempt \in 1..(mode.retries + 1)
          /\ ~(attempt >= 1 + mode.retries)
      BY <2>1, <1>6, ConstantsAssumption DEF TypeOK, ModeSet, RejectAnswer, IsFinal
    <3> QED  BY <3>1
  <2>3. /\ lenBefore = Len(msgs) - 2 /\ EndsInAnswers(Len(msgs) - 2) /\ lenBefore \in Nat
    BY <1>0, <2>1, <2>2 DEF FreshInv, TypeOK
  <2>4. Len(msgs') = lenBefore /\ \A k \in 1..lenBefore : msgs'[k] = msgs[k]
    <3>1. /\ Len(msgs') = IF Len(msgs) <= lenBefore THEN Len(msgs) ELSE lenBefore
          /\ \A k \in 1..Len(msgs') : msgs'[k] = msgs[k]
      BY <2>1, <2>3, TruncateToKeepsPrefix DEF TypeOK
    <3> QED  BY <1>0, <2>3, <3>1
  <2>5. EndsInAnswers(Len(msgs))'
    <3>1. \A i \in Items : i < idx => lenBefore - 2 * (idx - 1 - i) \in 1..lenBefore
      BY <1>0, <2>3 DEF EndsInAnswers
    <3> QED  BY <2>1, <2>3, <2>4, <3>1 DEF EndsInAnswers
  <2> QED  BY <1>0, <2>1, <2>5 DEF FreshInv, Looping, Rewinding, ThreadEndsInOutputs
<1>7. CASE AcceptAnswer
  <2>1. /\ pc = "decide" /\ pc' = "item" /\ idx' = idx + 1
        /\ UNCHANGED <<msgs, mode, completed>> /\ idx \in Items
    BY <1>7 DEF AcceptAnswer, resumed, TypeOK
  <2>2. /\ outputs'[idx].kind = "answered" /\ outputs'[idx].response = Current
        /\ \A i \in Items : i # idx => outputs'[i] = outputs[i]
    BY <1>7, <2>1 DEF AcceptAnswer, TypeOK
  <2>3. EndsInAnswers(Len(msgs) - 2) /\ msgs[Len(msgs)] = Ai(Current)
    BY <1>0, <2>1 DEF FreshInv
  <2>4. EndsInAnswers(Len(msgs))'
    <3>1. Len(msgs) >= 2 * ((idx + 1) - 1)
      BY <1>0, <2>3 DEF EndsInAnswers
    <3>2. ASSUME NEW i \in Items, i < idx + 1
          PROVE  /\ outputs'[i].kind = "answered"
                 /\ msgs[Len(msgs) - 2 * ((idx + 1) - 1 - i)] = Ai(outputs'[i].response)
      <4>1. CASE i = idx
        <5>1. Len(msgs) - 2 * ((idx + 1) - 1 - i) = Len(msgs)
          BY <1>0, <4>1
        <5> QED  BY <2>2, <2>3, <4>1, <5>1
      <4>2. CASE i < idx
        <5>1. Len(msgs) - 2 * ((idx + 1) - 1 - i) = (Len(msgs) - 2) - 2 * (idx - 1 - i)
          BY <1>0
        <5> QED  BY <1>0, <2>2, <2>3, <4>2, <5>1, SMTT(20) DEF EndsInAnswers
      <4> QED  BY <1>0, <3>2, <4>1, <4>2
    <3> QED  BY <2>1, <3>1, <3>2 DEF EndsInAnswers
  <2> QED  BY <1>0, <2>1, <2>4 DEF FreshInv, Looping, Rewinding, ThreadEndsInOutputs
<1>8. CASE ReturnOutputs
  <2>1. pc = "item" /\ pc' = "returned" /\ idx = N + 1 /\ UNCHANGED <<msgs, outputs>>
    BY <1>8 DEF ReturnOutputs, store
  <2>2. EndsInAnswers(Len(msgs))
    BY <1>0, <2>1 DEF FreshInv
  <2>3. ThreadEndsInOutputs'
    <3>1. \A i \in Items : i < idx /\ idx - 1 - i = N - i
      BY <1>0, <2>1
    <3>2. Len(msgs) >= 2 * N
      BY <1>0, <2>1, <2>2 DEF EndsInAnswers
    <3>3. \A i \in Items : /\ outputs[i].kind = "answered"
                           /\ msgs[Len(msgs) - 2 * (N - i)] = Ai(outputs[i].response)
      BY <2>2, <3>1 DEF EndsInAnswers
    <3> QED  BY <2>1, <3>2, <3>3 DEF ThreadEndsInOutputs, Ai
  <2> QED  BY <2>1, <2>3 DEF FreshInv, Looping, Rewinding
<1>9. CASE CallModelRaises \/ CallModelRaisesLate \/ RejectAnswerRaises
  <2>1. pc' = "error" /\ completed' = completed /\ pc \in Looping
    BY <1>9 DEF CallModelRaises, CallModelRaisesLate, RejectAnswerRaises, resumed, Looping
  <2> QED  BY <1>0, <2>1 DEF FreshInv, Looping, Rewinding, ThreadEndsInOutputs
<1>10. ~SkipItem
  BY <1>0 DEF SkipItem, FreshInv, Looping
<1> QED
  BY <1>0, <1>1, <1>2, <1>3, <1>4, <1>5, <1>6, <1>7, <1>8, <1>9, <1>10 DEF Next, Step,
     ResumeObserveOnly, ResumeValidationAware, TruncateForResume, DropFact, DropVerdict,
     RecordError, Crash, FreshInv, Rewinding, Stopped

\* A run that does not resume appends behind whatever the thread holds, after
\* whatever an earlier run left there: when it returns, the thread ends in
\* its N turns, in item order, and they are what it reports.
THEOREM FreshRunIsAppended ==
    ASSUME FreshRuns
    PROVE  Spec => []ThreadEndsInOutputs
<1>1. Init => FreshIInv
  BY InitTypeOK DEF Init, FreshIInv, FreshInv, ThreadEndsInOutputs, Looping, Rewinding
<1>2. FreshIInv /\ [Next]_vars => FreshIInv'
  <2>1. CASE UNCHANGED vars
    BY <2>1, NextTypeOK DEF FreshIInv, FreshInv, ThreadEndsInOutputs, EndsInAnswers, Current,
       vars, store, attempts, resumed
  <2> QED  BY <2>1, NextTypeOK, FreshStep DEF FreshIInv
<1>3. FreshIInv => ThreadEndsInOutputs
  BY DEF FreshIInv
<1> QED  BY <1>1, <1>2, <1>3, PTL DEF Spec

-----------------------------------------------------------------------------
(* Resume without retries.                                                 *)

\* The configuration of the theorem below: every run resumes, none retries,
\* and nothing fails between a turn and the fact that records it.
ObserveOnly ==
    /\ \A m \in Modes : m.resume /\ m.retries = 0
    /\ RetentionMax = 0
    /\ Faults \cap {"late", "crash"} = {}

\* The thread has whole turns, of exactly the ok items.
OkInThread ==
    /\ \E k \in 0..N : Len(msgs) = 2 * k
    /\ \A i \in Items : fact[i] = "ok" <=> 2 * i <= Len(msgs)

\* What the run skips is in the snapshot it took, and stays accepted.
KeptInSnapshot ==
    \A i \in completed : fact[i] = "ok" /\ 2 * i <= Len(recovered) /\ recovered[2 * i] = Ai(accepted[i])

\* Positions count turns because ok items are a prefix at every stop: a run
\* that fails does so at the first item without an answer.
ObservedInv ==
    /\ pc \notin Rewinding \cup {"truncate", "crashed"}
    /\ OkStored /\ OutputsAccepted
    /\ pc \notin {"validate", "decide"} => OkInThread
    /\ pc = "resume" => idx = 1
    /\ pc \in Looping =>
          /\ KeptInSnapshot
          /\ \A i \in Items : i < idx => outputs[i].kind # "none"
    /\ pc = "item" => \A i \in Items : fact[i] = "ok" <=> i < idx \/ i \in completed
    /\ pc \in {"call", "error"} => Len(msgs) = 2 * (idx - 1) /\ idx \notin completed
    /\ pc \in {"validate", "decide"} =>
          /\ \A i \in Items : fact[i] = "ok" <=> i < idx
          /\ Len(msgs) = 2 * idx /\ msgs[2 * idx] = Ai(Current) /\ idx \notin completed
    /\ pc = "returned" => Len(msgs) = 2 * N /\ \A i \in Items : fact[i] = "ok" /\ outputs[i].kind # "none"

ObservedIInv == TypeOK /\ ObservedInv

LEMMA ObservedStep ==
    ASSUME ObserveOnly, ObservedIInv, Next
    PROVE  ObservedInv'
<1> USE DEF ObservedIInv
<1>0. /\ N \in Nat /\ Items = 1..N /\ idx \in Nat /\ idx >= 1 /\ idx <= N + 1
      /\ Len(msgs) \in Nat /\ mode.retries = 0 /\ ObservedInv /\ completed \subseteq Items
  BY Arithmetic DEF TypeOK, ObserveOnly
<1>1. ASSUME NEW m \in Modes, StartRun(m) PROVE ObservedInv'
  <2>1. /\ pc' = "resume" /\ idx' = 1 /\ UNCHANGED <<msgs, fact, accepted>> /\ pc \in Stopped
        /\ outputs' = [i \in Items |-> NoOutput]
    BY <1>1 DEF StartRun, ObserveOnly, ForgetLocals, store
  <2>2. OkInThread' /\ OkStored'
    BY <1>0, <2>1 DEF ObservedInv, OkInThread, OkStored, Stopped
  <2>3. OutputsAccepted'
    BY <2>1 DEF OutputsAccepted, NoOutput
  <2> QED  BY <2>1, <2>2, <2>3 DEF ObservedInv, Rewinding, Looping
<1>2. CASE ResumeObserveOnly
  <2>1. /\ pc = "resume" /\ pc' = "item" /\ idx' = idx /\ idx = 1
        /\ UNCHANGED <<msgs, fact, accepted, outputs>>
        /\ completed' = OkItems /\ (OkItems # {} => recovered' = msgs)
    BY <1>0, <1>2 DEF ResumeObserveOnly, store, ObservedInv
  <2>2. OkInThread /\ OkStored /\ OutputsAccepted
    BY <1>0, <2>1 DEF ObservedInv
  <2>3. KeptInSnapshot'
    BY <2>1, <2>2 DEF KeptInSnapshot, OkItems, OkInThread, OkStored
  <2>4. OkInThread' /\ OkStored' /\ OutputsAccepted'
    BY <2>1, <2>2 DEF OkInThread, OkStored, OutputsAccepted
  <2>5. \A i \in Items : ~(i < idx') /\ (fact'[i] = "ok" <=> i \in completed')
    BY <1>0, <2>1 DEF OkItems
  <2> QED  BY <2>1, <2>3, <2>4, <2>5 DEF ObservedInv, Rewinding, Looping
<1>3. CASE SkipItem
  <2>1. /\ pc = "item" /\ pc' = "item" /\ idx' = idx + 1 /\ idx \in Items /\ idx \in completed
        /\ UNCHANGED <<msgs, fact, accepted, completed, recovered>>
    BY <1>3 DEF SkipItem, store, resumed
  <2>2. /\ OkInThread /\ OkStored /\ OutputsAccepted /\ KeptInSnapshot
        /\ \A i \in Items : fact[i] = "ok" <=> i < idx \/ i \in completed
        /\ \A i \in Items : i < idx => outputs[i].kind # "none"
    BY <1>0, <2>1 DEF ObservedInv, Looping
  <2>3. /\ outputs'[idx].kind = "skipped" /\ outputs'[idx].response = accepted[idx]
        /\ \A i \in Items : i # idx => outputs'[i] = outputs[i]
    <3>1. RecoveredResponse(recovered, idx) = accepted[idx]
      <4>1. 2 * idx <= Len(recovered) /\ recovered[2 * idx] = Ai(accepted[idx])
        BY <2>1, <2>2 DEF KeptInSnapshot
      <4> QED  BY <4>1 DEF RecoveredResponse, Ai
    <3> QED  BY <1>3, <2>1, <3>1 DEF SkipItem, TypeOK
  <2>4. OkInThread' /\ OkStored' /\ KeptInSnapshot'
    BY <2>1, <2>2 DEF OkInThread, OkStored, KeptInSnapshot
  <2>5. OutputsAccepted'
    BY <2>1, <2>2, <2>3 DEF OutputsAccepted
  <2>6. \A i \in Items : /\ fact'[i] = "ok" <=> i < idx' \/ i \in completed'
                         /\ i < idx' => outputs'[i].kind # "none"
    BY <1>0, <2>1, <2>2, <2>3
  <2> QED  BY <2>1, <2>4, <2>5, <2>6 DEF ObservedInv, Rewinding, Looping
<1>4. CASE BeginItem
  <2>1. /\ pc = "item" /\ pc' = "call" /\ idx' = idx /\ idx \in Items /\ idx \notin completed
        /\ UNCHANGED <<msgs, fact, accepted, completed, recovered, outputs>>
    BY <1>4 DEF BeginItem, store, resumed
  <2>2. /\ OkInThread /\ OkStored /\ OutputsAccepted /\ KeptInSnapshot
        /\ \A i \in Items : fact[i] = "ok" <=> i < idx \/ i \in completed
        /\ \A i \in Items : i < idx => outputs[i].kind # "none"
    BY <1>0, <2>1 DEF ObservedInv, Looping
  <2>3. Len(msgs) = 2 * (idx - 1)
    <3>1. PICK k \in 0..N : Len(msgs) = 2 * k
      BY <2>2 DEF OkInThread
    <3>2. fact[idx] # "ok" /\ ~(2 * idx <= Len(msgs))
      BY <1>0, <2>1, <2>2 DEF OkInThread
    <3>3. ASSUME idx # 1 PROVE 2 * (idx - 1) <= Len(msgs)
      <4>1. idx - 1 \in Items /\ idx - 1 < idx
        BY <1>0, <2>1, <3>3
      <4> QED  BY <2>2, <4>1 DEF OkInThread
    <3> QED  BY <1>0, <3>1, <3>2, <3>3
  <2>4. OkInThread' /\ OkStored' /\ OutputsAccepted' /\ KeptInSnapshot'
    BY <2>1, <2>2 DEF OkInThread, OkStored, OutputsAccepted, KeptInSnapshot
  <2> QED  BY <2>1, <2>2, <2>3, <2>4 DEF ObservedInv, Rewinding, Looping
<1>5. CASE CallModel
  <2>1. /\ pc = "call" /\ pc' \in {"validate", "decide"} /\ msgs' = msgs \o Turn(Current)
        /\ UNCHANGED <<fact, accepted, idx, outputs, completed, recovered, run, attempt>>
    BY <1>5 DEF CallModel, attempts, resumed, ObserveOnly, ApplyRetention
  <2>2. Current \in Answers /\ msgs \in Seq(Messages) /\ Current' = Current /\ idx \in Items
    BY <2>1, CurrentType DEF TypeOK, Current
  <2>3. /\ OkInThread /\ OkStored /\ OutputsAccepted /\ KeptInSnapshot
        /\ Len(msgs) = 2 * (idx - 1) /\ idx \notin completed
        /\ \A i \in Items : i < idx => outputs[i].kind # "none"
    BY <1>0, <2>1 DEF ObservedInv, Looping
  <2>4. /\ Len(msgs') = Len(msgs) + 2 /\ msgs'[Len(msgs) + 2] = Ai(Current)
        /\ \A k \in 1..Len(msgs) : msgs'[k] = msgs[k]
    BY <2>1, <2>2, TurnAppended
  <2>5. Len(msgs') = 2 * idx /\ msgs'[2 * idx] = Ai(Current)
    <3>1. Len(msgs) + 2 = 2 * idx
      BY <1>0, <2>3
    <3> QED  BY <2>4, <3>1
  <2>6. \A i \in Items : fact[i] = "ok" <=> i < idx
    BY <1>0, <2>3 DEF OkInThread
  <2>7. OkStored'
    <3> SUFFICES ASSUME NEW i \in Items, fact[i] = "ok" PROVE msgs'[2 * i] = Ai(accepted[i])
      BY <2>1 DEF OkStored
    <3>1. 2 * i <= Len(msgs) /\ 2 * i \in 1..Len(msgs)
      BY <1>0, <2>3 DEF OkInThread
    <3> QED  BY <2>3, <2>4, <3>1 DEF OkStored
  <2>8. OutputsAccepted' /\ KeptInSnapshot'
    BY <2>1, <2>3 DEF OutputsAccepted, KeptInSnapshot
  <2> QED  BY <2>1, <2>2, <2>3, <2>5, <2>6, <2>7, <2>8 DEF ObservedInv, Rewinding, Looping
<1>6. CASE CallModelRaises
  <2>1. /\ pc = "call" /\ pc' = "error"
        /\ UNCHANGED <<msgs, fact, accepted, idx, outputs, completed, recovered>>
    BY <1>6 DEF CallModelRaises, store, resumed
  <2> QED
    BY <1>0, <2>1 DEF ObservedInv, OkInThread, OkStored, OutputsAccepted, KeptInSnapshot,
       Rewinding, Looping
<1>7. CASE ValidateItemRaises \/ \E status \in {"pass", "fail"} : ValidateItem(status)
  <2>1. /\ pc = "validate" /\ pc' = "decide"
        /\ UNCHANGED <<msgs, fact, accepted, idx, outputs, completed, recovered, run, attempt>>
    BY <1>7 DEF ValidateItem, ValidateItemRaises, store, resumed
  <2>2. Current' = Current
    BY <2>1 DEF Current
  <2> QED
    BY <1>0, <2>1, <2>2 DEF ObservedInv, OkStored, OutputsAccepted, KeptInSnapshot,
       Rewinding, Looping
<1>8. CASE AcceptAnswer
  <2>1. /\ pc = "decide" /\ pc' = "item" /\ idx' = idx + 1 /\ idx \in Items
        /\ UNCHANGED <<msgs, completed, recovered>>
    BY <1>8 DEF AcceptAnswer, resumed, TypeOK
  <2>2. /\ OkStored /\ OutputsAccepted /\ KeptInSnapshot
        /\ \A i \in Items : fact[i] = "ok" <=> i < idx
        /\ Len(msgs) = 2 * idx /\ msgs[2 * idx] = Ai(Current) /\ idx \notin completed
        /\ \A i \in Items : i < idx => outputs[i].kind # "none"
    BY <1>0, <2>1 DEF ObservedInv, Looping
  <2>3. /\ fact'[idx] = "ok" /\ accepted'[idx] = Current
        /\ outputs'[idx].kind = "answered" /\ outputs'[idx].response = Current
        /\ \A i \in Items : i # idx =>
              /\ fact'[i] = fact[i] /\ accepted'[i] = accepted[i] /\ outputs'[i] = outputs[i]
    BY <1>8, <2>1 DEF AcceptAnswer, TypeOK
  <2>4. \A i \in Items : /\ fact'[i] = "ok" <=> i < idx + 1
                         /\ i < idx + 1 => outputs'[i].kind # "none"
    BY <1>0, <2>1, <2>2, <2>3
  <2>5. OkStored'
    BY <2>1, <2>2, <2>3 DEF OkStored
  <2>6. OutputsAccepted'
    BY <2>2, <2>3 DEF OutputsAccepted
  <2>7. KeptInSnapshot'
    BY <1>0, <2>1, <2>2, <2>3 DEF KeptInSnapshot
  <2>8. OkInThread'
    BY <1>0, <2>1, <2>2, <2>4 DEF OkInThread
  <2>9. \A i \in completed : i < idx + 1
    BY <1>0, <2>2 DEF KeptInSnapshot
  <2> QED
    BY <1>0, <2>1, <2>4, <2>5, <2>6, <2>7, <2>8, <2>9 DEF ObservedInv, Rewinding, Looping
<1>9. ~RejectAnswer /\ ~RejectAnswerRaises
  <2>1. pc = "decide" => IsFinal
    BY <1>0 DEF TypeOK, IsFinal
  <2> QED  BY <2>1 DEF RejectAnswer, RejectAnswerRaises
<1>10. CASE RecordError
  <2>1. /\ pc = "error" /\ pc' = "raised" /\ UNCHANGED <<msgs, accepted>> /\ idx \in Items
        /\ fact' = [fact EXCEPT ![idx] = "error"] /\ outputs' = [i \in Items |-> NoOutput]
    BY <1>10 DEF RecordError, ForgetLocals, TypeOK
  <2>2. OkInThread /\ OkStored /\ Len(msgs) = 2 * (idx - 1)
    BY <1>0, <2>1 DEF ObservedInv
  <2>3. \A i \in Items : fact'[i] = "ok" <=> fact[i] = "ok"
    BY <1>0, <2>1, <2>2 DEF OkInThread, TypeOK
  <2>4. OkInThread' /\ OkStored'
    BY <2>1, <2>2, <2>3 DEF OkInThread, OkStored
  <2>5. OutputsAccepted'
    BY <2>1 DEF OutputsAccepted, NoOutput
  <2> QED  BY <2>1, <2>4, <2>5 DEF ObservedInv, Rewinding, Looping
<1>11. CASE ReturnOutputs
  <2>1. pc = "item" /\ pc' = "returned" /\ idx = N + 1 /\ UNCHANGED <<msgs, fact, accepted, outputs>>
    BY <1>11 DEF ReturnOutputs, store
  <2>2. /\ OkInThread /\ OkStored /\ OutputsAccepted
        /\ \A i \in Items : fact[i] = "ok" /\ outputs[i].kind # "none"
    BY <1>0, <2>1 DEF ObservedInv, Looping
  <2>3. Len(msgs) = 2 * N
    <3>1. PICK k \in 0..N : Len(msgs) = 2 * k
      BY <2>2 DEF OkInThread
    <3>2. N \in Items
      BY Arithmetic
    <3>3. 2 * N <= Len(msgs)
      BY <2>2, <3>2 DEF OkInThread
    <3> QED  BY <1>0, <3>1, <3>3
  <2>4. OkInThread' /\ OkStored' /\ OutputsAccepted'
    BY <2>1, <2>2 DEF OkInThread, OkStored, OutputsAccepted
  <2> QED  BY <2>1, <2>2, <2>3, <2>4 DEF ObservedInv, Rewinding, Looping
<1>12. ~CallModelRaisesLate /\ ~Crash
  BY DEF CallModelRaisesLate, Crash, ObserveOnly
<1>13. ~ResumeValidationAware /\ ~TruncateForResume /\ ~DropFact /\ ~DropVerdict
  BY <1>0 DEF ResumeValidationAware, TruncateForResume, DropFact, DropVerdict, ObservedInv, Rewinding
<1> QED
  BY <1>1, <1>2, <1>3, <1>4, <1>5, <1>6, <1>7, <1>8, <1>9, <1>10, <1>11, <1>12, <1>13
  DEF Next, Step

LEMMA ObservedInvariance ==
    ASSUME ObserveOnly
    PROVE  Spec => []ObservedIInv
<1>1. Init => ObservedIInv
  <2> SUFFICES ASSUME Init PROVE ObservedIInv
    OBVIOUS
  <2>1. TypeOK
    BY InitTypeOK
  <2>2. OkInThread
    BY ConstantsAssumption DEF Init, OkInThread, Items
  <2>3. OkStored /\ OutputsAccepted
    BY DEF Init, OkStored, OutputsAccepted, NoOutput
  <2> QED  BY <2>1, <2>2, <2>3 DEF Init, ObservedIInv, ObservedInv, Looping, Rewinding
<1>2. ObservedIInv /\ [Next]_vars => ObservedIInv'
  <2>1. CASE UNCHANGED vars
    BY <2>1, NextTypeOK DEF ObservedIInv, ObservedInv, OkInThread, OkStored, OutputsAccepted,
       KeptInSnapshot, Current, vars, store, attempts, resumed
  <2> QED  BY <2>1, NextTypeOK, ObservedStep DEF ObservedIInv
<1> QED  BY <1>1, <1>2, PTL DEF Spec

\* With the default configuration, no retries, a resumed run reports each item
\* it skips with the answer its ok fact recorded, whatever model calls and
\* scorings failed in the runs before: positions of turns do not shift.
THEOREM ObservedResumeReportsAccepted ==
    ASSUME ObserveOnly
    PROVE  Spec => []SkippedIsAccepted
<1>1. ObservedIInv => SkippedIsAccepted
  BY DEF ObservedIInv, ObservedInv, OutputsAccepted, SkippedIsAccepted
<1> QED  BY <1>1, ObservedInvariance, PTL

\* A run that returns leaves one pair per item in the thread, the pair it reports.
THEOREM ObservedRunIsStored ==
    ASSUME ObserveOnly
    PROVE  Spec => []ReturnedThreadMatchesOutputs
<1>1. ObservedIInv => ReturnedThreadMatchesOutputs
  <2> SUFFICES ASSUME ObservedIInv, pc = "returned"
               PROVE  /\ Len(msgs) = 2 * N
                      /\ \A i \in Items :
                            /\ outputs[i].kind # "none"
                            /\ msgs[2 * i] = Ai(outputs[i].response)
    BY DEF ReturnedThreadMatchesOutputs, Ai
  <2>1. /\ Len(msgs) = 2 * N /\ OkStored /\ OutputsAccepted
        /\ \A i \in Items : fact[i] = "ok" /\ outputs[i].kind # "none"
    BY DEF ObservedIInv, ObservedInv
  <2>2. \A i \in Items : 2 * i <= Len(msgs)
    BY <2>1, Arithmetic DEF ObservedIInv
  <2> QED  BY <2>1, <2>2 DEF OkStored, OutputsAccepted
<1> QED  BY <1>1, ObservedInvariance, PTL

-----------------------------------------------------------------------------
(* PipelineRun implements AcceptedLog: runs, attempts, crashes and rewinds *)
(* are steps on, or stutters of, a log of accepted answers.                *)

\* n is how many items are done, counted from the first.
IsDonePrefix(n) ==
    /\ \A i \in 1..n : Stored(i)
    /\ n < N => ~Stored(n + 1)

\* There is such a number, and DonePrefix is it.
LEMMA DonePrefixDone == DonePrefix \in 0..N /\ IsDonePrefix(DonePrefix)
<1> DEFINE Open == {n \in 1..N : ~Stored(n)} \cup {N + 1}
<1>1. N \in Nat
  BY ConstantsAssumption
<1>2. Open \subseteq Nat /\ Open # {}
  BY <1>1
<1>3. PICK m \in Open : \A n \in Open : m <= n
  BY <1>2, SmallestNat
<1>4. m \in 1..(N + 1)
  BY <1>1, <1>3
<1>5. m - 1 \in 0..N /\ (m - 1) + 1 = m
  BY <1>1, <1>4
<1>6. \A i \in 1..(m - 1) : Stored(i)
  <2> SUFFICES ASSUME NEW i \in 1..(m - 1), ~Stored(i) PROVE FALSE
    OBVIOUS
  <2>1. i \in Open
    BY <1>1, <1>4
  <2> QED  BY <1>3, <1>4, <2>1
<1>7. m - 1 < N => ~Stored(m)
  BY <1>1, <1>3, <1>4
<1>8. \E n \in 0..N : IsDonePrefix(n)
  BY <1>5, <1>6, <1>7 DEF IsDonePrefix
<1> HIDE DEF Open
<1> QED  BY <1>8 DEF DonePrefix, IsDonePrefix

\* No other number is.
LEMMA DonePrefixUnique == \A n \in 0..N : IsDonePrefix(n) => DonePrefix = n
<1>1. DonePrefix \in 0..N /\ IsDonePrefix(DonePrefix)
  BY DonePrefixDone
<1>2. N \in Nat
  BY ConstantsAssumption
<1>3. ASSUME NEW a \in 0..N, NEW b \in 0..N, IsDonePrefix(a), IsDonePrefix(b), a < b
      PROVE  FALSE
  BY <1>2, <1>3 DEF IsDonePrefix
<1> QED  BY <1>1, <1>2, <1>3

\* The log says which answer was accepted for each item done, and whether its
\* stored verdict fails it.
LEMMA LogOfAccepted ==
    IInv => acceptedLog = [k \in 1..DonePrefix |->
                              [answer |-> accepted[k],
                               failing |-> verdict[k].status = "fail"]]
<1>1. DonePrefix \in 0..N /\ IsDonePrefix(DonePrefix)
  BY DonePrefixDone
<1>2. ASSUME IInv, NEW k \in 1..DonePrefix
      PROVE  msgs[2 * k].of = accepted[k]
  <2>1. k \in Items /\ Stored(k)
    BY <1>1, ConstantsAssumption DEF IsDonePrefix, Items
  <2>2. msgs[2 * k] = Ai(accepted[k])
    BY <1>2, <2>1 DEF IInv, Inv, OkStored, Stored
  <2> QED  BY <2>2 DEF Ai
<1> QED  BY <1>2 DEF acceptedLog

\* In the item loop the items done are those before the one at hand, and
\* during a rewind those before the one to redo.
LEMMA DonePrefixInLoop == IInv /\ pc \in Looping => DonePrefix = Done
<1> SUFFICES ASSUME IInv, pc \in Looping PROVE DonePrefix = Done
  OBVIOUS
<1>1. /\ \A i \in Items : fact[i] = "ok" <=> i <= Done
      /\ Len(msgs) >= 2 * Done
  <2>1. LoopInStep /\ TypeOK
    BY DEF IInv, Inv
  <2>2. pc \in {"item", "call"} => Len(msgs) = 2 * Done
    BY <2>1 DEF LoopInStep
  <2>3. pc \in {"validate", "decide", "error"} => Len(msgs) >= 2 * Done
    BY <2>1, Arithmetic DEF LoopInStep
  <2> QED  BY <2>1, <2>2, <2>3, Arithmetic DEF LoopInStep, Looping
<1>2. Done \in 0..N
  BY Arithmetic DEF IInv
<1>3. IsDonePrefix(Done)
  BY <1>1, <1>2, ConstantsAssumption DEF IsDonePrefix, Stored, Items
<1> QED  BY <1>2, <1>3, DonePrefixUnique

LEMMA DonePrefixInRewind == IInv /\ pc \in Rewinding => DonePrefix = redo - 1
<1> SUFFICES ASSUME IInv, pc \in Rewinding PROVE DonePrefix = redo - 1
  OBVIOUS
<1>1. redo \in Items /\ Len(msgs) = 2 * (redo - 1)
  BY DEF IInv, Inv, RewindOrder
<1>2. \A i \in Items : i < redo => Satisfied(i)
  BY DEF IInv, Inv, ResumeKept, Resumed
<1>3. redo - 1 \in 0..N /\ (redo - 1) + 1 = redo
  BY <1>1, ConstantsAssumption DEF Items
<1>4. IsDonePrefix(redo - 1)
  BY <1>1, <1>2, <1>3, ConstantsAssumption DEF IsDonePrefix, Stored, Satisfied, Items
<1> QED  BY <1>3, <1>4, DonePrefixUnique

\* The same facts of the next state.
LEMMA NextFacts ==
    /\ (DonePrefix \in 0..N)'
    /\ (\A n \in 0..N : IsDonePrefix(n) => DonePrefix = n)'
    /\ (IInv => acceptedLog = [k \in 1..DonePrefix |->
                              [answer |-> accepted[k],
                               failing |-> verdict[k].status = "fail"]])'
    /\ (IInv /\ pc \in Looping => DonePrefix = Done)'
    /\ (IInv /\ pc \in Rewinding => DonePrefix = redo - 1)'
  BY DonePrefixDone, DonePrefixUnique, LogOfAccepted, DonePrefixInLoop,
     DonePrefixInRewind, PTL

-----------------------------------------------------------------------------
(* Every step is a step on the log, or leaves it as it is.                 *)

\* What is done, accepted and judged stays: the log does not move.
LEMMA LogStays ==
    ASSUME IInv, IInv', DonePrefix' = DonePrefix,
           \A k \in 1..DonePrefix :
               /\ accepted'[k] = accepted[k]
               /\ verdict'[k] = verdict[k]
    PROVE  acceptedLog' = acceptedLog
<1>1. acceptedLog = [k \in 1..DonePrefix |->
                        [answer |-> accepted[k], failing |-> verdict[k].status = "fail"]]
  BY LogOfAccepted
<1>2. acceptedLog' = [k \in 1..DonePrefix' |->
                        [answer |-> accepted'[k], failing |-> verdict'[k].status = "fail"]]
  BY NextFacts
<1> QED  BY <1>1, <1>2

\* Steps that do not write to the store.
LEMMA StoreKept == UNCHANGED store => acceptedLog' = acceptedLog
<1> SUFFICES ASSUME UNCHANGED store PROVE acceptedLog' = acceptedLog
  OBVIOUS
<1>1. msgs' = msgs /\ fact' = fact /\ verdict' = verdict
  BY DEF store
<1>2. DonePrefix' = DonePrefix
  BY <1>1 DEF DonePrefix, Stored
<1> QED  BY <1>1, <1>2 DEF acceptedLog

\* Steps of an attempt that keep it within its item, and its failing call.
LEMMA AttemptKept ==
    ASSUME IInv, IInv',
           \/ CallModel \/ CallModelRaisesLate \/ RejectAnswer \/ RecordError
           \/ \E status \in {"pass", "fail"} : ValidateItem(status)
    PROVE  acceptedLog' = acceptedLog
<1>1. /\ pc \in {"call", "validate", "decide", "error"}
      /\ accepted' = accepted /\ msgs' \in Seq(Messages)
      /\ \A i \in Items : i # idx => verdict'[i] = verdict[i]
  BY DEF CallModel, CallModelRaisesLate, RejectAnswer, RecordError, ValidateItem, IInv, TypeOK
<1>2. DonePrefix = idx - 1 /\ idx \in Items
  BY <1>1, AttemptFacts, DonePrefixInLoop DEF Looping
<1>3. DonePrefix' = idx - 1
  <2>1. CASE pc' \in Looping /\ UNCHANGED <<idx, redo>>
    <3>1. Done' = Done
      BY <2>1 DEF Done
    <3> QED  BY <1>1, <2>1, <3>1, AttemptFacts, NextFacts
  <2>2. CASE RecordError
    <3>1. /\ fact' = [fact EXCEPT ![idx] = "error"] /\ msgs' = msgs
          /\ \A i \in Items : fact[i] = "ok" <=> i < idx
          /\ Len(msgs) >= 2 * (idx - 1)
      BY <1>1, <1>2, <2>2, AttemptFacts, Arithmetic DEF RecordError, IInv
    <3>2. PICK n \in 0..N : n = idx - 1
      BY <1>2, Arithmetic DEF IInv
    <3>3. /\ fact'[idx] = "error"
          /\ \A i \in Items : i # idx => fact'[i] = fact[i]
      BY <1>2, <3>1 DEF IInv, TypeOK
    <3>4. idx \in Nat /\ Items = 1..N /\ N \in Nat /\ Len(msgs) \in Nat
      BY Arithmetic DEF IInv
    <3>5. \A i \in 1..n : i \in Items /\ i < idx /\ 2 * i <= Len(msgs)
      BY <1>2, <3>1, <3>2, <3>4
    <3>6. \A i \in 1..n : fact'[i] = "ok" /\ 2 * i <= Len(msgs')
      BY <3>1, <3>3, <3>5
    <3>7. n + 1 = idx
      BY <3>2, <3>4
    <3>8. IsDonePrefix(n)'
      BY <3>3, <3>6, <3>7 DEF IsDonePrefix, Stored
    <3> QED  BY <3>2, <3>8, NextFacts
  <2> QED
    BY <2>1, <2>2 DEF CallModel, CallModelRaisesLate, RejectAnswer, ValidateItem, resumed, Looping
<1>4. \A k \in 1..DonePrefix : k \in Items /\ k # idx
  BY <1>2, Arithmetic DEF IInv
<1> QED  BY <1>1, <1>2, <1>3, <1>4, LogStays

\* The rewind's later commits: only items from the one to redo lose anything.
LEMMA RewindKept ==
    ASSUME IInv, IInv', DropFact \/ DropVerdict
    PROVE  acceptedLog' = acceptedLog
<1>1. /\ pc \in Rewinding /\ accepted' = accepted /\ redo' = redo
      /\ \A i \in Items : i # idx => verdict'[i] = verdict[i]
  BY DEF DropFact, DropVerdict, resumed, Rewinding, IInv, TypeOK
<1>2. DonePrefix = redo - 1 /\ redo \in Items /\ redo <= idx
  BY <1>1, DonePrefixInRewind DEF IInv, Inv, RewindOrder
<1>3. DonePrefix' = redo - 1
  <2>1. CASE pc' \in Rewinding
    BY <1>1, <2>1, NextFacts
  <2>2. CASE pc' = "item" /\ idx' = 1
    <3>1. Done' = redo - 1
      BY <1>1, <1>2, <2>2, Arithmetic DEF Done, IInv
    <3> QED  BY <2>2, <3>1, NextFacts DEF Looping
  <2> QED  BY <2>1, <2>2 DEF DropFact, DropVerdict, Rewinding
<1>4. \A k \in 1..DonePrefix : k \in Items /\ k # idx
  BY <1>2, Arithmetic DEF IInv
<1> QED  BY <1>1, <1>3, <1>2, <1>4, LogStays

\* An item's answer is accepted behind those of the items before it.
LEMMA AcceptStep ==
    ASSUME IInv, IInv', AcceptAnswer
    PROVE  Log!Accept
<1>1. /\ pc = "decide" /\ pc' = "item" /\ redo' = redo /\ idx' = idx + 1
      /\ verdict' = verdict
  BY DEF AcceptAnswer, resumed
<1>2. /\ idx \in Items /\ DonePrefix = idx - 1 /\ redo <= idx
      /\ Current \in Answers
  BY <1>1, AttemptFacts, DonePrefixInLoop, CurrentType DEF Looping, IInv
<1>3. /\ accepted'[idx] = Current
      /\ \A i \in Items : i # idx => accepted'[i] = accepted[i]
  BY <1>2 DEF AcceptAnswer, IInv, TypeOK
<1>4. DonePrefix' = idx
  <2>1. Done' = idx
    BY <1>1, <1>2, Arithmetic DEF Done, IInv
  <2> QED  BY <1>1, <2>1, NextFacts DEF Looping
<1> DEFINE e == [answer |-> Current, failing |-> verdict[idx].status = "fail"]
<1>5. acceptedLog = [k \in 1..(idx - 1) |->
                        [answer |-> accepted[k], failing |-> verdict[k].status = "fail"]]
  BY <1>2, LogOfAccepted
<1>6. acceptedLog' = [k \in 1..idx |->
                        [answer |-> accepted'[k], failing |-> verdict'[k].status = "fail"]]
  BY <1>4, NextFacts
<1>7. idx \in Nat /\ idx >= 1 /\ idx <= N /\ N \in Nat /\ Items = 1..N
  BY <1>2, Arithmetic DEF IInv
<1>8. e \in Log!Entries /\ e.answer.item = idx
  BY <1>2 DEF Log!Entries, Current
<1>9. Len(acceptedLog) = idx - 1
  BY <1>5, <1>7
<1>10. acceptedLog' = Append(acceptedLog, e)
  <2>1. \A k \in 1..(idx - 1) : k \in Items /\ k # idx
    BY <1>7
  <2>2. acceptedLog \in Seq([answer : Answers \cup {NoAnswer}, failing : BOOLEAN])
    BY <1>5, <1>7, <2>1 DEF IInv, TypeOK
  <2>3. acceptedLog' = [k \in 1..((idx - 1) + 1) |->
                          IF k <= idx - 1 THEN acceptedLog[k] ELSE e]
    BY <1>1, <1>3, <1>5, <1>6, <1>7, <2>1
  <2> QED  BY <1>9, <2>2, <2>3
<1> HIDE DEF e
<1> QED  BY <1>7, <1>8, <1>9, <1>10 DEF Log!Accept

\* The rewind's first commit cuts the log back to the first failing answer,
\* or finds it ending before the item to redo.
LEMMA TruncateStep ==
    ASSUME IInv, IInv', TruncateForResume
    PROVE  Log!Rewind \/ acceptedLog' = acceptedLog
<1>1. /\ pc = "truncate" /\ pc' = "dropFact" /\ redo' = redo
      /\ accepted' = accepted /\ verdict' = verdict
  BY DEF TruncateForResume, resumed
<1>2. redo \in Items /\ ~Satisfied(redo) /\ \A i \in Items : i < redo => Satisfied(i)
  BY <1>1 DEF IInv, Inv, TypeOK, RewindOrder, ResumeKept, Resumed
<1>3. redo \in Nat /\ redo >= 1 /\ redo <= N /\ N \in Nat /\ Items = 1..N
  BY <1>2, Arithmetic DEF IInv
<1>4. DonePrefix' = redo - 1
  BY <1>1, NextFacts DEF Rewinding
<1>5. DonePrefix \in 0..N /\ IsDonePrefix(DonePrefix)
  BY DonePrefixDone
<1>6. DonePrefix >= redo - 1
  <2>1. redo - 1 <= DonePrefix
    <3> SUFFICES ASSUME DonePrefix < redo - 1 PROVE FALSE
      BY <1>3, <1>5
    <3>1. DonePrefix + 1 \in Items /\ DonePrefix + 1 < redo /\ DonePrefix < N
      BY <1>3, <1>5
    <3>2. \A j \in 1..(DonePrefix + 1) : Satisfied(j)
      BY <1>2, <1>3, <3>1
    <3>3. Stored(DonePrefix + 1)
      BY <3>1, <3>2, <1>2 DEF IInv, Inv, PrefixStored, Stored, Satisfied
    <3> QED  BY <1>5, <3>1, <3>3 DEF IsDonePrefix
  <2> QED  BY <2>1, <1>3, <1>5
<1>7. CASE DonePrefix = redo - 1
  BY <1>1, <1>4, <1>7, LogStays
<1>8. CASE DonePrefix > redo - 1
  <2>1. acceptedLog = [k \in 1..DonePrefix |->
                          [answer |-> accepted[k], failing |-> verdict[k].status = "fail"]]
    BY LogOfAccepted
  <2>2. acceptedLog' = [k \in 1..(redo - 1) |->
                          [answer |-> accepted[k], failing |-> verdict[k].status = "fail"]]
    BY <1>1, <1>4, NextFacts
  <2>3. redo \in 1..Len(acceptedLog) /\ Len(acceptedLog) = DonePrefix
    BY <1>3, <1>5, <1>8, <2>1
  <2>4. acceptedLog[redo].failing
    <3>1. fact[redo] = "ok"
      BY <1>3, <1>5, <1>8 DEF IsDonePrefix, Stored
    <3> QED  BY <1>2, <2>1, <2>3, <3>1 DEF Satisfied
  <2>5. \A j \in 1..(redo - 1) : ~acceptedLog[j].failing
    <3> SUFFICES ASSUME NEW j \in 1..(redo - 1) PROVE ~acceptedLog[j].failing
      OBVIOUS
    <3>1. j \in Items /\ j < redo /\ j \in 1..DonePrefix
      BY <1>3, <1>5, <1>6
    <3>2. Satisfied(j)
      BY <1>2, <3>1
    <3> QED  BY <2>1, <3>1, <3>2 DEF Satisfied
  <2>6. acceptedLog' = SubSeq(acceptedLog, 1, redo - 1)
    BY <1>3, <1>5, <1>6, <2>1, <2>2
  <2> QED  BY <2>3, <2>4, <2>5, <2>6 DEF Log!Rewind
<1> QED  BY <1>3, <1>5, <1>6, <1>7, <1>8

\* Whoever sees only the log of accepted answers sees it grow by the next
\* item's answer, or be cut back to where its first failing answer stands:
\* PipelineRun in the validation-aware configuration implements AcceptedLog.
THEOREM ImplementsAcceptedLog ==
    ASSUME ValidationAware
    PROVE  Spec => RefinesAcceptedLog
<1>1. Init => Log!Init
  <2> SUFFICES ASSUME Init PROVE acceptedLog = << >>
    BY DEF Log!Init
  <2>1. 0 \in 0..N /\ IsDonePrefix(0)
    BY ConstantsAssumption DEF IsDonePrefix, Stored, Init, Items
  <2>2. DonePrefix = 0
    BY <2>1, DonePrefixUnique
  <2> QED  BY <2>2 DEF acceptedLog
<1>2. IInv /\ IInv' /\ [Next]_vars => [Log!Next]_acceptedLog
  <2> SUFFICES ASSUME IInv, IInv', [Next]_vars
               PROVE  Log!Next \/ acceptedLog' = acceptedLog
    OBVIOUS
  <2>1. CASE UNCHANGED vars
    BY <2>1, StoreKept DEF vars
  <2>2. CASE CallModel \/ CallModelRaisesLate \/ RejectAnswer \/ RecordError
             \/ \E status \in {"pass", "fail"} : ValidateItem(status)
    BY <2>2, AttemptKept
  <2>3. CASE DropFact \/ DropVerdict
    BY <2>3, RewindKept
  <2>4. CASE AcceptAnswer
    BY <2>4, AcceptStep DEF Log!Next
  <2>5. CASE TruncateForResume
    BY <2>5, TruncateStep DEF Log!Next
  <2> QED
    BY <2>1, <2>2, <2>3, <2>4, <2>5, StoreKept DEF Next, Step, StartRun, Crash,
       ResumeObserveOnly, ResumeValidationAware, SkipItem, BeginItem,
       CallModelRaises, ValidateItemRaises, RejectAnswerRaises, ReturnOutputs
<1> QED
  BY <1>1, <1>2, Invariance, PTL DEF Spec, RefinesAcceptedLog, Log!Spec
===============================================================================
