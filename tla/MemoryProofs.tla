----------------------------- MODULE MemoryProofs -----------------------------
(***************************************************************************)
(* Safety of what a conversation remembers besides its messages, proved    *)
(* for every number of processes, faults and calls: the standing           *)
(* instructions of a task, the rolling summary of a thread, the branches   *)
(* forked from it, the recorded attempts at a work item, the notes of a    *)
(* thread; and of the in-memory store all of them can live in.             *)
(***************************************************************************)
EXTENDS ChunkHistory, TaskPolicy, RollingSummary, ThreadFork, ThreadNotes, InMemoryKV,
        ProofLemmas

\* Cutting a piece out of a sequence.
LEMMA PieceIsSeq ==
    ASSUME NEW S, NEW s \in Seq(S), NEW m \in Nat \ {0}, NEW n \in 0..Len(s)
    PROVE  SubSeq(s, m, n) \in Seq(S)
  BY SubSeqProperties, LenProperties, EmptySeq

\* A joined sequence, place by place.
LEMMA JoinedPlaces ==
    ASSUME NEW S, NEW s \in Seq(S), NEW t \in Seq(S), NEW m, m = Len(s), NEW n, n = Len(t)
    PROVE  /\ s \o t \in Seq(S) /\ Len(s \o t) = m + n
           /\ \A i \in 1..(m + n) : (s \o t)[i] = IF i <= m THEN s[i] ELSE t[i - m]
  BY ConcatProperties, LenProperties

LEMMA RemoveIsSeq ==
    ASSUME NEW S, NEW s \in Seq(S), NEW i \in DOMAIN s
    PROVE  RemoveAt(s, i) \in Seq(S)
<1>1. Len(s) \in Nat /\ i \in 1..Len(s)
  BY LenProperties
<1>2. SubSeq(s, 1, i - 1) \in Seq(S)
  <2>1. i - 1 \in 0..Len(s)
    BY <1>1
  <2> QED  BY <2>1, PieceIsSeq
<1>3. SubSeq(s, i + 1, Len(s)) \in Seq(S)
  <2>1. i + 1 \in Nat \ {0} /\ Len(s) \in 0..Len(s)
    BY <1>1
  <2> QED  BY <2>1, PieceIsSeq
<1> QED  BY <1>2, <1>3, ConcatProperties DEF RemoveAt

-----------------------------------------------------------------------------
(* TaskPolicy                                                              *)

LEMMA EditsAreRecords ==
    ASSUME PolicyTypeOK, NEW a \in PolicyAgents, policyCopy[a].version < MaxPolicyVersion
    PROVE  /\ Edits(a) \subseteq Records
           /\ \A c \in Candidates : Added(a, c) \in Records
<1> DEFINE old == policyCopy[a]
<1>1. /\ old \in Records /\ old.version \in Nat /\ old.version + 1 \in 0..MaxPolicyVersion
      /\ old.instructions \in Seq(Texts)
  BY PolicyAssumption DEF PolicyTypeOK, Records
<1>2. \A s \in Seq(Texts) : Edited(a, s) \in Records
  BY <1>1 DEF Edited, Records
<1>3. \A x \in Texts : Added(a, x) \in Records
  <2>1. \A x \in Texts : Append(old.instructions, x) \in Seq(Texts)
    BY <1>1, AppendProperties
  <2> QED  BY <1>2, <2>1 DEF Added
<1>4. \A i \in DOMAIN old.instructions : Edited(a, RemoveAt(old.instructions, i)) \in Records
  BY <1>1, <1>2, RemoveIsSeq
<1>5. Manual \in Texts /\ Candidates \subseteq Texts
  BY DEF Texts
<1>6. <<Manual>> \in Seq(Texts)
  BY <1>5
<1> QED  BY <1>2, <1>3, <1>4, <1>5, <1>6 DEF Edits

LEMMA EmptyIsRecord == Empty \in Records
  BY PolicyAssumption DEF Empty, Records

LEMMA SeedIsRecord == [version |-> 1, instructions |-> <<Default>>] \in Records
<1>1. <<Default>> \in Seq(Texts) /\ 1 \in 0..MaxPolicyVersion
  BY PolicyAssumption DEF Texts
<1> QED  BY <1>1 DEF Records

\* What a commit leaves, whoever makes it.
LEMMA CommitEffects ==
    ASSUME PolicyTypeOK, NEW a \in PolicyAgents, NEW record \in Records, Commit(a, record)
    PROVE  /\ policyStored' \in Records /\ policyCopy' \in [PolicyAgents -> Records]
           /\ policySynced' = {a} /\ policyCopy'[a] = policyStored'
           /\ promoted \subseteq promoted' /\ promoted' \subseteq Candidates
  BY DEF Commit, StoreSet, PolicyTypeOK

\* An approved candidate is in the policy before its record goes.
ApprovedIsPromoted ==
    \A a \in PolicyAgents : approving[a] # None => approving[a] \in promoted

PolicyInv == PolicyTypeOK /\ CopyIsStored /\ NoCandidateLost /\ ApprovedIsPromoted

LEMMA PolicyInit_Inv == PolicyInit => PolicyInv
<1> SUFFICES ASSUME PolicyInit PROVE PolicyInv
  OBVIOUS
<1>1. PolicyTypeOK
  BY EmptyIsRecord, PolicyAssumption DEF PolicyInit, PolicyTypeOK
<1> QED  BY <1>1 DEF PolicyInit, PolicyInv, CopyIsStored, NoCandidateLost, ApprovedIsPromoted

LEMMA PolicyNext_Inv == PolicyInv /\ [PolicyNext]_policyVars => PolicyInv'
<1> SUFFICES ASSUME PolicyInv, [PolicyNext]_policyVars PROVE PolicyInv'
  OBVIOUS
<1> USE DEF PolicyInv
<1>1. CASE UNCHANGED policyVars
  BY <1>1 DEF policyVars, PolicyTypeOK, CopyIsStored, NoCandidateLost, ApprovedIsPromoted
<1>2. ASSUME NEW a \in PolicyAgents, Start(a) PROVE PolicyInv'
  <2>1. CASE Seed(a)
    <3>1. /\ policyStored' \in Records /\ policyCopy' \in [PolicyAgents -> Records]
          /\ policySynced' = {a} /\ policyCopy'[a] = policyStored'
          /\ promoted \subseteq promoted' /\ promoted' \subseteq Candidates
      BY <2>1, SeedIsRecord, CommitEffects DEF Seed
    <3> QED
      BY <1>2, <3>1 DEF Start, PolicyTypeOK, CopyIsStored, NoCandidateLost, ApprovedIsPromoted
  <2>2. CASE Load(a)
    BY <1>2, <2>2
    DEF Start, Load, PolicyTypeOK, CopyIsStored, NoCandidateLost, ApprovedIsPromoted
  <2> QED  BY <1>2, <2>1, <2>2 DEF Start
<1>3. ASSUME NEW a \in PolicyAgents, Reload(a) PROVE PolicyInv'
  BY <1>3 DEF Reload, Load, PolicyTypeOK, CopyIsStored, NoCandidateLost, ApprovedIsPromoted
<1>4. ASSUME NEW a \in PolicyAgents, Edit(a) PROVE PolicyInv'
  <2>1. PICK record \in Records : Commit(a, record)
    BY <1>4, EditsAreRecords DEF Edit
  <2>2. /\ policyStored' \in Records /\ policyCopy' \in [PolicyAgents -> Records]
        /\ policySynced' = {a} /\ policyCopy'[a] = policyStored'
        /\ promoted \subseteq promoted' /\ promoted' \subseteq Candidates
    BY <2>1, CommitEffects
  <2> QED
    BY <1>4, <2>2 DEF Edit, PolicyTypeOK, CopyIsStored, NoCandidateLost, ApprovedIsPromoted
<1>5. ASSUME NEW a \in PolicyAgents, EditRaises(a) PROVE PolicyInv'
  <2>1. PICK record \in Records : CommitRaises(a, record)
    BY <1>5, EditsAreRecords DEF EditRaises
  <2>2. policyFaults' \in 0..MaxPolicyFaults
    BY <1>5, PolicyAssumption DEF EditRaises, PolicyTypeOK
  <2> QED
    BY <1>5, <2>1, <2>2 DEF EditRaises, CommitRaises, StoreSet, PolicyTypeOK, CopyIsStored,
       NoCandidateLost, ApprovedIsPromoted
<1>6. ASSUME NEW a \in PolicyAgents, ClearPolicy(a) PROVE PolicyInv'
  <2>1. Commit(a, Empty)
    BY <1>6 DEF ClearPolicy
  <2>2. /\ policyStored' \in Records /\ policyCopy' \in [PolicyAgents -> Records]
        /\ policySynced' = {a} /\ policyCopy'[a] = policyStored'
        /\ promoted \subseteq promoted' /\ promoted' \subseteq Candidates
    BY <2>1, CommitEffects, EmptyIsRecord
  <2> QED
    BY <1>6, <2>2 DEF ClearPolicy, PolicyTypeOK, CopyIsStored, NoCandidateLost, ApprovedIsPromoted
<1>7. ASSUME NEW a \in PolicyAgents, ApproveDeletes(a) PROVE PolicyInv'
  BY <1>7 DEF ApproveDeletes, PolicyTypeOK, CopyIsStored, NoCandidateLost, ApprovedIsPromoted
<1>8. ASSUME NEW a \in PolicyAgents, CrashAgent(a) PROVE PolicyInv'
  <2>1. policyFaults' \in 0..MaxPolicyFaults /\ policyCopy' \in [PolicyAgents -> Records]
    BY <1>8, PolicyAssumption, EmptyIsRecord DEF CrashAgent, PolicyTypeOK
  <2> QED
    BY <1>8, <2>1 DEF CrashAgent, PolicyTypeOK, CopyIsStored, NoCandidateLost, ApprovedIsPromoted
<1>9. ASSUME NEW a \in PolicyAgents, NEW c \in Candidates, Hold(a, c) PROVE PolicyInv'
  BY <1>9 DEF Hold, PolicyTypeOK, CopyIsStored, NoCandidateLost, ApprovedIsPromoted
<1>10. ASSUME NEW a \in PolicyAgents, NEW c \in Candidates, Approve(a, c) PROVE PolicyInv'
  <2> DEFINE record == Added(a, c)
  <2>1. record \in Records /\ Commit(a, record)
    BY <1>10, EditsAreRecords DEF Approve
  <2>2. /\ policyStored' \in Records /\ policyCopy' \in [PolicyAgents -> Records]
        /\ policySynced' = {a} /\ policyCopy'[a] = policyStored'
        /\ promoted \subseteq promoted' /\ promoted' \subseteq Candidates
    BY <2>1, CommitEffects
  <2>3. c \in promoted'
    <3>1. policyCopy[a].instructions \in Seq(Texts) /\ c \in Texts
      BY DEF PolicyTypeOK, Records, Texts
    <3>2. c \in ToSet(Append(policyCopy[a].instructions, c))
      BY <3>1, ElementsOfAppend
    <3>3. record.instructions = Append(policyCopy[a].instructions, c)
      BY DEF Added, Edited
    <3> QED  BY <2>1, <3>2, <3>3 DEF Commit, StoreSet
  <2> QED
    BY <1>10, <2>2, <2>3
    DEF Approve, PolicyTypeOK, CopyIsStored, NoCandidateLost, ApprovedIsPromoted
<1>11. ASSUME NEW a \in PolicyAgents, NEW c \in Candidates, Reject(a, c) PROVE PolicyInv'
  BY <1>11 DEF Reject, PolicyTypeOK, CopyIsStored, NoCandidateLost, ApprovedIsPromoted
<1> QED
  BY <1>1, <1>2, <1>3, <1>4, <1>5, <1>6, <1>7, <1>8, <1>9, <1>10, <1>11 DEF PolicyNext

(* A process prompts with the stored instructions until somebody else writes
   them, and no instruction offered for approval is lost: it is pending,
   rejected, or was in the stored policy, through saves that raise and deaths
   between approving and deleting. *)
THEOREM InstructionsAlwaysSurvive == PolicySpec => []InstructionsSurvive
<1>1. PolicyInv => InstructionsSurvive
  BY DEF PolicyInv, InstructionsSurvive
<1> QED  BY <1>1, PolicyInit_Inv, PolicyNext_Inv, PTL DEF PolicySpec

-----------------------------------------------------------------------------
(* RollingSummary                                                          *)

\* A sequence is the first n of another when it agrees with it so far.
LEMMA FirstOnes ==
    ASSUME NEW S, NEW s \in Seq(S), NEW t \in Seq(S), NEW n \in 0..Len(t)
    PROVE  s = SubSeq(t, 1, n) <=> Len(s) = n /\ \A i \in 1..n : s[i] = t[i]
<1>1. /\ Len(t) \in Nat /\ n \in Nat /\ Len(s) \in Nat
      /\ SubSeq(t, 1, n) \in Seq(S) /\ Len(SubSeq(t, 1, n)) = n
      /\ \A i \in 1..n : SubSeq(t, 1, n)[i] = t[i]
  <2>1. Len(t) \in Nat /\ n \in Nat /\ Len(s) \in Nat /\ n - 1 + 1 = n
    BY LenProperties
  <2>2. SubSeq(t, 1, n) \in Seq(S) /\ Len(SubSeq(t, 1, n)) = n
    <3>1. CASE n = 0
      BY <2>1, <3>1
    <3>2. CASE n # 0
      BY <2>1, <3>2
    <3> QED  BY <3>1, <3>2
  <2>3. \A i \in 1..n : SubSeq(t, 1, n)[i] = t[i]
    BY <2>1
  <2> QED  BY <2>1, <2>2, <2>3
<1>2. ASSUME Len(s) = n, \A i \in 1..n : s[i] = t[i] PROVE s = SubSeq(t, 1, n)
  <2> DEFINE u == SubSeq(t, 1, n)
  <2>1. u \in Seq(S) /\ Len(u) = Len(s) /\ \A i \in 1..Len(s) : s[i] = u[i]
    BY <1>1, <1>2
  <2> HIDE DEF u
  <2>2. s = u
    BY <2>1, SeqEqual
  <2> QED  BY <2>2 DEF u
<1> QED  BY <1>1, <1>2

\* The stored summary is of the turns it covers, if the thread still has them,
\* and the thread only grows behind a refresh that made sure it has.
Covers ==
    /\ turns \in Seq(1..MaxTurnsMade) /\ turnsMade \in 0..MaxTurnsMade
    /\ summary \in [covered : Nat, of : Seq(1..MaxTurnsMade)]
    /\ call \in {"idle", "refresh", "call"}
    /\ summary.covered <= Len(turns) =>
          /\ Len(summary.of) = summary.covered
          /\ \A i \in 1..summary.covered : summary.of[i] = turns[i]
    /\ call = "call" => summary.covered <= Len(turns)

SummaryInv == Covers /\ FoldedInTime

LEMMA FrontierInThread ==
    ASSUME Covers PROVE Frontier \in Nat /\ Frontier <= Len(turns)
<1>1. Len(turns) \in Nat /\ KeepLast \in Nat
  BY LenProperties, SummaryAssumption DEF Covers
<1> QED  BY <1>1 DEF Frontier

\* What refresh starts from is of turns the thread has.
LEMMA LoadedCovers ==
    ASSUME Covers
    PROVE  /\ Loaded \in [covered : Nat, of : Seq(1..MaxTurnsMade)]
           /\ Loaded.covered <= Len(turns) /\ Len(Loaded.of) = Loaded.covered
           /\ \A i \in 1..Loaded.covered : Loaded.of[i] = turns[i]
<1>1. Len(turns) \in Nat
  BY LenProperties DEF Covers
<1>2. CASE summary.covered > Len(turns)
  <2>1. Loaded = NoSummary
    BY <1>2 DEF Loaded
  <2> QED  BY <1>1, <2>1 DEF NoSummary
<1>3. CASE ~(summary.covered > Len(turns))
  <2>1. Loaded = summary /\ summary.covered <= Len(turns)
    BY <1>1, <1>3 DEF Loaded, Covers
  <2> QED  BY <2>1 DEF Covers
<1> QED  BY <1>2, <1>3

LEMMA FoldedCovers ==
    ASSUME Covers, WorthFolding(Loaded)
    PROVE  /\ Folded(Loaded) \in [covered : Nat, of : Seq(1..MaxTurnsMade)]
           /\ Folded(Loaded).covered = Frontier /\ Len(Folded(Loaded).of) = Frontier
           /\ \A i \in 1..Frontier : Folded(Loaded).of[i] = turns[i]
<1> DEFINE c    == Loaded.covered
           text == Loaded.of
           rest == SubSeq(turns, c + 1, Frontier)
<1>1. /\ Frontier \in Nat /\ c \in Nat /\ Frontier > c /\ Len(turns) \in Nat
      /\ Frontier <= Len(turns) /\ turns \in Seq(1..MaxTurnsMade)
      /\ text \in Seq(1..MaxTurnsMade) /\ Len(text) = c
      /\ \A i \in 1..c : text[i] = turns[i]
  BY FrontierInThread, LoadedCovers, LenProperties DEF WorthFolding, Covers
<1>2. Folded(Loaded) = [covered |-> Frontier, of |-> text \o rest]
  BY DEF Folded
<1> HIDE DEF c, text
<1>3. /\ rest \in Seq(1..MaxTurnsMade) /\ Len(rest) = Frontier - c
      /\ \A i \in 1..(Frontier - c) : rest[i] = turns[c + i]
  <2>1. c + 1 \in Nat \ {0} /\ Frontier \in 0..Len(turns) /\ c + 1 \in 1..(Frontier + 1)
        /\ Frontier - (c + 1) + 1 = Frontier - c
    BY <1>1
  <2>2. rest \in Seq(1..MaxTurnsMade)
    BY <1>1, <2>1, PieceIsSeq
  <2>3. \A i \in 1..(Frontier - c) : (c + 1) + i - 1 = c + i /\ i \in Nat
    BY <1>1
  <2>4. /\ Len(rest) = Frontier - c
        /\ \A i \in 1..(Frontier - c) : rest[i] = turns[(c + 1) + i - 1]
    BY <1>1, <2>1
  <2> QED  BY <2>2, <2>3, <2>4
<1> HIDE DEF rest
<1>4. /\ text \o rest \in Seq(1..MaxTurnsMade) /\ Len(text \o rest) = Frontier
      /\ \A i \in 1..Frontier : (text \o rest)[i] = IF i <= c THEN text[i] ELSE rest[i - c]
  <2> DEFINE k == Frontier - c
  <2>1. /\ text \in Seq(1..MaxTurnsMade) /\ rest \in Seq(1..MaxTurnsMade)
        /\ c = Len(text) /\ k = Len(rest) /\ c + k = Frontier
    BY <1>1, <1>3
  <2> HIDE DEF k
  <2>2. /\ text \o rest \in Seq(1..MaxTurnsMade) /\ Len(text \o rest) = c + k
        /\ \A i \in 1..(c + k) : (text \o rest)[i] = IF i <= c THEN text[i] ELSE rest[i - c]
    <3> DEFINE S == 1..MaxTurnsMade
    <3>1. text \in Seq(S) /\ rest \in Seq(S)
      BY <2>1
    <3> HIDE DEF S
    <3>2. text \o rest \in Seq(S) /\ Len(text \o rest) = c + k
      BY <2>1, <3>1, JoinedPlaces
    <3>3. \A i \in 1..(c + k) : (text \o rest)[i] = IF i <= c THEN text[i] ELSE rest[i - c]
      BY <2>1, <3>1, JoinedPlaces
    <3> QED  BY <3>2, <3>3 DEF S
  <2> QED  BY <2>1, <2>2
<1>5. ASSUME NEW i \in 1..Frontier PROVE (text \o rest)[i] = turns[i]
  <2>1. CASE i <= c
    BY <1>1, <1>4, <2>1
  <2>2. CASE ~(i <= c)
    <3>1. i - c \in 1..(Frontier - c) /\ c + (i - c) = i
      BY <1>1, <2>2
    <3> QED  BY <1>3, <1>4, <2>2, <3>1
  <2> QED  BY <2>1, <2>2
<1> QED  BY <1>1, <1>2, <1>4, <1>5

LEMMA SummaryInit_Inv == SummaryInit => SummaryInv
  BY SummaryAssumption DEF SummaryInit, SummaryInv, Covers, FoldedInTime, NoSummary

LEMMA SummaryNext_Inv == SummaryInv /\ [SummaryNext]_summaryVars => SummaryInv'
<1> SUFFICES ASSUME SummaryInv, [SummaryNext]_summaryVars PROVE SummaryInv'
  OBVIOUS
<1> USE DEF SummaryInv
<1>1. CASE UNCHANGED summaryVars
  BY <1>1 DEF summaryVars, Covers, FoldedInTime, Frontier
<1>2. CASE BeginCall
  BY <1>2 DEF BeginCall, Covers, FoldedInTime
<1>3. CASE Refresh
  <2>1. call' = "call" /\ turns' = turns /\ turnsMade' = turnsMade /\ Frontier' = Frontier
    BY <1>3 DEF Refresh, Frontier
  <2>2. CASE WorthFolding(Loaded)
    <3>1. summary' = Folded(Loaded)
      BY <1>3, <2>2 DEF Refresh
    <3>2. /\ summary' \in [covered : Nat, of : Seq(1..MaxTurnsMade)]
          /\ summary'.covered = Frontier /\ Len(summary'.of) = Frontier
          /\ \A i \in 1..Frontier : summary'.of[i] = turns[i]
      BY <2>2, <3>1, FoldedCovers
    <3>3. Frontier \in Nat /\ Frontier <= Len(turns)
      BY FrontierInThread
    <3> QED  BY <2>1, <3>2, <3>3 DEF Covers, FoldedInTime
  <2>3. CASE ~WorthFolding(Loaded)
    <3>1. summary' = Loaded
      BY <1>3, <2>3 DEF Refresh
    <3>2. Frontier > summary'.covered => Frontier - summary'.covered < Trigger
      <4>1. Frontier \in Nat /\ Trigger \in Nat /\ Loaded.covered \in Nat
        BY FrontierInThread, SummaryAssumption, LoadedCovers
      <4> QED  BY <2>3, <3>1, <4>1 DEF WorthFolding
    <3> QED  BY <2>1, <3>1, <3>2, LoadedCovers DEF Covers, FoldedInTime
  <2> QED  BY <2>2, <2>3
<1>4. CASE RefreshRaises
  BY <1>4, LoadedCovers DEF RefreshRaises, Covers, FoldedInTime
<1>5. CASE EndCall
  <2>1. /\ call' = "idle" /\ summary' = summary /\ summary.covered <= Len(turns)
        /\ Len(turns) \in Nat /\ summary.covered \in Nat
    BY <1>5, LenProperties DEF EndCall, Covers
  <2>2. CASE UNCHANGED <<turns, turnsMade>>
    BY <2>1, <2>2 DEF Covers, FoldedInTime
  <2>3. CASE ~UNCHANGED <<turns, turnsMade>>
    <3> DEFINE k == turnsMade + 1
    <3>1. turnsMade' = k /\ turns' = Append(turns, k) /\ k \in 1..MaxTurnsMade
      BY <1>5, <2>3, SummaryAssumption DEF EndCall, Covers
    <3>2. /\ turns' \in Seq(1..MaxTurnsMade) /\ Len(turns') = Len(turns) + 1
          /\ \A i \in 1..Len(turns) : turns'[i] = turns[i]
      BY <3>1, AppendProperties DEF Covers
    <3>3. \A i \in 1..summary.covered : i \in 1..Len(turns)
      BY <2>1
    <3> QED  BY <2>1, <3>1, <3>2, <3>3, SummaryAssumption DEF Covers, FoldedInTime
  <2> QED  BY <2>2, <2>3
<1>6. ASSUME NEW n \in 0..MaxTurnsMade, CutThread(n) PROVE SummaryInv'
  <2>1. /\ call = "idle" /\ call' = call /\ turns' = SubSeq(turns, 1, n)
        /\ turnsMade' = turnsMade /\ summary' = summary
        /\ n \in 0..Len(turns) /\ Len(turns) \in Nat /\ summary.covered \in Nat
    BY <1>6, LenProperties, SummaryAssumption DEF CutThread, Covers
  <2>2. turns' \in Seq(1..MaxTurnsMade)
    <3>1. 1 \in Nat \ {0} /\ turns \in Seq(1..MaxTurnsMade)
      BY DEF Covers
    <3>2. SubSeq(turns, 1, n) \in Seq(1..MaxTurnsMade)
      BY <2>1, <3>1, PieceIsSeq
    <3> QED  BY <2>1, <3>2
  <2>3. Len(turns') = n /\ \A i \in 1..n : turns'[i] = turns[i]
    BY <2>1, <2>2, FirstOnes DEF Covers
  <2>4. ASSUME summary.covered <= n
        PROVE  /\ Len(summary.of) = summary.covered
               /\ \A i \in 1..summary.covered : summary.of[i] = turns'[i]
    <3>1. summary.covered <= Len(turns) /\ \A i \in 1..summary.covered : i \in 1..n
      BY <2>1, <2>4
    <3> QED  BY <2>3, <3>1 DEF Covers
  <2> QED  BY <2>1, <2>2, <2>3, <2>4 DEF Covers, FoldedInTime
<1>7. CASE ResetSummary
  BY <1>7, LenProperties DEF ResetSummary, Covers, FoldedInTime, NoSummary
<1> QED  BY <1>1, <1>2, <1>3, <1>4, <1>5, <1>6, <1>7 DEF SummaryNext

(* The summary a prompt carries is of the oldest turns of the thread as it is,
   each once and none that was rolled back, and leaves fewer than the trigger
   unfolded, however often the thread was cut and grew again, whatever calls
   and saves raised. *)
THEOREM SummaryIsAlwaysOfThread == SummarySpec => []SummaryIsOfThread
<1>1. SummaryInv => SummaryIsOfThread
  <2> SUFFICES ASSUME SummaryInv, call = "call"
               PROVE  /\ summary.covered <= Len(turns)
                      /\ summary.of = SubSeq(turns, 1, summary.covered)
    BY DEF SummaryInv, SummaryIsOfThread, SummaryIsPrefix
  <2>1. /\ Len(turns) \in Nat /\ summary.covered \in 0..Len(turns)
        /\ summary.of \in Seq(1..MaxTurnsMade) /\ turns \in Seq(1..MaxTurnsMade)
        /\ Len(summary.of) = summary.covered
        /\ \A i \in 1..summary.covered : summary.of[i] = turns[i]
    BY LenProperties DEF SummaryInv, Covers
  <2> QED  BY <2>1, FirstOnes
<1> QED  BY <1>1, SummaryInit_Inv, SummaryNext_Inv, PTL DEF SummarySpec

-----------------------------------------------------------------------------
(* ThreadFork                                                              *)

Items == 1..ForkItems

\* Turns name their items in order, so that the n-th is of the n-th item or of
\* a later one.
ItemsAscend(s) ==
    /\ \A k, l \in 1..Len(s) : k < l => s[k] < s[l]
    /\ \A k \in 1..Len(s) : s[k] >= k

Stages ==
    {NotForking} \cup [at : {"insert", "chats"}, upto : 0..All, turns : Seq(Items)]
                 \cup [at : {"facts", "verdicts"}, upto : 0..All, left : SUBSET Items]

\* The source's items end in order, and what answered has its turn.
SourceInOrder ==
    /\ srcTurns \in Seq(Items) /\ ItemsAscend(srcTurns)
    /\ srcFact \in [Items -> {"none", "ok", "error"}]
    /\ \A i, j \in Items : i < j /\ srcFact[i] = "none" => srcFact[j] = "none"
    /\ \A i \in ToSet(srcTurns) : srcFact[i] # "none"
    /\ \A i \in Items : srcFact[i] = "ok" => i \in ToSet(srcTurns)

\* What a fork under way has read is still the source's, and what it has yet
\* to copy is of turns it copied.
ForksInStep ==
    /\ dstTurns \in Seq(Items)
    /\ forking \in [Forkers -> Stages]
    /\ \A f \in Forkers :
        /\ forking[f].at \in {"insert", "chats"} =>
              /\ ItemsAscend(forking[f].turns)
              /\ ~srcMoved => forking[f].turns = Prefix(srcTurns, forking[f].upto)
        /\ forking[f].at = "chats" => ToSet(forking[f].turns) \subseteq ToSet(dstTurns)
        /\ forking[f].at = "facts" /\ ~srcMoved => forking[f].left \subseteq ToSet(dstTurns)

\* As long as no two forks passed the check side by side.
AloneAtInsert ==
    ~together => \A f \in Forkers :
        forking[f].at = "insert" => /\ dstTurns = << >>
                                    /\ \A g \in Forkers \ {f} : forking[g].at # "insert"

ForkInv == SourceInOrder /\ ForksInStep /\ AloneAtInsert /\ BranchIsWhole

LEMMA PrefixPlaces ==
    ASSUME NEW s \in Seq(Items), NEW n \in Nat
    PROVE  /\ Prefix(s, n) \in Seq(Items)
           /\ Len(Prefix(s, n)) = IF n < Len(s) THEN n ELSE Len(s)
           /\ \A k \in 1..Len(Prefix(s, n)) : Prefix(s, n)[k] = s[k]
           /\ ItemsAscend(s) => ItemsAscend(Prefix(s, n))
<1> DEFINE m == IF n < Len(s) THEN n ELSE Len(s)
           p == SubSeq(s, 1, m)
           S == Items
<1>1. Len(s) \in Nat /\ m \in 0..Len(s) /\ s \in Seq(S)
  BY LenProperties
<1> HIDE DEF m, S
<1>2. p \in Seq(S)
  BY <1>1, PieceIsSeq
<1>3. Len(p) = m /\ \A k \in 1..m : p[k] = s[k]
  <2> HIDE DEF p
  <2>1. p = SubSeq(s, 1, m)
    BY DEF p
  <2> QED  BY <1>1, <1>2, <2>1, FirstOnes
<1> HIDE DEF p
<1>4. Prefix(s, n) = p
  BY DEF Prefix, p, m
<1>5. \A k \in 1..m : k \in 1..Len(s)
  BY <1>1
<1>6. ItemsAscend(s) => ItemsAscend(p)
  BY <1>3, <1>5 DEF ItemsAscend
<1> QED  BY <1>2, <1>3, <1>4, <1>6 DEF m, S

LEMMA AscendingIsInjective ==
    ASSUME NEW s \in Seq(Items), ItemsAscend(s)
    PROVE  IsInjective(s)
<1>1. Len(s) \in Nat /\ DOMAIN s = 1..Len(s) /\ \A k \in 1..Len(s) : s[k] \in Nat
  <2>1. Items \subseteq Nat
    BY ForkAssumption DEF Items
  <2> QED  BY <2>1, LenProperties, ElementOfSeq
<1>2. ASSUME NEW k \in 1..Len(s), NEW l \in 1..Len(s), s[k] = s[l] PROVE k = l
  <2>1. s[k] \in Nat /\ s[l] \in Nat /\ (k < l => s[k] < s[l]) /\ (l < k => s[l] < s[k])
    BY <1>1 DEF ItemsAscend
  <2> QED  BY <1>1, <1>2, <2>1
<1> QED  BY <1>1, <1>2 DEF IsInjective

\* The facts up to an item boundary are of turns the copy has.
LEMMA BoundaryCoversFacts ==
    ASSUME SourceInOrder, NEW n \in Nat, NEW i \in Items, i <= n, srcFact[i] = "ok"
    PROVE  i \in ToSet(Prefix(srcTurns, n))
<1> DEFINE p == Prefix(srcTurns, n)
<1>1. srcTurns \in Seq(Items) /\ Len(srcTurns) \in Nat /\ DOMAIN srcTurns = 1..Len(srcTurns)
  BY LenProperties DEF SourceInOrder
<1>2. PICK k \in 1..Len(srcTurns) : srcTurns[k] = i
  BY <1>1 DEF SourceInOrder, ToSet
<1>3. i \in Nat /\ k \in Nat /\ k <= i
  BY <1>1, <1>2, ForkAssumption DEF SourceInOrder, ItemsAscend, Items
<1>4. k <= n
  BY <1>3
<1>5. /\ p \in Seq(Items) /\ Len(p) = IF n < Len(srcTurns) THEN n ELSE Len(srcTurns)
      /\ \A j \in 1..Len(p) : p[j] = srcTurns[j]
  BY <1>1, PrefixPlaces
<1>6. k \in 1..Len(p)
  BY <1>1, <1>4, <1>5
<1>7. p[k] = i /\ k \in DOMAIN p
  BY <1>2, <1>5, <1>6, LenProperties
<1> QED  BY <1>7 DEF ToSet

LEMMA AppendAscends ==
    ASSUME NEW s \in Seq(Items), ItemsAscend(s), NEW i \in Items, \A j \in ToSet(s) : j < i
    PROVE  Append(s, i) \in Seq(Items) /\ ItemsAscend(Append(s, i))
<1> DEFINE t == Append(s, i)
           n == Len(s)
<1>1. /\ n \in Nat /\ t \in Seq(Items) /\ Len(t) = n + 1 /\ t[n + 1] = i
      /\ \A k \in 1..n : t[k] = s[k]
  BY AppendProperties, LenProperties
<1>2. i \in Nat /\ \A k \in 1..n : s[k] \in Nat /\ s[k] < i /\ s[k] >= k
  <2>1. DOMAIN s = 1..n /\ Items \subseteq Nat
    BY ForkAssumption, LenProperties DEF Items
  <2>2. \A k \in 1..n : s[k] \in Items /\ s[k] \in ToSet(s)
    BY <2>1, ElementOfSeq DEF ToSet
  <2> QED  BY <2>1, <2>2 DEF ItemsAscend
<1>3. i >= n + 1
  <2>1. CASE n = 0
    BY <1>1, <2>1 DEF Items
  <2>2. CASE n # 0
    <3>1. n \in 1..n
      BY <1>1, <2>2
    <3> QED  BY <1>1, <1>2, <3>1
  <2> QED  BY <2>1, <2>2
<1>4. \A k, l \in 1..n : k < l => s[k] < s[l]
  BY DEF ItemsAscend
<1> HIDE DEF t, n
<1>5. ASSUME NEW k \in 1..(n + 1), NEW l \in 1..(n + 1), k < l PROVE t[k] < t[l]
  <2>1. k \in 1..n
    BY <1>1, <1>5
  <2>2. CASE l = n + 1
    BY <1>1, <1>2, <2>1, <2>2
  <2>3. CASE l # n + 1
    <3>1. l \in 1..n
      BY <1>1, <2>3
    <3> QED  BY <1>1, <1>4, <1>5, <2>1, <3>1
  <2> QED  BY <2>2, <2>3
<1>6. ASSUME NEW k \in 1..(n + 1) PROVE t[k] >= k
  <2>1. CASE k = n + 1
    BY <1>1, <1>3, <2>1
  <2>2. CASE k # n + 1
    <3>1. k \in 1..n
      BY <1>1, <2>2
    <3> QED  BY <1>1, <1>2, <3>1
  <2> QED  BY <2>1, <2>2
<1> QED  BY <1>1, <1>5, <1>6 DEF ItemsAscend, t

LEMMA ForkInit_Inv == ForkInit => ForkInv
<1> SUFFICES ASSUME ForkInit PROVE ForkInv
  OBVIOUS
<1>1. SourceInOrder
  BY DEF ForkInit, SourceInOrder, ItemsAscend, ToSet, Items
<1>2. ForksInStep
  BY DEF ForkInit, ForksInStep, Stages, NotForking
<1>3. AloneAtInsert
  BY DEF ForkInit, AloneAtInsert, NotForking
<1>4. BranchIsWhole
  BY DEF ForkInit, BranchIsWhole, ForkedFactsHaveTurns, ForkedOnce, IsInjective
<1> QED  BY <1>1, <1>2, <1>3, <1>4 DEF ForkInv

\* The source ends an item: it stays in order, and no fork notices unless the
\* source is known to have moved.
LEMMA SourceItem_Inv ==
    ASSUME ForkInv, NEW o \in Outcomes, SourceItem(o)
    PROVE  ForkInv'
<1> USE DEF ForkInv
<1>1. PICK i \in Items :
         /\ srcFact[i] = "none" /\ \A j \in 1..(i - 1) : srcFact[j] # "none"
         /\ srcTurns' = IF o = "error" THEN srcTurns ELSE Append(srcTurns, i)
         /\ srcFact' = [srcFact EXCEPT ![i] = IF o = "ok" THEN "ok" ELSE "error"]
         /\ srcMoved' = (srcMoved \/ Reading)
         /\ UNCHANGED <<dstTurns, dstChats, dstFact, dstVerdict, forking, together>>
  BY DEF SourceItem, Items
<1>2. i \in Nat /\ Items \subseteq Nat /\ \A j \in Items : j < i => j \in 1..(i - 1)
  BY ForkAssumption DEF Items
<1>3. \A j \in ToSet(srcTurns) : j \in Items /\ j < i
  <2> SUFFICES ASSUME NEW j \in ToSet(srcTurns) PROVE j \in Items /\ j < i
    OBVIOUS
  <2>1. j \in Items /\ srcFact[j] # "none"
    BY ElementOfSeq, LenProperties DEF SourceInOrder, ToSet
  <2>2. j # i /\ ~(i < j)
    BY <1>1, <2>1 DEF SourceInOrder
  <2> QED  BY <1>2, <2>1, <2>2
<1>4. SourceInOrder'
  <2>1. srcTurns' \in Seq(Items) /\ ItemsAscend(srcTurns')
    BY <1>1, <1>3, AppendAscends DEF SourceInOrder
  <2>2. ToSet(srcTurns') = IF o = "error" THEN ToSet(srcTurns) ELSE ToSet(srcTurns) \cup {i}
    BY <1>1, ElementsOfAppend DEF SourceInOrder
  <2>3. srcFact' \in [Items -> {"none", "ok", "error"}]
    BY <1>1 DEF SourceInOrder
  <2>4. /\ srcFact'[i] # "none" /\ (srcFact'[i] = "ok" => o # "error")
        /\ \A j \in Items \ {i} : srcFact'[j] = srcFact[j]
    BY <1>1 DEF SourceInOrder
  <2>5. ASSUME NEW j \in Items, NEW k \in Items, j < k, srcFact'[j] = "none"
        PROVE  srcFact'[k] = "none"
    <3>1. srcFact[j] = "none" /\ j # i
      BY <2>4, <2>5
    <3>2. srcFact[k] = "none"
      BY <2>5, <3>1 DEF SourceInOrder
    <3>3. k # i
      BY <1>1, <1>2, <2>5, <3>1
    <3> QED  BY <2>4, <3>2, <3>3
  <2>6. \A j \in ToSet(srcTurns') : srcFact'[j] # "none"
    BY <1>3, <2>2, <2>4 DEF SourceInOrder
  <2>7. \A j \in Items : srcFact'[j] = "ok" => j \in ToSet(srcTurns')
    BY <2>2, <2>4 DEF SourceInOrder
  <2> QED  BY <2>1, <2>3, <2>5, <2>6, <2>7 DEF SourceInOrder
<1>5. ForksInStep'
  <2>1. ASSUME ~srcMoved' PROVE ~srcMoved /\ \A f \in Forkers : forking[f].at = "idle"
    BY <1>1, <2>1 DEF Reading
  <2>2. dstTurns' = dstTurns /\ forking' = forking
    BY <1>1
  <2> QED  BY <2>1, <2>2 DEF ForksInStep
<1>6. AloneAtInsert'
  BY <1>1 DEF AloneAtInsert
<1>7. BranchIsWhole'
  BY <1>1 DEF BranchIsWhole, ForkedFactsHaveTurns, ForkedOnce
<1> QED  BY <1>4, <1>5, <1>6, <1>7

\* The copy only grows, and the forks' own steps leave the source alone.
LEMMA ForkBegin_Inv ==
    ASSUME ForkInv, NEW f \in Forkers, NEW upto \in 0..All, ForkBegin(f, upto)
    PROVE  ForkInv'
<1> USE DEF ForkInv
<1> DEFINE stage == [at |-> "insert", upto |-> upto, turns |-> CopiedTurns(upto)]
<1>1. /\ forking' = [forking EXCEPT ![f] = stage]
      /\ dstTurns = << >> /\ dstTurns' = dstTurns /\ dstFact' = dstFact
      /\ srcTurns' = srcTurns /\ srcFact' = srcFact /\ srcMoved' = srcMoved
      /\ together' = (together \/ \E g \in Forkers : forking[g].at = "insert")
  BY DEF ForkBegin, Goes, Refused
<1>2. /\ stage \in Stages /\ stage.at = "insert" /\ stage.upto = upto
      /\ stage.turns = Prefix(srcTurns, upto) /\ ItemsAscend(stage.turns)
  <2>1. upto \in Nat
    BY ForkAssumption DEF All
  <2>2. Prefix(srcTurns, upto) \in Seq(Items) /\ ItemsAscend(Prefix(srcTurns, upto))
    BY <2>1, PrefixPlaces DEF SourceInOrder
  <2> QED  BY <2>2 DEF Stages, CopiedTurns
<1> HIDE DEF stage
<1>3. forking'[f] = stage /\ \A g \in Forkers \ {f} : forking'[g] = forking[g]
  BY <1>1 DEF ForksInStep
<1>4. SourceInOrder'
  BY <1>1 DEF SourceInOrder
<1>5. ForksInStep'
  <2>1. forking' \in [Forkers -> Stages]
    BY <1>1, <1>2 DEF ForksInStep
  <2> QED  BY <1>1, <1>2, <1>3, <2>1 DEF ForksInStep
<1>6. AloneAtInsert'
  BY <1>1, <1>2, <1>3 DEF AloneAtInsert
<1>7. BranchIsWhole'
  BY <1>1 DEF BranchIsWhole, ForkedFactsHaveTurns, ForkedOnce
<1> QED  BY <1>4, <1>5, <1>6, <1>7

LEMMA ForkInsert_Inv ==
    ASSUME ForkInv, NEW f \in Forkers, ForkInsert(f)
    PROVE  ForkInv'
<1> USE DEF ForkInv
<1> DEFINE old   == forking[f]
           stage == [old EXCEPT !.at = "chats"]
<1>1. /\ forking' = [forking EXCEPT ![f] = stage]
      /\ old.at = "insert" /\ dstTurns' = dstTurns \o old.turns /\ dstFact' = dstFact
      /\ srcTurns' = srcTurns /\ srcFact' = srcFact /\ srcMoved' = srcMoved
      /\ together' = together
  BY DEF ForkInsert, Goes
<1>2. /\ old \in [at : {"insert", "chats"}, upto : 0..All, turns : Seq(Items)]
      /\ ItemsAscend(old.turns)
      /\ ~srcMoved => old.turns = Prefix(srcTurns, old.upto)
  BY <1>1 DEF ForksInStep, Stages, NotForking
<1>3. /\ stage \in Stages /\ stage.at = "chats" /\ stage.upto = old.upto
      /\ stage.turns = old.turns /\ old.turns \in Seq(Items)
  BY <1>2 DEF Stages
<1> HIDE DEF stage, old
<1>4. forking'[f] = stage /\ \A g \in Forkers \ {f} : forking'[g] = forking[g]
  BY <1>1 DEF ForksInStep
<1>5. /\ dstTurns' \in Seq(Items)
      /\ ToSet(dstTurns') = ToSet(dstTurns) \cup ToSet(old.turns)
  BY <1>1, <1>3, ElementsOfConcat, ConcatProperties DEF ForksInStep
<1>6. SourceInOrder'
  BY <1>1 DEF SourceInOrder
<1>7. ForksInStep'
  <2>1. forking' \in [Forkers -> Stages]
    BY <1>1, <1>3 DEF ForksInStep
  <2> QED  BY <1>1, <1>2, <1>3, <1>4, <1>5, <2>1 DEF ForksInStep
<1>8. ~together => dstTurns = << >> /\ \A g \in Forkers \ {f} : forking[g].at # "insert"
  BY <1>1 DEF AloneAtInsert, old
<1>9. AloneAtInsert'
  BY <1>1, <1>3, <1>4, <1>8 DEF AloneAtInsert
<1>10. BranchIsWhole'
  <2>1. ~together => IsInjective(dstTurns')
    <3>1. << >> \o old.turns = old.turns
      BY <1>3
    <3> QED  BY <1>1, <1>2, <1>3, <1>8, <3>1, AscendingIsInjective
  <2> QED  BY <1>1, <1>5, <2>1 DEF BranchIsWhole, ForkedFactsHaveTurns, ForkedOnce
<1> QED  BY <1>6, <1>7, <1>9, <1>10

LEMMA ForkChats_Inv ==
    ASSUME ForkInv, NEW f \in Forkers, ForkChats(f)
    PROVE  ForkInv'
<1> USE DEF ForkInv
<1> DEFINE old   == forking[f]
           left  == {i \in 1..ForkItems : srcFact[i] = "ok" /\ i <= old.upto}
           stage == [at |-> "facts", upto |-> old.upto, left |-> left]
<1>1. /\ forking' = [forking EXCEPT ![f] = stage]
      /\ old.at = "chats" /\ dstTurns' = dstTurns /\ dstFact' = dstFact
      /\ srcTurns' = srcTurns /\ srcFact' = srcFact /\ srcMoved' = srcMoved
      /\ together' = together
  BY DEF ForkChats, Goes
<1>2. /\ old \in [at : {"insert", "chats"}, upto : 0..All, turns : Seq(Items)]
      /\ ToSet(old.turns) \subseteq ToSet(dstTurns)
      /\ ~srcMoved => old.turns = Prefix(srcTurns, old.upto)
  BY <1>1 DEF ForksInStep, Stages, NotForking
<1>3. stage \in Stages /\ stage.at = "facts" /\ stage.left = left
  BY <1>2 DEF Stages, Items
<1>4. ~srcMoved => left \subseteq ToSet(dstTurns)
  <2> SUFFICES ASSUME ~srcMoved, NEW i \in left PROVE i \in ToSet(old.turns)
    BY <1>2
  <2>1. old.upto \in Nat /\ i \in Items /\ i <= old.upto /\ srcFact[i] = "ok"
    BY <1>2, ForkAssumption DEF All, Items
  <2> QED  BY <1>2, <2>1, BoundaryCoversFacts
<1> HIDE DEF stage, old, left
<1>5. forking'[f] = stage /\ \A g \in Forkers \ {f} : forking'[g] = forking[g]
  BY <1>1 DEF ForksInStep
<1>6. SourceInOrder'
  BY <1>1 DEF SourceInOrder
<1>7. ForksInStep'
  <2>1. forking' \in [Forkers -> Stages]
    BY <1>1, <1>3 DEF ForksInStep
  <2> QED  BY <1>1, <1>3, <1>4, <1>5, <2>1 DEF ForksInStep
<1>8. AloneAtInsert'
  BY <1>1, <1>3, <1>5 DEF AloneAtInsert
<1>9. BranchIsWhole'
  BY <1>1 DEF BranchIsWhole, ForkedFactsHaveTurns, ForkedOnce
<1> QED  BY <1>6, <1>7, <1>8, <1>9

\* The steps that copy facts and verdicts, and the end of a fork.
LEMMA ForkRest_Inv ==
    ASSUME ForkInv, NEW f \in Forkers,
           ForkFact(f) \/ ForkFactsEnd(f) \/ ForkVerdict(f) \/ ForkEnds(f)
    PROVE  ForkInv'
<1> USE DEF ForkInv
<1> DEFINE old == forking[f]
<1>1. /\ dstTurns' = dstTurns /\ srcTurns' = srcTurns /\ srcFact' = srcFact
      /\ srcMoved' = srcMoved /\ together' = together
  BY DEF ForkFact, ForkFactsEnd, ForkVerdict, ForkEnds
<1>2. old \in Stages
  BY DEF ForksInStep
<1>3. \A i \in ToSet(srcTurns) : i \in Items
  BY ElementOfSeq, LenProperties DEF SourceInOrder, ToSet
<1>4. \E stage \in Stages :
         /\ forking' = [forking EXCEPT ![f] = stage]
         /\ stage.at \in {"facts", "verdicts", "idle"}
         /\ stage.at = "facts" => old.at = "facts" /\ stage.left \subseteq old.left
  <2>1. CASE ForkFact(f)
    <3>1. PICK i \in old.left : forking' = [forking EXCEPT ![f] = [old EXCEPT !.left = @ \ {i}]]
      BY <2>1 DEF ForkFact, Goes
    <3>2. old \in [at : {"facts", "verdicts"}, upto : 0..All, left : SUBSET Items]
      BY <1>2, <2>1 DEF ForkFact, Stages, NotForking
    <3> DEFINE stage == [at |-> old.at, upto |-> old.upto, left |-> old.left \ {i}]
    <3>3. [old EXCEPT !.left = @ \ {i}] = stage
      BY <3>2
    <3>4. stage \in Stages
      BY <3>2 DEF Stages
    <3> QED  BY <2>1, <3>1, <3>2, <3>3, <3>4 DEF ForkFact
  <2>2. CASE ForkFactsEnd(f)
    <3> DEFINE stage == [at |-> "verdicts", upto |-> old.upto,
                         left |-> {i \in ToSet(srcTurns) : i <= old.upto}]
    <3>1. forking' = [forking EXCEPT ![f] = stage]
      BY <2>2 DEF ForkFactsEnd, Goes
    <3>2. old.upto \in 0..All
      BY <1>2, <2>2 DEF ForkFactsEnd, Stages, NotForking
    <3>3. stage \in Stages /\ stage.at = "verdicts"
      BY <1>3, <3>2 DEF Stages
    <3> QED  BY <3>1, <3>3
  <2>3. CASE ForkVerdict(f)
    <3>1. PICK i \in old.left : forking' = [forking EXCEPT ![f] = [old EXCEPT !.left = @ \ {i}]]
      BY <2>3 DEF ForkVerdict, Goes
    <3>2. old \in [at : {"facts", "verdicts"}, upto : 0..All, left : SUBSET Items]
      BY <1>2, <2>3 DEF ForkVerdict, Stages, NotForking
    <3> DEFINE stage == [at |-> "verdicts", upto |-> old.upto, left |-> old.left \ {i}]
    <3>3. [old EXCEPT !.left = @ \ {i}] = stage
      BY <2>3, <3>2 DEF ForkVerdict
    <3>4. stage \in Stages /\ stage.at = "verdicts"
      BY <3>2 DEF Stages
    <3> QED  BY <3>1, <3>3, <3>4
  <2>4. CASE ForkEnds(f)
    <3>1. forking' = [forking EXCEPT ![f] = NotForking] /\ NotForking \in Stages
          /\ NotForking.at = "idle"
      BY <2>4 DEF ForkEnds, Goes, Stages, NotForking
    <3> QED  BY <3>1
  <2> QED  BY <2>1, <2>2, <2>3, <2>4
<1>5. dstFact' \subseteq dstFact \cup (IF old.at = "facts" THEN old.left ELSE {})
  BY DEF ForkFact, ForkFactsEnd, ForkVerdict, ForkEnds
<1>6. PICK stage \in Stages :
         /\ forking' = [forking EXCEPT ![f] = stage]
         /\ stage.at \in {"facts", "verdicts", "idle"}
         /\ stage.at = "facts" => old.at = "facts" /\ stage.left \subseteq old.left
  BY <1>4
<1>7. forking'[f] = stage /\ \A g \in Forkers \ {f} : forking'[g] = forking[g]
  BY <1>6 DEF ForksInStep
<1>8. SourceInOrder'
  BY <1>1 DEF SourceInOrder
<1>9. ForksInStep'
  <2>1. forking' \in [Forkers -> Stages]
    BY <1>6 DEF ForksInStep
  <2> QED  BY <1>1, <1>6, <1>7, <2>1 DEF ForksInStep
<1>10. AloneAtInsert'
  BY <1>1, <1>6, <1>7 DEF AloneAtInsert
<1>11. BranchIsWhole'
  BY <1>1, <1>5 DEF BranchIsWhole, ForkedFactsHaveTurns, ForkedOnce, ForksInStep
<1> QED  BY <1>8, <1>9, <1>10, <1>11

LEMMA ForkNext_Inv == ForkInv /\ [ForkNext]_forkVars => ForkInv'
<1> SUFFICES ASSUME ForkInv, [ForkNext]_forkVars PROVE ForkInv'
  OBVIOUS
<1>1. CASE UNCHANGED forkVars
  BY <1>1 DEF ForkInv, forkVars, SourceInOrder, ForksInStep, AloneAtInsert, BranchIsWhole,
     ForkedFactsHaveTurns, ForkedOnce
<1>2. CASE ForkNext
  BY <1>2, SourceItem_Inv, ForkBegin_Inv, ForkInsert_Inv, ForkChats_Inv, ForkRest_Inv
  DEF ForkNext
<1> QED  BY <1>1, <1>2

(* A branch of a run at rest skips no item it has no answer of, wherever the
   fork that made it stopped, whichever items of the source had failed; and
   unless two forks passed the check side by side it holds each turn once. *)
THEOREM BranchIsAlwaysWhole == ForkSpec => []BranchIsWhole
<1>1. ForkInv => BranchIsWhole
  BY DEF ForkInv
<1> QED  BY <1>1, ForkInit_Inv, ForkNext_Inv, PTL DEF ForkSpec

(* ChunkHistory                                                            *)

Flushes == [at : {"insert", "lookup"}, table : TableKinds, all : SUBSET Attempts,
            todo : SUBSET Attempts, tries : Nat]

Archives == [at : {"copy", "delete"}, table : TableKinds, ids : SUBSET Attempts]

RowCounts == [TableKinds -> [Attempts -> Nat]]

HistTyped ==
    /\ made \in Nat
    /\ final \subseteq Attempts /\ buffer \subseteq Attempts /\ written \subseteq Attempts
    /\ rows \in RowCounts
    /\ archived \in [TableKinds -> SUBSET Attempts]
    /\ writing \in Flushes \cup {NotWriting}
    /\ writing.at # "idle" => writing.todo \subseteq writing.all
    /\ archiving \in Archives \cup {NotArchiving}
    /\ halfWritten \in BOOLEAN /\ historyRaced \in BOOLEAN

\* What the flush under way is to write.
InFlight == IF writing.at = "idle" THEN {} ELSE writing.all

\* An attempt that is not flushed yet has left no trace.
Untouched ==
    \A a \in Attempts :
        /\ a > made => a \notin final /\ a \notin buffer
        /\ a > made \/ a \in buffer =>
              /\ \A s \in TableKinds : rows[s][a] = 0
              /\ a \notin written /\ a \notin InFlight /\ a \notin archiving.ids

RowsOnce == \A s \in TableKinds, a \in Attempts : rows[s][a] <= 1

\* A flush sends all or none of its rows, the attempts before the conversions.
FlushStands ==
    writing.at # "idle" =>
        /\ writing.todo = writing.all
        /\ writing.table = "attempts" => \A a \in writing.all : rows["conversions"][a] = 0
        /\ writing.table = "conversions" => \A a \in writing.all : rows["attempts"][a] = 1
        /\ writing.at = "insert" => \A a \in writing.all : rows[writing.table][a] = 0
        /\ writing.at = "lookup" =>
              \E n \in {0, 1} : \A a \in writing.all : rows[writing.table][a] = n

\* What an archive run has copied by the time it deletes.
ArchiveStands ==
    /\ archiving.at = "copy" /\ archiving.table = "attempts" =>
          archiving.ids \subseteq Active("attempts")
    /\ archiving.at = "copy" /\ archiving.table = "conversions" =>
          archiving.ids \subseteq archived["attempts"]
    /\ archiving.at = "delete" => archiving.ids \cap written \subseteq ShownOld

Standing == written \cap final

\* What holds as long as no archive run chose between the two INSERTs of a flush.
Unraced ==
    /\ RowsOnce /\ FlushStands /\ ArchiveStands
    /\ InFlight \cap archiving.ids = {}
    /\ written \subseteq Shown \cup ShownOld
    /\ ~halfWritten => Active("attempts") \subseteq written \cup InFlight
    /\ ~halfWritten /\ Standing # {} =>
          Max(Standing) \in Shown /\ Max(Standing) \notin archiving.ids

HistInv == HistTyped /\ Untouched /\ (~historyRaced => Unraced)

LEMMA StandingNewest ==
    ASSUME NEW S, S \subseteq Attempts, S # {}
    PROVE  Max(S) \in S /\ \A y \in S : Max(S) >= y
<1>1. MaxAttempts \in Nat /\ S \subseteq 0..MaxAttempts
  BY HistoryAssumption DEF Attempts
<1> QED  BY <1>1, LargestNat

LEMMA HistoryInit_Inv == HistoryInit => HistInv
<1> SUFFICES ASSUME HistoryInit PROVE HistInv
  OBVIOUS
<1>1. HistTyped
  BY DEF HistoryInit, HistTyped, RowCounts, NotWriting
<1>2. Untouched
  BY DEF HistoryInit, Untouched, InFlight, NotWriting, NotArchiving
<1>3. Unraced
  BY DEF HistoryInit, Unraced, RowsOnce, FlushStands, ArchiveStands, InFlight, NotWriting,
     NotArchiving, Active, Shown, ShownOld, Standing, TableKinds
<1> QED  BY <1>1, <1>2, <1>3 DEF HistInv

\* What the flush under way is.
LEMMA FlushFacts ==
    ASSUME HistTyped, writing.at # "idle"
    PROVE  /\ writing \in Flushes /\ InFlight = writing.all
           /\ writing.all \subseteq Attempts /\ writing.todo \subseteq Attempts
           /\ writing.table \in TableKinds /\ writing.tries \in Nat
           /\ writing.todo \subseteq writing.all
  BY DEF HistTyped, Flushes, NotWriting, InFlight

LEMMA RecordAttempt_Inv ==
    ASSUME HistInv, NEW isFinal \in BOOLEAN, RecordAttempt(isFinal)
    PROVE  HistInv'
<1> DEFINE new == made + 1
<1>1. /\ HistTyped /\ Untouched /\ made \in Nat
      /\ made' = new /\ buffer' = buffer \cup {new}
      /\ final' \in {final, final \cup {new}}
      /\ UNCHANGED <<rows, archived, archiving, writing, written, halfWritten, historyRaced>>
  BY DEF HistInv, HistTyped, RecordAttempt
<1>2. new \in Attempts /\ new > made /\ made < new
  BY <1>1, HistoryAssumption DEF RecordAttempt, Attempts
<1>3. HistTyped'
  BY <1>1, <1>2 DEF HistTyped
<1>4. \A a \in Attempts : (a > new => a > made /\ a # new)
  BY <1>1 DEF Attempts
<1>5. \A a \in Attempts : a \in buffer' => a \in buffer \/ a = new
  BY <1>1
<1>6. InFlight' = InFlight
  BY <1>1 DEF InFlight
<1> HIDE DEF new
<1>7. Untouched'
  BY <1>1, <1>2, <1>4, <1>5, <1>6 DEF Untouched
<1>8. Standing' = Standing
  BY <1>1, <1>2 DEF Standing, Untouched
<1>9. Unraced => Unraced'
  BY <1>1, <1>6, <1>8 DEF Unraced, RowsOnce, FlushStands, ArchiveStands, Active, Shown, ShownOld
<1> QED  BY <1>1, <1>3, <1>7, <1>9 DEF HistInv

LEMMA Flush_Inv ==
    ASSUME HistInv, Flush
    PROVE  HistInv'
<1>1. /\ HistTyped /\ Untouched /\ buffer \subseteq Attempts /\ writing.at = "idle"
      /\ buffer' = {}
      /\ UNCHANGED <<made, final, rows, archived, archiving, written, halfWritten, historyRaced>>
  BY DEF HistInv, HistTyped, Flush
<1>2. CASE writing' = writing
  <2>1. HistTyped' /\ Untouched'
    BY <1>1, <1>2 DEF HistTyped, Untouched, InFlight
  <2>2. Unraced => Unraced'
    BY <1>1, <1>2 DEF Unraced, RowsOnce, FlushStands, ArchiveStands, InFlight, Active, Shown,
       ShownOld, Standing
  <2> QED  BY <1>1, <2>1, <2>2 DEF HistInv
<1>3. CASE writing' = [at |-> "insert", table |-> "attempts", all |-> buffer,
                       todo |-> buffer, tries |-> 0]
  <2>1. /\ writing' \in Flushes /\ writing'.at = "insert" /\ writing'.table = "attempts"
        /\ writing'.all = buffer /\ writing'.todo = buffer
    BY <1>1, <1>3 DEF Flushes, TableKinds
  <2>2. InFlight = {} /\ InFlight' = buffer
    BY <1>1, <2>1 DEF InFlight
  <2>3. HistTyped'
    BY <1>1, <2>1 DEF HistTyped
  <2>4. Untouched'
    BY <1>1, <2>2 DEF Untouched
  <2>5. /\ \A a \in buffer : \A s \in TableKinds : rows[s][a] = 0
        /\ buffer \cap archiving.ids = {}
    BY <1>1 DEF Untouched
  <2>6. FlushStands'
    BY <1>1, <2>1, <2>5 DEF FlushStands, TableKinds
  <2>7. Unraced => Unraced'
    BY <1>1, <2>2, <2>5, <2>6 DEF Unraced, RowsOnce, ArchiveStands, Active, Shown, ShownOld, Standing
  <2> QED  BY <1>1, <2>3, <2>4, <2>7 DEF HistInv
<1> QED  BY <1>2, <1>3 DEF Flush

\* The rows an INSERT leaves.
LEMMA InsertedRows ==
    ASSUME HistTyped, writing.at # "idle"
    PROVE  /\ Inserted(writing) \in RowCounts
           /\ \A s \in TableKinds, a \in Attempts :
                 s # writing.table \/ a \notin writing.todo => Inserted(writing)[s][a] = rows[s][a]
           /\ \A a \in writing.todo : Inserted(writing)[writing.table][a] = rows[writing.table][a] + 1
<1> DEFINE t == writing.table
           f == [a \in Attempts |-> IF a \in writing.todo THEN rows[t][a] + 1 ELSE rows[t][a]]
<1>1. t \in TableKinds /\ writing.todo \subseteq Attempts /\ rows \in RowCounts
  BY FlushFacts DEF HistTyped
<1>2. f \in [Attempts -> Nat]
  BY <1>1 DEF RowCounts
<1>3. Inserted(writing) = [rows EXCEPT ![t] = f]
  BY <1>1 DEF Inserted, RowCounts
<1>4. /\ \A a \in writing.todo : f[a] = rows[t][a] + 1
      /\ \A a \in Attempts : a \notin writing.todo => f[a] = rows[t][a]
  BY <1>1
<1> HIDE DEF f, t
<1>5. t = writing.table
  BY DEF t
<1> QED  BY <1>1, <1>2, <1>3, <1>4, <1>5 DEF RowCounts

\* An INSERT is known to be done: every row of the flush is in its table.
LEMMA Landed_Inv ==
    ASSUME HistInv, writing.at # "idle", Landed(writing), rows' \in RowCounts,
           \A s \in TableKinds, a \in Attempts :
               s # writing.table \/ a \notin writing.all => rows'[s][a] = rows[s][a],
           Unraced => \A a \in writing.all : rows'[writing.table][a] = 1,
           UNCHANGED <<made, final, buffer, archived, archiving, halfWritten, historyRaced>>
    PROVE  HistInv'
<1> DEFINE all == writing.all
<1>1. /\ HistTyped /\ Untouched /\ writing \in Flushes /\ InFlight = all
      /\ all \subseteq Attempts /\ writing.table \in TableKinds
  BY FlushFacts DEF HistInv
<1>2. \A a \in Attempts : (a > made \/ a \in buffer) => a \notin all
  BY <1>1 DEF Untouched
<1>3. /\ written' \in {written, written \cup all}
      /\ writing' \in Flushes \cup {NotWriting}
      /\ writing'.at # "idle" => writing'.todo \subseteq writing'.all
      /\ InFlight' \subseteq all
  <2>1. CASE writing.table = "attempts"
    <3>1. /\ writing' = [writing EXCEPT !.at = "insert", !.table = "conversions",
                                        !.todo = writing.all, !.tries = 0]
          /\ written' = written
      BY <2>1 DEF Landed
    <3>2. writing' \in Flushes /\ writing'.all = all /\ writing'.todo = all
      BY <1>1, <3>1 DEF Flushes, TableKinds
    <3> QED  BY <3>1, <3>2 DEF InFlight
  <2>2. CASE writing.table # "attempts"
    <3>1. writing' = NotWriting /\ written' = written \cup all
      BY <2>2 DEF Landed
    <3> QED  BY <3>1 DEF InFlight, NotWriting
  <2> QED  BY <2>1, <2>2
<1>4. HistTyped'
  BY <1>1, <1>3 DEF HistTyped
<1>5. Untouched'
  <2> SUFFICES ASSUME NEW a \in Attempts, a > made \/ a \in buffer
               PROVE  /\ \A s \in TableKinds : rows'[s][a] = 0
                      /\ a \notin written' /\ a \notin InFlight' /\ a \notin archiving.ids
    BY <1>1 DEF Untouched
  <2>1. a \notin all
    BY <1>2
  <2> QED  BY <1>1, <1>3, <2>1 DEF Untouched
<1>6. ASSUME Unraced PROVE Unraced'
  <2>1. \A a \in all : rows'[writing.table][a] = 1
    BY <1>6
  <2>2. RowsOnce'
    BY <1>1, <1>6, <2>1 DEF Unraced, RowsOnce
  <2>3. \A s \in TableKinds : Active(s) \subseteq Active(s)'
    <3> SUFFICES ASSUME NEW s \in TableKinds, NEW a \in Attempts, rows[s][a] > 0
                 PROVE  rows'[s][a] > 0
      BY DEF Active
    <3>1. CASE s # writing.table \/ a \notin all
      BY <3>1
    <3>2. CASE s = writing.table /\ a \in all
      BY <2>1, <3>2
    <3> QED  BY <3>1, <3>2
  <2>4. Shown \subseteq Shown' /\ ShownOld' = ShownOld
    BY <2>3 DEF Shown, ShownOld, TableKinds
  <2>5. all \cap archiving.ids = {}
    BY <1>1, <1>6 DEF Unraced
  <2>6. \A a \in Attempts : a \notin all =>
            (a \in Active("attempts")' => a \in Active("attempts"))
    BY DEF Active, TableKinds
  <2>7. CASE writing.table = "attempts"
    <3>1. /\ writing' = [writing EXCEPT !.at = "insert", !.table = "conversions",
                                        !.todo = writing.all, !.tries = 0]
          /\ written' = written
      BY <2>7 DEF Landed
    <3>2. /\ writing'.at = "insert" /\ writing'.all = all /\ writing'.todo = all
          /\ writing'.table = "conversions"
      BY <1>1, <3>1 DEF Flushes, TableKinds
    <3>3. InFlight' = all
      BY <3>2 DEF InFlight
    <3>4. \A a \in all : rows'["attempts"][a] = 1 /\ rows'["conversions"][a] = 0
      BY <1>1, <1>6, <2>1, <2>7 DEF Unraced, FlushStands, TableKinds
    <3>5. FlushStands'
      BY <3>2, <3>4 DEF FlushStands
    <3>6. ArchiveStands'
      BY <1>6, <2>3, <2>4, <3>1 DEF Unraced, ArchiveStands, TableKinds
    <3>7. ~halfWritten => Active("attempts")' \subseteq written \cup all
      BY <1>1, <1>6, <2>6 DEF Unraced, Active
    <3> QED  BY <1>6, <2>2, <2>4, <2>5, <3>1, <3>3, <3>5, <3>6, <3>7 DEF Unraced, Standing
  <2>8. CASE writing.table = "conversions"
    <3>1. writing' = NotWriting /\ written' = written \cup all
      BY <2>8 DEF Landed
    <3>2. InFlight' = {} /\ FlushStands'
      BY <3>1 DEF InFlight, FlushStands, NotWriting
    <3>3. \A a \in all : rows'["attempts"][a] = 1 /\ rows'["conversions"][a] = 1
      BY <1>1, <1>6, <2>1, <2>8 DEF Unraced, FlushStands, TableKinds
    <3>4. all \subseteq Shown'
      BY <1>1, <3>3 DEF Shown, Active
    <3>5. ArchiveStands'
      BY <1>6, <2>3, <2>4, <2>5, <3>1 DEF Unraced, ArchiveStands, TableKinds
    <3>6. ~halfWritten => Active("attempts")' \subseteq written'
      BY <1>1, <1>6, <2>6, <3>1 DEF Unraced, Active
    <3>7. written' \subseteq Shown' \cup ShownOld'
      BY <1>6, <2>4, <3>1, <3>4 DEF Unraced
    <3>8. ASSUME ~halfWritten, Standing' # {}
          PROVE  Max(Standing') \in Shown' /\ Max(Standing') \notin archiving.ids
      <4>1. Standing' = Standing \cup (all \cap final) /\ Standing' \subseteq Attempts
        BY <1>1, <3>1 DEF Standing, HistTyped
      <4>2. Max(Standing') \in Standing' /\ \A y \in Standing' : Max(Standing') >= y
        BY <3>8, <4>1, StandingNewest
      <4>3. CASE Max(Standing') \in all
        BY <2>5, <3>4, <4>3
      <4>4. CASE Max(Standing') \in Standing
        <5>1. Max(Standing) \in Standing /\ \A y \in Standing : Max(Standing) >= y
          BY <4>1, <4>4, StandingNewest
        <5>2. Max(Standing) \in Nat /\ Max(Standing') \in Nat
          BY <4>1, <4>2, <5>1 DEF Attempts
        <5>3. Max(Standing') = Max(Standing)
          BY <4>1, <4>2, <4>4, <5>1, <5>2
        <5>4. Max(Standing) \in Shown /\ Max(Standing) \notin archiving.ids
          BY <1>6, <3>8, <4>4 DEF Unraced
        <5> QED  BY <2>4, <5>3, <5>4
      <4> QED  BY <4>1, <4>2, <4>3, <4>4
    <3> QED  BY <2>2, <3>2, <3>5, <3>6, <3>7, <3>8 DEF Unraced
  <2> QED  BY <1>1, <2>7, <2>8 DEF TableKinds
<1> QED  BY <1>4, <1>5, <1>6 DEF HistInv

LEMMA InsertRows_Inv ==
    ASSUME HistInv, InsertRows
    PROVE  HistInv'
<1>1. /\ HistTyped /\ writing.at = "insert" /\ rows' = Inserted(writing) /\ Landed(writing)
      /\ UNCHANGED <<made, final, buffer, archived, archiving, halfWritten, historyRaced>>
  BY DEF HistInv, InsertRows
<1>2. /\ rows' \in RowCounts
      /\ \A s \in TableKinds, a \in Attempts :
            s # writing.table \/ a \notin writing.todo => rows'[s][a] = rows[s][a]
      /\ \A a \in writing.todo : rows'[writing.table][a] = rows[writing.table][a] + 1
  BY <1>1, InsertedRows
<1>3. Unraced => \A a \in writing.all : rows'[writing.table][a] = 1
  BY <1>1, <1>2 DEF Unraced, FlushStands
<1>4. \A s \in TableKinds, a \in Attempts :
          s # writing.table \/ a \notin writing.all => rows'[s][a] = rows[s][a]
  BY <1>1, <1>2, FlushFacts
<1> QED  BY <1>1, <1>2, <1>3, <1>4, Landed_Inv

LEMMA InsertRaises_Inv ==
    ASSUME HistInv, InsertRaises
    PROVE  HistInv'
<1>1. /\ HistTyped /\ Untouched /\ writing.at = "insert" /\ rows' \in {rows, Inserted(writing)}
      /\ writing' = [writing EXCEPT !.at = "lookup"]
      /\ UNCHANGED <<made, final, buffer, archived, archiving, written, halfWritten, historyRaced>>
      /\ writing \in Flushes /\ InFlight = writing.all /\ writing.table \in TableKinds
      /\ writing.all \subseteq Attempts /\ writing.todo \subseteq writing.all
  BY FlushFacts DEF HistInv, InsertRaises
<1>2. /\ writing' \in Flushes /\ writing'.at = "lookup" /\ writing'.table = writing.table
      /\ writing'.all = writing.all /\ writing'.todo = writing.todo
  BY <1>1 DEF Flushes
<1>3. /\ rows' \in RowCounts
      /\ \A s \in TableKinds, a \in Attempts :
            s # writing.table \/ a \notin writing.all => rows'[s][a] = rows[s][a]
      /\ \/ \A a \in writing.todo : rows'[writing.table][a] = rows[writing.table][a]
         \/ \A a \in writing.todo : rows'[writing.table][a] = rows[writing.table][a] + 1
      /\ \A s \in TableKinds, a \in Attempts : rows'[s][a] >= rows[s][a]
  <2>1. CASE rows' = rows
    BY <1>1, <2>1 DEF HistTyped, RowCounts
  <2>2. CASE rows' = Inserted(writing)
    <3>1. /\ rows' \in RowCounts /\ rows \in RowCounts
          /\ \A s \in TableKinds, a \in Attempts :
                s # writing.table \/ a \notin writing.todo => rows'[s][a] = rows[s][a]
          /\ \A a \in writing.todo : rows'[writing.table][a] = rows[writing.table][a] + 1
      BY <1>1, <2>2, InsertedRows DEF HistTyped
    <3>2. ASSUME NEW s \in TableKinds, NEW a \in Attempts PROVE rows'[s][a] >= rows[s][a]
      <4>1. rows[s][a] \in Nat
        BY <3>1 DEF RowCounts
      <4>2. rows'[s][a] = rows[s][a] \/ rows'[s][a] = rows[s][a] + 1
        BY <3>1
      <4> QED  BY <4>1, <4>2
    <3> QED  BY <1>1, <3>1, <3>2
  <2> QED  BY <1>1, <2>1, <2>2
<1>4. HistTyped' /\ InFlight' = InFlight
  BY <1>1, <1>2, <1>3 DEF HistTyped, InFlight
<1>5. Untouched'
  <2> SUFFICES ASSUME NEW a \in Attempts, a > made \/ a \in buffer, NEW s \in TableKinds
               PROVE  rows'[s][a] = 0
    BY <1>1, <1>4 DEF Untouched
  <2>1. a \notin writing.all /\ rows[s][a] = 0
    BY <1>1 DEF Untouched
  <2> QED  BY <1>3, <2>1
<1>6. ASSUME Unraced PROVE Unraced'
  <2>1. writing.todo = writing.all /\ \A a \in writing.all : rows[writing.table][a] = 0
    BY <1>1, <1>6 DEF Unraced, FlushStands
  <2>2. \E n \in {0, 1} : \A a \in writing.all : rows'[writing.table][a] = n
    BY <1>3, <2>1
  <2>3. FlushStands'
    BY <1>1, <1>2, <1>3, <1>6, <2>1, <2>2 DEF Unraced, FlushStands, TableKinds
  <2>4. RowsOnce'
    BY <1>1, <1>3, <1>6, <2>2 DEF Unraced, RowsOnce
  <2>5. \A s \in TableKinds : Active(s) \subseteq Active(s)'
    <3> SUFFICES ASSUME NEW s \in TableKinds, NEW a \in Attempts, rows[s][a] > 0
                 PROVE  rows'[s][a] > 0
      BY DEF Active
    <3>1. rows[s][a] \in Nat /\ rows'[s][a] \in Nat /\ rows'[s][a] >= rows[s][a]
      BY <1>1, <1>3 DEF HistTyped, RowCounts
    <3> QED  BY <3>1
  <2>6. Shown \subseteq Shown' /\ ShownOld' = ShownOld /\ Standing' = Standing
    BY <1>1, <2>5 DEF Shown, ShownOld, TableKinds, Standing
  <2>7. ArchiveStands'
    BY <1>1, <1>6, <2>5, <2>6 DEF Unraced, ArchiveStands, TableKinds
  <2>8. ~halfWritten => Active("attempts")' \subseteq written \cup InFlight
    BY <1>1, <1>3, <1>6 DEF Unraced, Active, TableKinds
  <2> QED  BY <1>1, <1>4, <1>6, <2>3, <2>4, <2>6, <2>7, <2>8 DEF Unraced
<1> QED  BY <1>1, <1>4, <1>5, <1>6 DEF HistInv

\* What the lookup finds absent of an undisturbed flush: all of it, or nothing.
LEMMA LookupFinds ==
    ASSUME HistTyped, Unraced, writing.at = "lookup"
    PROVE  LET absent == writing.todo \ Active(writing.table)
           IN  /\ absent = {} => \A a \in writing.all : rows[writing.table][a] = 1
               /\ absent # {} => absent = writing.all
                                 /\ \A a \in writing.all : rows[writing.table][a] = 0
<1>1. /\ writing.todo = writing.all /\ writing.all \subseteq Attempts
      /\ writing.table \in TableKinds
  BY FlushFacts DEF Unraced, FlushStands
<1>2. PICK n \in {0, 1} : \A a \in writing.all : rows[writing.table][a] = n
  BY DEF Unraced, FlushStands
<1>3. CASE n = 0
  BY <1>1, <1>2, <1>3 DEF Active
<1>4. CASE n = 1
  BY <1>1, <1>2, <1>4 DEF Active
<1> QED  BY <1>2, <1>3, <1>4

LEMMA InsertLookup_Inv ==
    ASSUME HistInv, InsertLookup
    PROVE  HistInv'
<1> DEFINE absent == writing.todo \ Active(writing.table)
<1>1. /\ HistTyped /\ Untouched /\ writing.at = "lookup"
      /\ UNCHANGED <<made, final, buffer, rows, archived, archiving, historyRaced>>
      /\ writing \in Flushes /\ InFlight = writing.all /\ writing.table \in TableKinds
      /\ writing.all \subseteq Attempts /\ absent \subseteq writing.all
      /\ writing.tries \in Nat /\ rows' \in RowCounts
  BY FlushFacts DEF HistInv, InsertLookup, HistTyped
<1>2. Unraced =>
          /\ absent = {} => \A a \in writing.all : rows[writing.table][a] = 1
          /\ absent # {} => absent = writing.all
                            /\ \A a \in writing.all : rows[writing.table][a] = 0
  BY <1>1, LookupFinds
<1>3. CASE absent = {} /\ Landed(writing) /\ UNCHANGED halfWritten
  BY <1>1, <1>2, <1>3, Landed_Inv
<1> HIDE DEF absent
<1>4. CASE /\ absent # {}
           /\ writing' = [writing EXCEPT !.at = "insert", !.todo = absent, !.tries = @ + 1]
           /\ UNCHANGED <<written, halfWritten>>
  <2>1. /\ writing' \in Flushes /\ writing'.at = "insert" /\ writing'.table = writing.table
        /\ writing'.all = writing.all /\ writing'.todo = absent
    <3> DEFINE n == writing.tries + 1
    <3>1. /\ writing' = [writing EXCEPT !.at = "insert", !.todo = absent, !.tries = n]
          /\ absent \subseteq Attempts /\ n \in Nat
      BY <1>1, <1>4
    <3> HIDE DEF n
    <3> QED  BY <1>1, <3>1 DEF Flushes
  <2>2. HistTyped' /\ InFlight' = InFlight
    BY <1>1, <1>4, <2>1 DEF HistTyped, InFlight
  <2>3. Untouched'
    BY <1>1, <1>4, <2>2 DEF Untouched
  <2>4. ASSUME Unraced PROVE Unraced'
    <3>1. FlushStands'
      BY <1>1, <1>2, <1>4, <2>1, <2>4 DEF Unraced, FlushStands
    <3> QED  BY <1>1, <1>4, <2>2, <2>4, <3>1
             DEF Unraced, RowsOnce, ArchiveStands, Active, Shown, ShownOld, Standing
  <2> QED  BY <1>1, <2>2, <2>3, <2>4 DEF HistInv
<1>5. CASE /\ absent # {}
           /\ writing' = NotWriting
           /\ halfWritten' = (halfWritten \/ writing.table = "conversions")
           /\ UNCHANGED written
  <2>1. InFlight' = {} /\ writing'.at = "idle"
    BY <1>5 DEF InFlight, NotWriting
  <2>2. HistTyped'
    BY <1>1, <1>5, <2>1 DEF HistTyped
  <2>3. Untouched'
    BY <1>1, <1>5, <2>1 DEF Untouched
  <2>4. ASSUME Unraced PROVE Unraced'
    <3>1. FlushStands'
      BY <2>1 DEF FlushStands
    <3>2. ~halfWritten' => ~halfWritten /\ writing.table = "attempts"
      BY <1>1, <1>5 DEF TableKinds
    <3>3. ~halfWritten' => Active("attempts") \subseteq written
      <4>1. writing.table = "attempts" => Active("attempts") \cap writing.all = {}
        BY <1>2, <1>5, <2>4 DEF Active
      <4> QED  BY <1>1, <2>4, <3>2, <4>1 DEF Unraced
    <3> QED  BY <1>1, <1>5, <2>1, <2>4, <3>1, <3>2, <3>3
             DEF Unraced, RowsOnce, ArchiveStands, Active, Shown, ShownOld, Standing
  <2> QED  BY <1>1, <2>2, <2>3, <2>4 DEF HistInv
<1> QED  BY <1>3, <1>4, <1>5 DEF InsertLookup, absent

\* An archive run takes what is not the standing answer, and unless it raced
\* nothing of a flush under way.
LEMMA ArchiveBegin_Inv ==
    ASSUME HistInv, ArchiveBegin
    PROVE  HistInv'
<1>1. /\ HistTyped /\ Untouched /\ rows \in RowCounts
      /\ UNCHANGED <<made, final, buffer, rows, archived, writing, written, halfWritten>>
  BY DEF HistInv, HistTyped, ArchiveBegin
<1>2. PICK before \in 2..(MaxAttempts + 1) :
        LET ids == {a \in Active("attempts") : a < before} \ CurrentIds
        IN  /\ archiving' = [at |-> "copy", table |-> "attempts", ids |-> ids]
            /\ historyRaced' = (historyRaced \/
                   (writing.at # "idle" /\ writing.all \cap Active("attempts") # {}))
  BY DEF ArchiveBegin
<1> DEFINE ids == {a \in Active("attempts") : a < before} \ CurrentIds
<1>3. /\ archiving' \in Archives /\ archiving'.at = "copy" /\ archiving'.table = "attempts"
      /\ archiving'.ids = ids
  BY <1>2 DEF Archives, TableKinds, Active
<1>4. ids \subseteq Active("attempts") /\ ids \cap CurrentIds = {}
  OBVIOUS
<1> HIDE DEF ids
<1>5. /\ historyRaced' \in BOOLEAN
      /\ ~historyRaced' => ~historyRaced /\ InFlight \cap Active("attempts") = {}
  BY <1>1, <1>2 DEF HistTyped, InFlight
<1>6. HistTyped' /\ InFlight' = InFlight
  BY <1>1, <1>3, <1>5 DEF HistTyped, InFlight
<1>7. Untouched'
  <2>1. \A a \in Attempts : a > made \/ a \in buffer => a \notin ids
    BY <1>1, <1>4 DEF Untouched, Active, TableKinds
  <2> QED  BY <1>1, <1>3, <1>6, <2>1 DEF Untouched
<1>8. ASSUME ~historyRaced' PROVE Unraced'
  <2>1. Unraced /\ InFlight \cap Active("attempts") = {}
    BY <1>5, <1>8 DEF HistInv
  <2>2. ArchiveStands'
    BY <1>1, <1>3, <1>4 DEF ArchiveStands, Active
  <2>3. FlushStands'
    BY <1>1, <2>1 DEF Unraced, FlushStands
  <2>4. ASSUME ~halfWritten, Standing # {} PROVE Max(Standing) \notin ids
    <3> DEFINE accepted == final \cap Active("attempts")
    <3>1. Max(Standing) \in Standing /\ Max(Standing) \in Active("attempts")
          /\ \A y \in Standing : Max(Standing) >= y
      <4>1. Standing \subseteq Attempts
        BY <1>1 DEF HistTyped, Standing
      <4> QED  BY <2>1, <2>4, <4>1, StandingNewest DEF Unraced, Shown
    <3>2. accepted \subseteq Standing
      BY <2>1, <2>4 DEF Unraced, Standing
    <3>3. Max(Standing) \in accepted /\ accepted \subseteq Attempts
      BY <1>1, <3>1 DEF Standing, HistTyped
    <3>4. Max(accepted) \in accepted /\ \A y \in accepted : Max(accepted) >= y
      BY <3>3, StandingNewest
    <3>5. Max(Standing) >= Max(accepted) /\ Max(accepted) >= Max(Standing)
          /\ Max(accepted) \in Nat /\ Max(Standing) \in Nat
      BY <3>1, <3>2, <3>3, <3>4 DEF Attempts
    <3>6. Max(Standing) = Max(accepted)
      BY <3>5
    <3>7. Max(Standing) \in CurrentIds
      BY <3>3, <3>6 DEF CurrentIds
    <3> QED  BY <1>4, <3>7
  <2> QED  BY <1>1, <1>3, <1>4, <1>6, <2>1, <2>2, <2>3, <2>4
           DEF Unraced, RowsOnce, Active, Shown, ShownOld, Standing
<1> QED  BY <1>6, <1>7, <1>8 DEF HistInv

\* What the archive run under way is.
LEMMA ArchiveFacts ==
    ASSUME HistTyped, archiving.at # "idle"
    PROVE  /\ archiving \in Archives /\ archiving.table \in TableKinds
           /\ archiving.ids \subseteq Attempts
  BY DEF HistTyped, Archives, NotArchiving

LEMMA ArchiveCopy_Inv ==
    ASSUME HistInv, ArchiveCopy
    PROVE  HistInv'
<1> DEFINE s   == archiving.table
           ids == archiving.ids
<1>1. /\ HistTyped /\ Untouched /\ archiving.at = "copy"
      /\ archiving \in Archives /\ s \in TableKinds /\ ids \subseteq Attempts
      /\ archived' = [archived EXCEPT ![s] = @ \cup (ids \cap Active(s))]
      /\ UNCHANGED <<made, final, buffer, rows, writing, written, halfWritten, historyRaced>>
  BY ArchiveFacts DEF HistInv, ArchiveCopy
<1>2. /\ archived' \in [TableKinds -> SUBSET Attempts]
      /\ archived'[s] = archived[s] \cup (ids \cap Active(s))
      /\ \A t \in TableKinds : t # s => archived'[t] = archived[t]
  BY <1>1 DEF HistTyped
<1>3. /\ archiving' \in Archives /\ archiving'.ids = ids
      /\ s = "attempts" => archiving'.at = "copy" /\ archiving'.table = "conversions"
      /\ s # "attempts" => archiving'.at = "delete"
  <2>1. CASE s = "attempts"
    <3>1. archiving' = [archiving EXCEPT !.table = "conversions"]
      BY <2>1 DEF ArchiveCopy
    <3> QED  BY <1>1, <2>1, <3>1 DEF Archives, TableKinds
  <2>2. CASE s # "attempts"
    <3>1. archiving' = [archiving EXCEPT !.at = "delete"]
      BY <2>2 DEF ArchiveCopy
    <3> QED  BY <1>1, <2>2, <3>1 DEF Archives
  <2> QED  BY <2>1, <2>2
<1>4. HistTyped' /\ InFlight' = InFlight
  BY <1>1, <1>2, <1>3 DEF HistTyped, InFlight
<1>5. Untouched'
  BY <1>1, <1>3, <1>4 DEF Untouched
<1>6. ASSUME Unraced PROVE Unraced'
  <2>1. Shown' = Shown /\ ShownOld \subseteq ShownOld' /\ Standing' = Standing
    BY <1>1, <1>2 DEF Shown, ShownOld, Active, Standing, TableKinds
  <2>2. ArchiveStands'
    <3>1. CASE s = "attempts"
      <4>1. ids \subseteq archived'["attempts"]
        BY <1>1, <1>2, <1>6, <3>1 DEF Unraced, ArchiveStands
      <4> QED  BY <1>3, <3>1, <4>1 DEF ArchiveStands
    <3>2. CASE s = "conversions"
      <4>1. ids \subseteq archived["attempts"]
        BY <1>1, <1>6, <3>2 DEF Unraced, ArchiveStands
      <4>2. written \subseteq Shown \cup ShownOld
        BY <1>6 DEF Unraced
      <4>3. ids \cap written \subseteq ShownOld'
        BY <1>2, <3>2, <4>1, <4>2 DEF Shown, ShownOld, TableKinds
      <4> QED  BY <1>1, <1>3, <3>2, <4>3 DEF ArchiveStands
    <3> QED  BY <1>1, <3>1, <3>2 DEF TableKinds
  <2> QED  BY <1>1, <1>3, <1>4, <1>6, <2>1, <2>2
           DEF Unraced, RowsOnce, FlushStands, Active
<1> QED  BY <1>1, <1>4, <1>5, <1>6 DEF HistInv

LEMMA ArchiveDelete_Inv ==
    ASSUME HistInv, ArchiveDelete
    PROVE  HistInv'
<1> DEFINE s   == archiving.table
           ids == archiving.ids
           f   == [a \in Attempts |-> IF a \in ids THEN 0 ELSE rows[s][a]]
<1>1. /\ HistTyped /\ Untouched /\ archiving.at = "delete" /\ rows \in RowCounts
      /\ archiving \in Archives /\ s \in TableKinds /\ ids \subseteq Attempts
      /\ UNCHANGED <<made, final, buffer, archived, writing, written, halfWritten, historyRaced>>
  BY ArchiveFacts DEF HistInv, ArchiveDelete, HistTyped
<1>2. rows' = [rows EXCEPT ![s] = f]
  BY <1>1 DEF ArchiveDelete, RowCounts
<1>3. /\ f \in [Attempts -> Nat] /\ \A a \in ids : f[a] = 0
      /\ \A a \in Attempts : a \notin ids => f[a] = rows[s][a]
  BY <1>1 DEF RowCounts
<1> HIDE DEF f
<1>4. /\ rows' \in RowCounts
      /\ \A t \in TableKinds, a \in Attempts :
            \/ rows'[t][a] = rows[t][a]
            \/ a \in ids /\ rows'[t][a] = 0
  BY <1>1, <1>2, <1>3 DEF RowCounts
<1>5. /\ archiving' \in Archives \cup {NotArchiving} /\ archiving'.ids \subseteq ids
      /\ archiving'.at \in {"delete", "idle"}
  <2>1. CASE s = "conversions"
    <3>1. archiving' = [archiving EXCEPT !.table = "attempts"]
      BY <2>1 DEF ArchiveDelete
    <3> QED  BY <1>1, <3>1 DEF Archives, TableKinds
  <2>2. CASE s # "conversions"
    BY <2>2 DEF ArchiveDelete, NotArchiving
  <2> QED  BY <2>1, <2>2
<1>6. HistTyped' /\ InFlight' = InFlight
  BY <1>1, <1>4, <1>5 DEF HistTyped, InFlight
<1>7. Untouched'
  <2> SUFFICES ASSUME NEW a \in Attempts, a > made \/ a \in buffer
               PROVE  /\ \A t \in TableKinds : rows'[t][a] = 0
                      /\ a \notin InFlight' /\ a \notin archiving'.ids
    BY <1>1 DEF Untouched
  <2>1. \A t \in TableKinds : rows[t][a] = 0
    BY <1>1 DEF Untouched
  <2> QED  BY <1>1, <1>4, <1>5, <1>6, <2>1 DEF Untouched
<1>8. ASSUME Unraced PROVE Unraced'
  <2>1. InFlight \cap ids = {} /\ ids \cap written \subseteq ShownOld
        /\ ShownOld' = ShownOld /\ Standing' = Standing
    BY <1>1, <1>8 DEF Unraced, ArchiveStands, ShownOld, Standing
  <2>2. /\ \A t \in TableKinds, a \in Attempts : a \notin ids => rows'[t][a] = rows[t][a]
        /\ Shown \ ids \subseteq Shown'
        /\ \A t \in TableKinds : Active(t)' \subseteq Active(t)
    BY <1>4 DEF Shown, Active, TableKinds
  <2>3. RowsOnce'
    <3> SUFFICES ASSUME NEW t \in TableKinds, NEW a \in Attempts PROVE rows'[t][a] <= 1
      BY DEF RowsOnce
    <3> QED  BY <1>4, <1>8 DEF Unraced, RowsOnce
  <2>4. FlushStands'
    <3>1. CASE writing.at = "idle"
      BY <1>1, <3>1 DEF FlushStands
    <3>2. CASE writing.at # "idle"
      <4>1. /\ writing.table \in TableKinds /\ writing.all \subseteq Attempts
            /\ writing.all \cap ids = {}
        BY <1>1, <2>1, <3>2, FlushFacts
      <4>2. \A t \in TableKinds, a \in writing.all : rows'[t][a] = rows[t][a]
        BY <2>2, <4>1
      <4> QED  BY <1>1, <1>8, <3>2, <4>1, <4>2 DEF Unraced, FlushStands, TableKinds
    <3> QED  BY <3>1, <3>2
  <2>5. ArchiveStands'
    BY <1>1, <1>5, <2>1 DEF ArchiveStands
  <2>6. written \subseteq Shown' \cup ShownOld
    BY <1>8, <2>1, <2>2 DEF Unraced
  <2>7. ~halfWritten => Active("attempts")' \subseteq written \cup InFlight
    BY <1>8, <2>2 DEF Unraced, TableKinds
  <2>8. ~halfWritten /\ Standing # {} => Max(Standing) \in Shown' /\ Max(Standing) \notin ids
    BY <1>8, <2>2 DEF Unraced
  <2> QED  BY <1>1, <1>5, <1>6, <2>1, <2>3, <2>4, <2>5, <2>6, <2>7, <2>8 DEF Unraced
<1> QED  BY <1>1, <1>6, <1>7, <1>8 DEF HistInv

LEMMA ArchiveRaises_Inv ==
    ASSUME HistInv, ArchiveRaises
    PROVE  HistInv'
<1>1. /\ HistTyped /\ Untouched /\ archiving' = NotArchiving
      /\ archiving'.at = "idle" /\ archiving'.ids = {}
      /\ UNCHANGED <<made, final, buffer, rows, archived, writing, written, halfWritten,
                     historyRaced>>
  BY DEF HistInv, ArchiveRaises, NotArchiving
<1>2. HistTyped' /\ InFlight' = InFlight
  BY <1>1 DEF HistTyped, InFlight
<1>3. Untouched'
  BY <1>1, <1>2 DEF Untouched
<1>4. Unraced => Unraced'
  BY <1>1, <1>2
  DEF Unraced, RowsOnce, FlushStands, ArchiveStands, Active, Shown, ShownOld, Standing
<1> QED  BY <1>1, <1>2, <1>3, <1>4 DEF HistInv

LEMMA HistoryNext_Inv == HistInv /\ [HistoryNext]_historyVars => HistInv'
<1> SUFFICES ASSUME HistInv, [HistoryNext]_historyVars PROVE HistInv'
  OBVIOUS
<1>1. CASE UNCHANGED historyVars
  BY <1>1 DEF historyVars, HistInv, HistTyped, Untouched, Unraced, RowsOnce, FlushStands,
     ArchiveStands, InFlight, Active, Shown, ShownOld, Standing
<1>2. CASE HistoryNext
  BY <1>2, RecordAttempt_Inv, Flush_Inv, InsertRows_Inv, InsertRaises_Inv, InsertLookup_Inv,
     ArchiveBegin_Inv, ArchiveCopy_Inv, ArchiveDelete_Inv, ArchiveRaises_Inv
  DEF HistoryNext
<1> QED  BY <1>1, <1>2

(* Of the attempts at a work item each is recorded once, none that was written
   is hidden by an archive run, however it is interrupted, and the answer that
   stands stays active -- for any number of attempts, retries and faults, as
   long as no archive run chooses between the two INSERTs of a flush. *)
THEOREM HistoryIsAlwaysWhole == HistorySpec => []HistoryIsWhole
<1>1. HistInv => AttemptsOnce /\ ArchiveHidesNothing
  BY DEF HistInv, Unraced, RowsOnce, AttemptsOnce, ArchiveHidesNothing
<1>2. HistInv => StandingAnswerKept
  BY DEF HistInv, Unraced, Standing, StandingAnswerKept
<1>3. HistInv => HistoryIsWhole
  BY <1>1, <1>2 DEF HistoryIsWhole
<1> QED  BY <1>3, HistoryInit_Inv, HistoryNext_Inv, PTL DEF HistorySpec

-----------------------------------------------------------------------------
(* ThreadNotes                                                             *)

\* The filtered prefixes of a list, as the recursion of Among makes them.
Filtered(s, kept, n, f) ==
    f = [i \in 0..n |-> IF i = 0 THEN << >>
                        ELSE IF s[i] \in kept THEN Append(f[i - 1], s[i]) ELSE f[i - 1]]

LEMMA FilteredExists ==
    ASSUME NEW s, NEW kept, NEW n \in Nat
    PROVE  \E f : Filtered(s, kept, n, f)
<1> DEFINE Bad == {m \in Nat : ~\E f : Filtered(s, kept, m, f)}
<1> SUFFICES ASSUME Bad # {} PROVE FALSE
  OBVIOUS
<1>1. PICK m \in Bad : \A k \in Bad : m <= k
  <2> Bad \subseteq Nat
    OBVIOUS
  <2> HIDE DEF Bad
  <2> QED  BY SmallestNat
<1>2. CASE m = 0
  <2> DEFINE g == [i \in 0..0 |-> << >>]
  <2>1. Filtered(s, kept, 0, g)
    BY DEF Filtered
  <2> QED  BY <1>1, <1>2, <2>1
<1>3. CASE m # 0
  <2>1. m - 1 \in Nat /\ ~(m <= m - 1)
    BY <1>1, <1>3
  <2>2. PICK f : Filtered(s, kept, m - 1, f)
    BY <1>1, <2>1
  <2> DEFINE g == [i \in 0..m |->
                      IF i < m THEN f[i]
                      ELSE IF s[m] \in kept THEN Append(f[m - 1], s[m]) ELSE f[m - 1]]
  <2>3. ASSUME NEW i \in 0..m
        PROVE  g[i] = IF i = 0 THEN << >>
                      ELSE IF s[i] \in kept THEN Append(g[i - 1], s[i]) ELSE g[i - 1]
    <3>1. CASE i = 0
      <4>1. f[0] = << >>
        BY <2>1, <2>2 DEF Filtered
      <4> QED  BY <1>3, <3>1, <4>1
    <3>2. CASE i # 0 /\ i < m
      <4>1. i \in 0..(m - 1) /\ i - 1 \in 0..m /\ i - 1 < m
        BY <1>1, <3>2
      <4>2. f[i] = IF s[i] \in kept THEN Append(f[i - 1], s[i]) ELSE f[i - 1]
        BY <2>2, <3>2, <4>1 DEF Filtered
      <4>3. g[i] = f[i] /\ g[i - 1] = f[i - 1]
        BY <3>2, <4>1
      <4> QED  BY <3>2, <4>2, <4>3
    <3>3. CASE i = m
      <4>1. m - 1 \in 0..m /\ m - 1 < m /\ ~(m < m)
        BY <1>1, <2>1
      <4>2. g[m - 1] = f[m - 1]
        BY <4>1
      <4> QED  BY <1>3, <3>3, <4>1, <4>2
    <3> QED  BY <1>1, <3>1, <3>2, <3>3
  <2>4. Filtered(s, kept, m, g)
    <3>1. g = [i \in 0..m |-> g[i]]
      OBVIOUS
    <3> HIDE DEF g
    <3> QED  BY <2>3, <3>1 DEF Filtered
  <2> QED  BY <1>1, <2>4
<1> QED  BY <1>2, <1>3

LEMMA FilteredSteps ==
    ASSUME NEW s, NEW kept, NEW n \in Nat, NEW f, Filtered(s, kept, n, f)
    PROVE  /\ f[0] = << >>
           /\ \A i \in 1..n : f[i] = IF s[i] \in kept THEN Append(f[i - 1], s[i]) ELSE f[i - 1]
<1>1. f[0] = << >>
  <2>1. 0 \in 0..n
    OBVIOUS
  <2> QED  BY <2>1 DEF Filtered
<1>2. ASSUME NEW i \in 1..n
      PROVE  f[i] = IF s[i] \in kept THEN Append(f[i - 1], s[i]) ELSE f[i - 1]
  <2>1. i \in 0..n /\ i # 0
    OBVIOUS
  <2> QED  BY <2>1 DEF Filtered
<1> QED  BY <1>1, <1>2

\* A list that holds nothing twice still does not when something new joins it.
LEMMA AppendOfNew ==
    ASSUME NEW S, NEW h \in Seq(S), NEW e \in S, IsInjective(h), e \notin ToSet(h)
    PROVE  IsInjective(Append(h, e))
<1>1. /\ Len(h) \in Nat /\ DOMAIN h = 1..Len(h)
      /\ DOMAIN Append(h, e) = 1..(Len(h) + 1)
      /\ \A k \in 1..Len(h) : Append(h, e)[k] = h[k]
      /\ Append(h, e)[Len(h) + 1] = e
  BY AppendProperties, LenProperties
<1>2. \A k \in 1..Len(h) : h[k] # e
  BY <1>1 DEF ToSet
<1>3. \A k, l \in 1..Len(h) : h[k] = h[l] => k = l
  BY <1>1 DEF IsInjective
<1>4. ASSUME NEW k \in 1..(Len(h) + 1), NEW l \in 1..(Len(h) + 1),
             Append(h, e)[k] = Append(h, e)[l]
      PROVE  k = l
  <2>1. k \in 1..Len(h) \/ k = Len(h) + 1
    BY <1>1
  <2>2. l \in 1..Len(h) \/ l = Len(h) + 1
    BY <1>1
  <2> QED  BY <1>1, <1>2, <1>3, <1>4, <2>1, <2>2
<1> QED  BY <1>1, <1>4 DEF IsInjective

\* What the filter returns: the kept elements, in a list of their own, each as
\* often as it was there.
LEMMA AmongIs ==
    ASSUME NEW S, NEW s \in Seq(S), NEW kept
    PROVE  /\ Among(s, kept) \in Seq(S)
           /\ ToSet(Among(s, kept)) = ToSet(s) \cap kept
           /\ IsInjective(s) => IsInjective(Among(s, kept))
<1> DEFINE n == Len(s)
<1>1. n \in Nat /\ DOMAIN s = 1..n /\ \A i \in 1..n : s[i] \in S
  BY LenProperties
<1>2. \E g : Filtered(s, kept, n, g)
  BY <1>1, FilteredExists
<1>3. PICK f : Filtered(s, kept, n, f) /\ Among(s, kept) = f[n]
  <2> DEFINE c == CHOOSE g : Filtered(s, kept, n, g)
  <2>1. Filtered(s, kept, n, c)
    BY <1>2
  <2>2. Among(s, kept) = c[n]
    BY DEF Among, Filtered
  <2> QED  BY <2>1, <2>2
<1> HIDE DEF n
<1>4. /\ f[0] = << >>
      /\ \A i \in 1..n : f[i] = IF s[i] \in kept THEN Append(f[i - 1], s[i]) ELSE f[i - 1]
  BY <1>1, <1>3, FilteredSteps
<1> DEFINE Upto(i) == {s[j] : j \in 1..i}
           Holds(i) == /\ f[i] \in Seq(S) /\ ToSet(f[i]) = Upto(i) \cap kept
                       /\ IsInjective(s) => IsInjective(f[i])
<1>5. Holds(0)
  <2>1. << >> \in Seq(S) /\ ToSet(<< >>) = {} /\ IsInjective(<< >>)
    BY DEF ToSet, IsInjective
  <2>2. Upto(0) = {}
    OBVIOUS
  <2> HIDE DEF Upto
  <2> QED  BY <1>4, <2>1, <2>2
<1>6. ASSUME NEW i \in 1..n, Holds(i - 1) PROVE Holds(i)
  <2>1. Upto(i) = Upto(i - 1) \cup {s[i]}
    <3>1. 1..i = 1..(i - 1) \cup {i}
      BY <1>1
    <3> QED  BY <3>1
  <2>2. IsInjective(s) => s[i] \notin Upto(i - 1)
    <3>1. \A j \in 1..(i - 1) : j \in 1..n /\ j # i
      BY <1>1
    <3> QED  BY <1>1, <3>1 DEF IsInjective
  <2> HIDE DEF Upto
  <2>3. CASE s[i] \notin kept
    BY <1>4, <1>6, <2>1, <2>3
  <2>4. CASE s[i] \in kept
    <3>1. f[i] = Append(f[i - 1], s[i]) /\ s[i] \in S /\ f[i - 1] \in Seq(S)
      BY <1>1, <1>4, <1>6, <2>4
    <3>2. f[i] \in Seq(S) /\ ToSet(f[i]) = ToSet(f[i - 1]) \cup {s[i]}
      BY <3>1, ElementsOfAppend, AppendProperties
    <3>3. ASSUME IsInjective(s) PROVE IsInjective(f[i])
      <4> DEFINE h == f[i - 1]
                 e == s[i]
      <4>1. h \in Seq(S) /\ e \in S /\ IsInjective(h) /\ e \notin ToSet(h)
        BY <1>6, <2>2, <3>1, <3>3
      <4> HIDE DEF h, e
      <4>2. IsInjective(Append(h, e))
        BY <4>1, AppendOfNew
      <4> QED  BY <3>1, <4>2 DEF h, e
    <3> QED  BY <1>6, <2>1, <2>4, <3>2, <3>3
  <2> QED  BY <2>3, <2>4
<1>7. Holds(n)
  <2> DEFINE Bad == {i \in 0..n : ~Holds(i)}
  <2>1. ASSUME Bad # {} PROVE FALSE
    <3>1. PICK i \in Bad : \A k \in Bad : i <= k
      <4> Bad \subseteq Nat
        BY <1>1
      <4> HIDE DEF Bad
      <4> QED  BY <2>1, SmallestNat
    <3> HIDE DEF Holds
    <3>2. i \in 0..n /\ ~Holds(i)
      BY <3>1
    <3>3. i # 0
      BY <1>5, <3>2
    <3>4. i \in 1..n /\ i - 1 \in 0..n /\ ~(i <= i - 1)
      BY <1>1, <3>2, <3>3
    <3>5. Holds(i - 1)
      BY <3>1, <3>4
    <3> HIDE DEF Bad
    <3> QED  BY <1>6, <3>2, <3>4, <3>5
  <2> HIDE DEF Holds
  <2>2. n \in 0..n
    BY <1>1
  <2> QED  BY <2>1, <2>2
<1>8. Upto(n) = ToSet(s)
  BY <1>1 DEF ToSet
<1> HIDE DEF Upto
<1> QED  BY <1>3, <1>7, <1>8

NoteShape == [id : Nat, text : NoteTexts, expires : Nat]

NoteOps == [kind : {"add", "remove", "fork"}, thread : NoteThreads, arg : NoteShape \cup Nat,
            base : Seq(NoteShape), seen : Seq(NoteShape), due : SUBSET NoteShape, raced : BOOLEAN]

\* The notes of a set that have not expired at clock c.
LiveAt(S, c) == {n \in S : ~(n.expires # 0 /\ c >= n.expires)}

\* What a list holds alive is what is due, and it holds no note twice.
KeptWell(s, due, c) == LiveAt(ToSet(s), c) = LiveAt(due, c) /\ IsInjective(s)

\* A thread's stored list, at clock c with k notes created.
ThreadFits(s, due, raced, c, k) ==
    /\ \A n \in ToSet(s) : n.id <= k
    /\ ~raced => KeptWell(s, due, c)

\* An operation between its read and its write: what it goes by holds the same
\* live notes as the list it read, now and whenever it writes; the note it adds
\* is none of them; a fork brings its source's notes as they were due.
OpFits(op, c, k) == op.kind # "none" =>
    /\ LiveAt(ToSet(op.base), c) = LiveAt(ToSet(op.seen), c)
    /\ IsInjective(op.seen) => IsInjective(op.base)
    /\ \A n \in ToSet(op.base) : n.id <= k
    /\ op.kind = "add" => op.arg \in NoteShape /\ op.arg \notin ToSet(op.base) /\ op.arg.id <= k
    /\ op.kind = "fork" /\ ~op.raced => KeptWell(op.base, op.due, c)

NotesTyped ==
    /\ notes \in [NoteThreads -> Seq(NoteShape)]
    /\ notesDue \in [NoteThreads -> SUBSET NoteShape]
    /\ notesRaced \in [NoteThreads -> BOOLEAN]
    /\ noteClock \in Nat /\ noteCount \in Nat
    /\ noteOp \in [NoteAgents -> NoteOps \cup {NoOp}]

NotesInv ==
    /\ NotesTyped
    /\ \A t \in NoteThreads :
          ThreadFits(notes[t], notesDue[t], notesRaced[t], noteClock, noteCount)
    /\ \A a \in NoteAgents : OpFits(noteOp[a], noteClock, noteCount)

LEMMA LiveOfIs ==
    ASSUME NEW s \in Seq(NoteShape)
    PROVE  /\ LiveOf(s) \in Seq(NoteShape)
           /\ ToSet(LiveOf(s)) = LiveAt(ToSet(s), noteClock)
           /\ IsInjective(s) => IsInjective(LiveOf(s))
<1>1. PICK kept : kept = {n \in ToSet(s) : ~Expired(n)}
  OBVIOUS
<1>2. LiveOf(s) = Among(s, kept)
  BY <1>1 DEF LiveOf
<1>3. ToSet(s) \cap kept = LiveAt(ToSet(s), noteClock)
  BY <1>1 DEF LiveAt, Expired
<1>4. /\ Among(s, kept) \in Seq(NoteShape)
      /\ ToSet(Among(s, kept)) = ToSet(s) \cap kept
      /\ IsInjective(s) => IsInjective(Among(s, kept))
  BY AmongIs
<1> QED  BY <1>2, <1>3, <1>4

\* What has expired stays so: sets alike in their live notes remain alike.
LEMMA AlikeLater ==
    ASSUME NEW c \in Nat, NEW d \in Nat, c <= d, NEW S \in SUBSET NoteShape,
           NEW T \in SUBSET NoteShape, LiveAt(S, c) = LiveAt(T, c)
    PROVE  LiveAt(S, d) = LiveAt(T, d)
<1>1. ASSUME NEW n \in NoteShape, ~(n.expires # 0 /\ d >= n.expires)
      PROVE  ~(n.expires # 0 /\ c >= n.expires)
  <2>1. n.expires \in Nat
    BY DEF NoteShape
  <2> QED  BY <1>1, <2>1
<1>2. ASSUME NEW n \in LiveAt(S, d) PROVE n \in LiveAt(T, d)
  <2>1. n \in LiveAt(S, c)
    BY <1>1, <1>2 DEF LiveAt
  <2> QED  BY <1>2, <2>1 DEF LiveAt
<1>3. ASSUME NEW n \in LiveAt(T, d) PROVE n \in LiveAt(S, d)
  <2>1. n \in LiveAt(T, c)
    BY <1>1, <1>3 DEF LiveAt
  <2> QED  BY <1>3, <2>1 DEF LiveAt
<1> QED  BY <1>2, <1>3

LEMMA ElementsIn ==
    ASSUME NEW S, NEW s \in Seq(S)
    PROVE  ToSet(s) \subseteq S
BY LenProperties DEF ToSet

LEMMA FitsLater ==
    ASSUME NEW c \in Nat, NEW d \in Nat, c <= d, NEW k \in Nat, NEW l \in Nat, k <= l
    PROVE  /\ \A s \in Seq(NoteShape), due \in SUBSET NoteShape, raced \in BOOLEAN :
                 ThreadFits(s, due, raced, c, k) => ThreadFits(s, due, raced, d, l)
           /\ \A op \in NoteOps \cup {NoOp} : OpFits(op, c, k) => OpFits(op, d, l)
<1>1. ASSUME NEW s \in Seq(NoteShape), NEW due \in SUBSET NoteShape, KeptWell(s, due, c)
      PROVE  KeptWell(s, due, d)
  <2>1. ToSet(s) \in SUBSET NoteShape
    BY ElementsIn
  <2> QED  BY <1>1, <2>1, AlikeLater DEF KeptWell
<1>2. ASSUME NEW s \in Seq(NoteShape), \A n \in ToSet(s) : n.id <= k
      PROVE  \A n \in ToSet(s) : n.id <= l
  <2>1. ASSUME NEW n \in ToSet(s) PROVE n.id <= l
    <3>1. n \in NoteShape
      BY ElementsIn
    <3>2. n.id \in Nat /\ n.id <= k
      BY <1>2, <3>1 DEF NoteShape
    <3> QED  BY <3>2
  <2> QED  BY <2>1
<1>3. ASSUME NEW s \in Seq(NoteShape), NEW due \in SUBSET NoteShape, NEW raced \in BOOLEAN,
             ThreadFits(s, due, raced, c, k)
      PROVE  ThreadFits(s, due, raced, d, l)
  BY <1>1, <1>2, <1>3 DEF ThreadFits
<1>4. ASSUME NEW op \in NoteOps \cup {NoOp}, OpFits(op, c, k), op.kind # "none"
      PROVE  OpFits(op, d, l)
  <2>1. op \in NoteOps
    BY <1>4 DEF NoOp
  <2>2. /\ op.base \in Seq(NoteShape) /\ op.seen \in Seq(NoteShape)
        /\ op.due \in SUBSET NoteShape /\ op.raced \in BOOLEAN
    BY <2>1 DEF NoteOps
  <2>3. /\ LiveAt(ToSet(op.base), c) = LiveAt(ToSet(op.seen), c)
        /\ IsInjective(op.seen) => IsInjective(op.base)
        /\ \A n \in ToSet(op.base) : n.id <= k
        /\ op.kind = "add" => op.arg \in NoteShape /\ op.arg \notin ToSet(op.base) /\ op.arg.id <= k
        /\ op.kind = "fork" /\ ~op.raced => KeptWell(op.base, op.due, c)
    BY <1>4 DEF OpFits
  <2>4. LiveAt(ToSet(op.base), d) = LiveAt(ToSet(op.seen), d)
    <3>1. ToSet(op.base) \in SUBSET NoteShape /\ ToSet(op.seen) \in SUBSET NoteShape
      BY <2>2, ElementsIn
    <3> QED  BY <2>3, <3>1, AlikeLater
  <2>5. \A n \in ToSet(op.base) : n.id <= l
    BY <1>2, <2>2, <2>3
  <2>6. ASSUME op.kind = "add" PROVE op.arg.id <= l
    <3>1. op.arg.id \in Nat /\ op.arg.id <= k
      BY <2>3, <2>6 DEF NoteShape
    <3> QED  BY <3>1
  <2>7. ASSUME op.kind = "fork", ~op.raced PROVE KeptWell(op.base, op.due, d)
    BY <1>1, <2>2, <2>3, <2>7
  <2> QED  BY <2>3, <2>4, <2>5, <2>6, <2>7 DEF OpFits
<1> QED  BY <1>3, <1>4 DEF OpFits

LEMMA NotesInit_Inv == NotesInit => NotesInv
<1> SUFFICES ASSUME NotesInit PROVE NotesInv
  OBVIOUS
<1>1. << >> \in Seq(NoteShape) /\ ToSet(<< >>) = {} /\ IsInjective(<< >>)
  BY DEF ToSet, IsInjective
<1>2. NotesTyped
  BY <1>1 DEF NotesInit, NotesTyped
<1>3. ASSUME NEW t \in NoteThreads
      PROVE  ThreadFits(notes[t], notesDue[t], notesRaced[t], noteClock, noteCount)
  <2>1. notes[t] = << >> /\ notesDue[t] = {}
    BY DEF NotesInit
  <2> QED  BY <1>1, <2>1 DEF ThreadFits, KeptWell, LiveAt
<1>4. ASSUME NEW a \in NoteAgents PROVE OpFits(noteOp[a], noteClock, noteCount)
  BY DEF NotesInit, OpFits, NoOp
<1> QED  BY <1>2, <1>3, <1>4 DEF NotesInv

\* The read half of an operation, with its list as it was stored.
LEMMA Read_Inv ==
    ASSUME NotesInv, NEW a \in NoteAgents, NEW kind \in {"add", "remove", "fork"},
           NEW t \in NoteThreads, NEW src \in NoteThreads, NEW arg \in NoteShape \cup Nat,
           Read(a, kind, t, arg, src), noteCount' \in Nat, noteCount <= noteCount',
           kind = "add" => arg \in NoteShape /\ arg.id = noteCount + 1 /\ arg.id <= noteCount',
           UNCHANGED <<notes, noteClock, notesDue, notesRaced>>
    PROVE  NotesInv'
<1>1. PICK base : base = LiveOf(notes[src])
  OBVIOUS
<1>2. PICK seen : seen = notes[src] /\ seen \in Seq(NoteShape)
  BY DEF NotesInv, NotesTyped
<1>3. /\ base \in Seq(NoteShape) /\ ToSet(base) = LiveAt(ToSet(seen), noteClock)
      /\ IsInjective(seen) => IsInjective(base)
  BY <1>1, <1>2, LiveOfIs
<1>4. PICK op : op = [kind |-> kind, thread |-> t, arg |-> arg, base |-> base, seen |-> seen,
                      due |-> notesDue[src], raced |-> notesRaced[src]]
  OBVIOUS
<1>5. /\ op.kind = kind /\ op.arg = arg /\ op.base = base /\ op.seen = seen
      /\ op.due = notesDue[src] /\ op.raced = notesRaced[src]
  BY <1>4
<1>6. op \in NoteOps
  <2>1. notesDue[src] \in SUBSET NoteShape /\ notesRaced[src] \in BOOLEAN
    BY DEF NotesInv, NotesTyped
  <2> QED  BY <1>2, <1>3, <1>4, <2>1 DEF NoteOps
<1>7. noteOp' = [noteOp EXCEPT ![a] = op] /\ noteOp \in [NoteAgents -> NoteOps \cup {NoOp}]
  BY <1>1, <1>2, <1>4 DEF Read, NotesInv, NotesTyped
<1>8. noteClock \in Nat /\ noteCount \in Nat
  BY DEF NotesInv, NotesTyped
<1>9. /\ ThreadFits(seen, notesDue[src], notesRaced[src], noteClock, noteCount)
      /\ ToSet(base) \subseteq ToSet(seen) /\ ToSet(base) \subseteq NoteShape
  BY <1>2, <1>3, ElementsIn DEF NotesInv, LiveAt
<1>10. OpFits(op, noteClock, noteCount')
  <2>1. LiveAt(ToSet(base), noteClock) = LiveAt(ToSet(seen), noteClock)
    BY <1>3 DEF LiveAt
  <2>2. ASSUME NEW n \in ToSet(base) PROVE n.id \in Nat /\ n.id <= noteCount
    BY <1>9 DEF ThreadFits, NoteShape
  <2>3. ASSUME NEW n \in ToSet(base) PROVE n.id <= noteCount'
    BY <1>8, <2>2
  <2>4. ASSUME kind = "add" PROVE arg \notin ToSet(base)
    <3>1. arg.id = noteCount + 1
      BY <2>4
    <3>2. ~(noteCount + 1 <= noteCount)
      BY <1>8
    <3> QED  BY <2>2, <3>1, <3>2
  <2>5. ASSUME ~notesRaced[src] PROVE KeptWell(base, notesDue[src], noteClock)
    BY <1>3, <1>9, <2>1, <2>5 DEF ThreadFits, KeptWell
  <2> QED  BY <1>3, <1>5, <2>1, <2>3, <2>4, <2>5 DEF OpFits
<1>11. NotesTyped'
  BY <1>6, <1>7 DEF NotesInv, NotesTyped
<1>12. ASSUME NEW u \in NoteThreads
       PROVE  ThreadFits(notes[u], notesDue[u], notesRaced[u], noteClock, noteCount)'
  <2>1. ThreadFits(notes[u], notesDue[u], notesRaced[u], noteClock, noteCount)
    BY DEF NotesInv
  <2>2. notes[u] \in Seq(NoteShape) /\ notesDue[u] \in SUBSET NoteShape /\ notesRaced[u] \in BOOLEAN
    BY DEF NotesInv, NotesTyped
  <2>3. ThreadFits(notes[u], notesDue[u], notesRaced[u], noteClock, noteCount')
    BY <1>8, <2>1, <2>2, FitsLater
  <2> QED  BY <2>3
<1>13. ASSUME NEW b \in NoteAgents PROVE OpFits(noteOp[b], noteClock, noteCount)'
  <2>1. CASE b = a
    BY <1>7, <1>10, <2>1
  <2>2. CASE b # a
    <3>1. noteOp'[b] = noteOp[b] /\ noteOp[b] \in NoteOps \cup {NoOp}
      BY <1>7, <2>2
    <3>2. OpFits(noteOp[b], noteClock, noteCount)
      BY DEF NotesInv
    <3>3. OpFits(noteOp[b], noteClock, noteCount')
      BY <1>8, <3>1, <3>2, FitsLater
    <3> QED  BY <3>1, <3>3
  <2> QED  BY <2>1, <2>2
<1> QED  BY <1>11, <1>12, <1>13 DEF NotesInv

\* What an operation writes, when nothing wrote its thread since its read.
LEMMA WrittenWell ==
    ASSUME NEW op \in NoteOps, NEW c \in Nat, NEW k \in Nat, OpFits(op, c, k),
           NEW due \in SUBSET NoteShape, KeptWell(op.seen, due, c), op.kind # "fork"
    PROVE  KeptWell(NotesWritten(op),
                    IF op.kind = "add" THEN due \cup {op.arg} ELSE Others(op.arg, due), c)
<1>1. PICK base : base = op.base /\ base \in Seq(NoteShape)
  BY DEF NoteOps
<1>2. PICK arg : arg = op.arg
  OBVIOUS
<1>3. LiveAt(ToSet(base), c) = LiveAt(due, c) /\ IsInjective(base) /\ op.kind \in {"add", "remove"}
  BY <1>1 DEF OpFits, KeptWell, NoteOps
<1>4. CASE op.kind = "add"
  <2>1. arg \in NoteShape /\ arg \notin ToSet(base) /\ NotesWritten(op) = Append(base, arg)
    BY <1>1, <1>2, <1>4 DEF OpFits, NotesWritten
  <2>2. ToSet(Append(base, arg)) = ToSet(base) \cup {arg}
    BY <1>1, <2>1, ElementsOfAppend
  <2>3. LiveAt(ToSet(base) \cup {arg}, c) = LiveAt(due \cup {arg}, c)
    BY <1>3 DEF LiveAt
  <2>4. IsInjective(Append(base, arg))
    BY <1>1, <1>3, <2>1, AppendOfNew
  <2> QED  BY <1>2, <1>4, <2>1, <2>2, <2>3, <2>4 DEF KeptWell
<1>5. CASE op.kind = "remove"
  <2>1. PICK kept : kept = Others(arg, ToSet(base))
    OBVIOUS
  <2>2. NotesWritten(op) = Among(base, kept)
    BY <1>1, <1>2, <1>5, <2>1 DEF NotesWritten
  <2>3. /\ ToSet(Among(base, kept)) = ToSet(base) \cap kept
        /\ IsInjective(base) => IsInjective(Among(base, kept))
    BY <1>1, AmongIs
  <2>4. LiveAt(ToSet(base) \cap kept, c) = LiveAt(Others(arg, due), c)
    BY <1>3, <2>1 DEF LiveAt, Others
  <2> QED  BY <1>2, <1>3, <1>5, <2>2, <2>3, <2>4 DEF KeptWell
<1> QED  BY <1>3, <1>4, <1>5

LEMMA WrittenIsList ==
    ASSUME NEW op \in NoteOps, NEW c \in Nat, NEW k \in Nat, OpFits(op, c, k)
    PROVE  NotesWritten(op) \in Seq(NoteShape) /\ \A n \in ToSet(NotesWritten(op)) : n.id <= k
<1>1. PICK base : base = op.base /\ base \in Seq(NoteShape)
  BY DEF NoteOps
<1>2. op.kind \in {"add", "remove", "fork"}
  BY DEF NoteOps
<1>3. \A n \in ToSet(base) : n.id <= k
  BY <1>1, <1>2 DEF OpFits
<1>4. CASE op.kind = "add"
  <2>1. PICK arg : arg = op.arg /\ arg \in NoteShape /\ arg.id <= k
    BY <1>4 DEF OpFits
  <2>2. NotesWritten(op) = Append(base, arg)
    BY <1>1, <1>4, <2>1 DEF NotesWritten
  <2>3. Append(base, arg) \in Seq(NoteShape) /\ ToSet(Append(base, arg)) = ToSet(base) \cup {arg}
    BY <1>1, <2>1, ElementsOfAppend, AppendProperties
  <2> QED  BY <1>3, <2>1, <2>2, <2>3
<1>5. CASE op.kind = "remove"
  <2>1. PICK kept : NotesWritten(op) = Among(base, kept)
    BY <1>1, <1>5 DEF NotesWritten
  <2>2. Among(base, kept) \in Seq(NoteShape) /\ ToSet(Among(base, kept)) = ToSet(base) \cap kept
    BY <1>1, AmongIs
  <2> QED  BY <1>3, <2>1, <2>2
<1>6. CASE op.kind = "fork"
  BY <1>1, <1>3, <1>6 DEF NotesWritten
<1> QED  BY <1>2, <1>4, <1>5, <1>6

\* A step that changes one thread's record and at most frees one agent.
LEMMA OneThread_Inv ==
    ASSUME NotesInv, NEW t \in NoteThreads, NEW s \in Seq(NoteShape), NEW due \in SUBSET NoteShape,
           NEW raced \in BOOLEAN, ThreadFits(s, due, raced, noteClock, noteCount),
           notes' = [notes EXCEPT ![t] = s], notesDue' = [notesDue EXCEPT ![t] = due],
           notesRaced' = [notesRaced EXCEPT ![t] = raced], UNCHANGED <<noteClock, noteCount>>,
           noteOp' \in [NoteAgents -> NoteOps \cup {NoOp}],
           \A a \in NoteAgents : noteOp'[a] \in {noteOp[a], NoOp}
    PROVE  NotesInv'
<1>1. NotesTyped'
  BY DEF NotesInv, NotesTyped
<1>2. ASSUME NEW u \in NoteThreads
      PROVE  ThreadFits(notes[u], notesDue[u], notesRaced[u], noteClock, noteCount)'
  <2>1. ThreadFits(notes[u], notesDue[u], notesRaced[u], noteClock, noteCount)
    BY DEF NotesInv
  <2>2. CASE u = t
    <3>1. notes'[u] = s /\ notesDue'[u] = due /\ notesRaced'[u] = raced
      BY <2>2 DEF NotesInv, NotesTyped
    <3> QED  BY <3>1
  <2>3. CASE u # t
    <3>1. notes'[u] = notes[u] /\ notesDue'[u] = notesDue[u] /\ notesRaced'[u] = notesRaced[u]
      BY <2>3 DEF NotesInv, NotesTyped
    <3> QED  BY <2>1, <3>1
  <2> QED  BY <2>2, <2>3
<1>3. ASSUME NEW a \in NoteAgents PROVE OpFits(noteOp[a], noteClock, noteCount)'
  <2>1. OpFits(noteOp[a], noteClock, noteCount)
    BY DEF NotesInv
  <2>2. noteOp'[a] = noteOp[a] \/ noteOp'[a] = NoOp
    OBVIOUS
  <2>3. OpFits(NoOp, noteClock, noteCount)
    BY DEF OpFits, NoOp
  <2> QED  BY <2>1, <2>2, <2>3
<1> QED  BY <1>1, <1>2, <1>3 DEF NotesInv

LEMMA Save_Inv == ASSUME NotesInv, NEW a \in NoteAgents, Save(a) PROVE NotesInv'
<1>1. PICK op : op = noteOp[a]
  OBVIOUS
<1>2. PICK t : t = op.thread
  OBVIOUS
<1>3. op \in NoteOps /\ op.kind # "none"
  BY <1>1 DEF NotesInv, NotesTyped, Save, Idle, NoOp
<1>4. /\ t \in NoteThreads /\ op.kind \in {"add", "remove", "fork"} /\ op.due \in SUBSET NoteShape
      /\ op.raced \in BOOLEAN
  BY <1>2, <1>3 DEF NoteOps
<1>5. noteClock \in Nat /\ noteCount \in Nat /\ OpFits(op, noteClock, noteCount)
  BY <1>1 DEF NotesInv, NotesTyped
<1>6. PICK s : s = NotesWritten(op)
  OBVIOUS
<1>7. s \in Seq(NoteShape) /\ \A n \in ToSet(s) : n.id <= noteCount
  BY <1>3, <1>5, <1>6, WrittenIsList
<1>8. PICK due : due = CASE op.kind = "add"    -> notesDue[t] \cup {op.arg}
                         [] op.kind = "remove" -> Others(op.arg, notesDue[t])
                         [] op.kind = "fork"   -> op.due
  OBVIOUS
<1>9. PICK raced : raced = IF op.kind = "fork" THEN op.raced
                           ELSE notesRaced[t] \/ notes[t] # op.seen
  OBVIOUS
<1>10. /\ notes' = [notes EXCEPT ![t] = s] /\ noteOp' = [noteOp EXCEPT ![a] = NoOp]
       /\ UNCHANGED <<noteClock, noteCount>>
  BY <1>1, <1>2, <1>6 DEF Save
<1>11. notesDue' = [notesDue EXCEPT ![t] = due]
  BY <1>1, <1>2, <1>8 DEF Save
<1>12. notesRaced' = [notesRaced EXCEPT ![t] = raced]
  BY <1>1, <1>2, <1>9 DEF Save
<1>13. notesDue[t] \in SUBSET NoteShape /\ notesRaced[t] \in BOOLEAN
  BY <1>4 DEF NotesInv, NotesTyped
<1>14. raced \in BOOLEAN
  BY <1>4, <1>9, <1>13, Zenon
<1>15. due \in SUBSET NoteShape
  <2>1. op.kind = "add" => op.arg \in NoteShape
    BY <1>5 DEF OpFits
  <2> QED  BY <1>4, <1>8, <1>13, <2>1 DEF Others
<1>16. ASSUME ~raced PROVE KeptWell(s, due, noteClock)
  <2>1. CASE op.kind = "fork"
    <3>1. s = op.base /\ due = op.due /\ ~op.raced
      BY <1>6, <1>8, <1>9, <1>16, <2>1 DEF NotesWritten
    <3> QED  BY <1>5, <2>1, <3>1 DEF OpFits
  <2>2. CASE op.kind # "fork"
    <3>1. ~notesRaced[t] /\ notes[t] = op.seen
      BY <1>9, <1>16, <2>2
    <3>2. KeptWell(op.seen, notesDue[t], noteClock)
      BY <1>4, <3>1 DEF NotesInv, ThreadFits
    <3>3. due = IF op.kind = "add" THEN notesDue[t] \cup {op.arg} ELSE Others(op.arg, notesDue[t])
      BY <1>4, <1>8, <2>2
    <3> QED  BY <1>3, <1>5, <1>6, <1>13, <2>2, <3>2, <3>3, WrittenWell
  <2> QED  BY <2>1, <2>2
<1>17. ThreadFits(s, due, raced, noteClock, noteCount)
  BY <1>7, <1>16 DEF ThreadFits
<1>18. /\ noteOp' \in [NoteAgents -> NoteOps \cup {NoOp}]
       /\ \A b \in NoteAgents : noteOp'[b] \in {noteOp[b], NoOp}
  BY <1>10 DEF NotesInv, NotesTyped
<1> QED  BY <1>4, <1>7, <1>10, <1>11, <1>12, <1>14, <1>15, <1>17, <1>18, OneThread_Inv

LEMMA ClearNotes_Inv ==
    ASSUME NotesInv, NEW a \in NoteAgents, NEW t \in NoteThreads, ClearNotes(a, t) PROVE NotesInv'
<1>1. << >> \in Seq(NoteShape) /\ ToSet(<< >>) = {} /\ IsInjective(<< >>)
  BY DEF ToSet, IsInjective
<1>2. ThreadFits(<< >>, {}, FALSE, noteClock, noteCount)
  BY <1>1 DEF ThreadFits, KeptWell, LiveAt
<1>3. noteOp' = noteOp /\ noteOp \in [NoteAgents -> NoteOps \cup {NoOp}]
  BY DEF ClearNotes, NotesInv, NotesTyped
<1>4. /\ notes' = [notes EXCEPT ![t] = << >>] /\ notesDue' = [notesDue EXCEPT ![t] = {}]
      /\ notesRaced' = [notesRaced EXCEPT ![t] = FALSE] /\ UNCHANGED <<noteClock, noteCount>>
  BY DEF ClearNotes
<1>5. {} \in SUBSET NoteShape /\ \A b \in NoteAgents : noteOp'[b] \in {noteOp[b], NoOp}
  BY <1>3
<1> QED  BY <1>1, <1>2, <1>3, <1>4, <1>5, OneThread_Inv

LEMMA NoteTick_Inv == ASSUME NotesInv, NoteTick PROVE NotesInv'
<1>1. /\ noteClock \in Nat /\ noteCount \in Nat /\ noteClock' = noteClock + 1
      /\ UNCHANGED <<notes, noteCount, noteOp, notesDue, notesRaced>>
  BY DEF NoteTick, NotesInv, NotesTyped
<1>2. noteClock' \in Nat /\ noteClock <= noteClock' /\ noteCount <= noteCount
  BY <1>1
<1>3. NotesTyped'
  BY <1>1, <1>2 DEF NotesInv, NotesTyped
<1>4. ASSUME NEW t \in NoteThreads
      PROVE  ThreadFits(notes[t], notesDue[t], notesRaced[t], noteClock, noteCount)'
  <2>1. notes[t] \in Seq(NoteShape) /\ notesDue[t] \in SUBSET NoteShape /\ notesRaced[t] \in BOOLEAN
    BY DEF NotesInv, NotesTyped
  <2>2. ThreadFits(notes[t], notesDue[t], notesRaced[t], noteClock, noteCount)
    BY DEF NotesInv
  <2>3. ThreadFits(notes[t], notesDue[t], notesRaced[t], noteClock', noteCount)
    BY <1>1, <1>2, <2>1, <2>2, FitsLater
  <2> QED  BY <1>1, <2>3
<1>5. ASSUME NEW a \in NoteAgents PROVE OpFits(noteOp[a], noteClock, noteCount)'
  <2>1. noteOp[a] \in NoteOps \cup {NoOp} /\ OpFits(noteOp[a], noteClock, noteCount)
    BY DEF NotesInv, NotesTyped
  <2>2. OpFits(noteOp[a], noteClock', noteCount)
    BY <1>1, <1>2, <2>1, FitsLater
  <2> QED  BY <1>1, <2>2
<1> QED  BY <1>3, <1>4, <1>5 DEF NotesInv

LEMMA AddRead_Inv ==
    ASSUME NotesInv, NEW a \in NoteAgents, NEW t \in NoteThreads, NEW x \in NoteTexts, AddRead(a, t, x)
    PROVE  NotesInv'
<1>1. noteClock \in Nat /\ noteCount \in Nat /\ a \in Nat
  BY NotesAssumption DEF NotesInv, NotesTyped
<1>2. PICK n : n = [id |-> noteCount + 1, text |-> x,
                    expires |-> IF a = 0 THEN 0 ELSE noteClock + a]
  OBVIOUS
<1>3. n \in NoteShape /\ n.id = noteCount + 1
  BY <1>1, <1>2 DEF NoteShape
<1>4. noteCount' = noteCount + 1 /\ Read(a, "add", t, n, t)
  BY <1>2 DEF AddRead
<1>5. noteCount' \in Nat /\ noteCount <= noteCount' /\ n.id <= noteCount'
  BY <1>1, <1>3, <1>4
<1>6. UNCHANGED <<notes, noteClock, notesDue, notesRaced>>
  BY DEF AddRead
<1> QED  BY <1>3, <1>4, <1>5, <1>6, Read_Inv

LEMMA OtherReads_Inv ==
    ASSUME NotesInv, NEW a \in NoteAgents, NEW kind \in {"remove", "fork"}, NEW t \in NoteThreads,
           NEW src \in NoteThreads, NEW arg \in Nat, Read(a, kind, t, arg, src),
           UNCHANGED <<notes, noteClock, noteCount, notesDue, notesRaced>>
    PROVE  NotesInv'
<1>1. noteCount' = noteCount /\ noteCount \in Nat
  BY DEF NotesInv, NotesTyped
<1>2. noteCount' \in Nat /\ noteCount <= noteCount'
  BY <1>1
<1>3. /\ kind \in {"add", "remove", "fork"} /\ arg \in NoteShape \cup Nat /\ kind # "add"
      /\ UNCHANGED <<notes, noteClock, notesDue, notesRaced>>
  OBVIOUS
<1> QED  BY <1>2, <1>3, Read_Inv

LEMMA NotesNext_Inv == NotesInv /\ [NotesNext]_notesVars => NotesInv'
<1> SUFFICES ASSUME NotesInv, [NotesNext]_notesVars PROVE NotesInv'
  OBVIOUS
<1>1. CASE NoteTick
  BY <1>1, NoteTick_Inv
<1>2. ASSUME NEW a \in NoteAgents, NEW t \in NoteThreads, NEW x \in NoteTexts,
             AddRead(a, t, x) \/ ObserveTemporary(a, t, x)
      PROVE  NotesInv'
  BY <1>2, AddRead_Inv DEF ObserveTemporary
<1>3. ASSUME NEW a \in NoteAgents, NEW t \in NoteThreads, NEW id \in 1..MaxNotes, RemoveRead(a, t, id)
      PROVE  NotesInv'
  <2>1. id \in Nat
    BY NotesAssumption
  <2>2. /\ Read(a, "remove", t, id, t)
        /\ UNCHANGED <<notes, noteClock, noteCount, notesDue, notesRaced>>
    BY <1>3 DEF RemoveRead
  <2> QED  BY <2>1, <2>2, OtherReads_Inv
<1>4. ASSUME NEW a \in NoteAgents, NEW src \in NoteThreads, NEW dst \in NoteThreads,
             ForkRead(a, src, dst)
      PROVE  NotesInv'
  <2>1. /\ Read(a, "fork", dst, 0, src)
        /\ UNCHANGED <<notes, noteClock, noteCount, notesDue, notesRaced>>
    BY <1>4 DEF ForkRead
  <2> QED  BY <2>1, OtherReads_Inv
<1>5. ASSUME NEW a \in NoteAgents, NEW t \in NoteThreads, ClearNotes(a, t) PROVE NotesInv'
  BY <1>5, ClearNotes_Inv
<1>6. ASSUME NEW a \in NoteAgents, Save(a) PROVE NotesInv'
  BY <1>6, Save_Inv
<1>7. CASE UNCHANGED notesVars
  BY <1>7 DEF notesVars, NotesInv, NotesTyped
<1> QED  BY <1>1, <1>2, <1>3, <1>4, <1>5, <1>6, <1>7 DEF NotesNext

\* NotesKeptUnlessRaced, for any threads, processes, lifetimes and number of
\* notes: while no add or removal writes back a list that changed since its
\* read, ThreadMemory's purge-and-rewrite loses, revives and repeats no note.
THEOREM NotesAlwaysKept == NotesSpec => []NotesKeptUnlessRaced
<1>1. NotesInv => NotesKeptUnlessRaced
  <2> SUFFICES ASSUME NotesInv, NEW t \in NoteThreads, ~notesRaced[t]
               PROVE  /\ ToSet(LiveOf(notes[t])) = {n \in notesDue[t] : ~Expired(n)}
                      /\ IsInjective(LiveOf(notes[t]))
    BY DEF NotesKeptUnlessRaced
  <2>1. KeptWell(notes[t], notesDue[t], noteClock) /\ notes[t] \in Seq(NoteShape)
    BY DEF NotesInv, NotesTyped, ThreadFits
  <2>2. {n \in notesDue[t] : ~Expired(n)} = LiveAt(notesDue[t], noteClock)
    BY DEF LiveAt, Expired
  <2> QED  BY <2>1, <2>2, LiveOfIs DEF KeptWell
<1> QED  BY <1>1, NotesInit_Inv, NotesNext_Inv, PTL DEF NotesSpec

-----------------------------------------------------------------------------
(* InMemoryKV                                                              *)

\* A set of places that holds every place before one of its own is counted by
\* its last one.
LEMMA InitialSegment ==
    ASSUME NEW n \in Nat, NEW D, D \subseteq 1..n,
           \A i \in D : \A j \in 1..n : j < i => j \in D
    PROVE  /\ 1 + Cardinality(D) \in 1..(n + 1)
           /\ \A i \in 1..n : i < 1 + Cardinality(D) <=> i \in D
<1>1. CASE D = {}
  <2>1. Cardinality(D) = 0
    BY <1>1, FS_EmptySet
  <2> QED  BY <1>1, <2>1
<1>2. CASE D # {}
  <2>1. D \subseteq 0..n
    OBVIOUS
  <2>2. PICK m : m \in D /\ \A y \in D : m >= y
    BY <1>2, <2>1, LargestNat
  <2>3. m \in 1..n /\ \A i \in D : i \in 1..m
    BY <2>2
  <2>4. D = 1..m
    <3>1. ASSUME NEW j \in 1..m PROVE j \in D
      <4>1. j \in 1..n /\ (j < m \/ j = m)
        BY <2>3
      <4> QED  BY <2>2, <4>1
    <3> QED  BY <2>3, <3>1
  <2>5. Cardinality(1..m) = m
    BY <2>3, FS_Interval
  <2> QED  BY <2>3, <2>4, <2>5
<1> QED  BY <1>1, <1>2

\* What is left of a sequence when the places between a and b are cut out.
Cut(s, a, b) == SubSeq(s, 1, a) \o SubSeq(s, b, Len(s))

\* r is s without the places between a and b.
IsCut(r, s, a, b) ==
    /\ Len(r) = Len(s) - (b - 1 - a)
    /\ \A i \in 1..Len(r) : r[i] = s[IF i <= a THEN i ELSE i + (b - 1 - a)]

LEMMA CutIs ==
    ASSUME NEW S, NEW s \in Seq(S), NEW a \in Nat, NEW b \in Nat, a < b, b <= Len(s) + 1
    PROVE  Cut(s, a, b) \in Seq(S) /\ IsCut(Cut(s, a, b), s, a, b)
<1>1. Len(s) \in Nat /\ \A i \in 1..Len(s) : s[i] \in S
  BY LenProperties
<1> DEFINE x == SubSeq(s, 1, a)
           y == SubSeq(s, b, Len(s))
<1>2. /\ x \in Seq(S) /\ Len(x) = a
      /\ \A i \in 1..a : x[i] = s[i]
  <2>1. \A i \in 1..a : s[i] \in S
    BY <1>1
  <2>2. /\ x \in Seq(S)
        /\ Len(x) = IF 1 <= a THEN a - 1 + 1 ELSE 0
        /\ \A i \in 1..(a - 1 + 1) : x[i] = s[1 + i - 1]
    BY <2>1, SubSeqProperties
  <2> QED  BY <2>2
<1>3. /\ y \in Seq(S) /\ Len(y) = Len(s) - b + 1
      /\ \A i \in 1..(Len(s) - b + 1) : y[i] = s[b + i - 1]
  <2>1. \A i \in b..Len(s) : s[i] \in S
    BY <1>1
  <2>2. /\ y \in Seq(S)
        /\ Len(y) = IF b <= Len(s) THEN Len(s) - b + 1 ELSE 0
        /\ \A i \in 1..(Len(s) - b + 1) : y[i] = s[b + i - 1]
    BY <1>1, <2>1, SubSeqProperties
  <2> QED  BY <1>1, <2>2
<1> HIDE DEF x, y
<1>4. /\ x \o y \in Seq(S) /\ Len(x \o y) = Len(s) - (b - 1 - a)
      /\ \A i \in 1..(Len(s) - (b - 1 - a)) :
            (x \o y)[i] = IF i <= a THEN x[i] ELSE y[i - a]
  <2>1. /\ x \o y \in Seq(S) /\ Len(x \o y) = Len(x) + Len(y)
        /\ \A i \in 1..(Len(x) + Len(y)) :
              (x \o y)[i] = IF i <= Len(x) THEN x[i] ELSE y[i - Len(x)]
    BY <1>2, <1>3, ConcatProperties
  <2>2. Len(x) + Len(y) = Len(s) - (b - 1 - a)
    BY <1>1, <1>2, <1>3
  <2> QED  BY <1>2, <2>1, <2>2
<1>5. ASSUME NEW i \in 1..(Len(s) - (b - 1 - a))
      PROVE  (x \o y)[i] = s[IF i <= a THEN i ELSE i + (b - 1 - a)]
  <2>1. CASE i <= a
    BY <1>2, <1>4, <2>1
  <2>2. CASE ~(i <= a)
    <3>1. i - a \in 1..(Len(s) - b + 1) /\ b + (i - a) - 1 = i + (b - 1 - a)
      BY <1>1, <2>2
    <3> QED  BY <1>3, <1>4, <2>2, <3>1
  <2> QED  BY <2>1, <2>2
<1>6. Cut(s, a, b) = x \o y
  BY DEF Cut, x, y
<1> QED  BY <1>4, <1>5, <1>6 DEF IsCut

\* A sequence with an element put in at place p.
LEMMA InsertIs ==
    ASSUME NEW S, NEW s \in Seq(S), NEW p \in 1..(Len(s) + 1), NEW e \in S
    PROVE  /\ InsertAt(s, p, e) \in Seq(S) /\ Len(InsertAt(s, p, e)) = Len(s) + 1
           /\ \A i \in 1..Len(InsertAt(s, p, e)) :
                 InsertAt(s, p, e)[i] = IF i < p THEN s[i] ELSE IF i = p THEN e ELSE s[i - 1]
<1>1. Len(s) \in Nat /\ \A i \in 1..Len(s) : s[i] \in S
  BY LenProperties
<1> DEFINE x == SubSeq(s, 1, p - 1)
           y == SubSeq(s, p, Len(s))
<1>2. /\ x \in Seq(S) /\ Len(x) = p - 1
      /\ \A i \in 1..(p - 1) : x[i] = s[i]
  <2>1. p - 1 \in Nat /\ \A i \in 1..(p - 1) : s[i] \in S
    BY <1>1
  <2>2. /\ x \in Seq(S)
        /\ Len(x) = IF 1 <= p - 1 THEN (p - 1) - 1 + 1 ELSE 0
        /\ \A i \in 1..((p - 1) - 1 + 1) : x[i] = s[1 + i - 1]
    BY <2>1, SubSeqProperties
  <2> QED  BY <2>1, <2>2
<1>3. /\ y \in Seq(S) /\ Len(y) = Len(s) - p + 1
      /\ \A i \in 1..(Len(s) - p + 1) : y[i] = s[p + i - 1]
  <2>1. \A i \in p..Len(s) : s[i] \in S
    BY <1>1
  <2>2. /\ y \in Seq(S)
        /\ Len(y) = IF p <= Len(s) THEN Len(s) - p + 1 ELSE 0
        /\ \A i \in 1..(Len(s) - p + 1) : y[i] = s[p + i - 1]
    BY <1>1, <2>1, SubSeqProperties
  <2> QED  BY <1>1, <2>2
<1> HIDE DEF x, y
<1>4. /\ <<e>> \in Seq(S) /\ Len(<<e>>) = 1 /\ <<e>>[1] = e
  OBVIOUS
<1>5. /\ x \o <<e>> \in Seq(S) /\ Len(x \o <<e>>) = p
      /\ \A i \in 1..p : (x \o <<e>>)[i] = IF i < p THEN s[i] ELSE e
  <2>1. /\ x \o <<e>> \in Seq(S) /\ Len(x \o <<e>>) = Len(x) + Len(<<e>>)
        /\ \A i \in 1..(Len(x) + Len(<<e>>)) :
              (x \o <<e>>)[i] = IF i <= Len(x) THEN x[i] ELSE <<e>>[i - Len(x)]
    BY <1>2, <1>4, ConcatProperties
  <2>2. Len(x) + Len(<<e>>) = p
    BY <1>2, <1>4
  <2>3. ASSUME NEW i \in 1..p PROVE (x \o <<e>>)[i] = IF i < p THEN s[i] ELSE e
    <3>1. CASE i < p
      BY <1>2, <2>1, <2>2, <3>1
    <3>2. CASE ~(i < p)
      <4>1. i - Len(x) = 1 /\ ~(i <= Len(x))
        BY <1>2, <3>2
      <4> QED  BY <1>4, <2>1, <2>2, <3>2, <4>1
    <3> QED  BY <3>1, <3>2
  <2> QED  BY <2>1, <2>2, <2>3
<1> DEFINE z == x \o <<e>>
<1> HIDE DEF z
<1>6. z \in Seq(S) /\ Len(z) = p /\ \A i \in 1..p : z[i] = IF i < p THEN s[i] ELSE e
  BY <1>5 DEF z
<1>7. /\ z \o y \in Seq(S) /\ Len(z \o y) = Len(s) + 1
      /\ \A i \in 1..(Len(s) + 1) : (z \o y)[i] = IF i <= p THEN z[i] ELSE y[i - p]
  <2>1. /\ z \o y \in Seq(S) /\ Len(z \o y) = Len(z) + Len(y)
        /\ \A i \in 1..(Len(z) + Len(y)) :
              (z \o y)[i] = IF i <= Len(z) THEN z[i] ELSE y[i - Len(z)]
    BY <1>3, <1>6, ConcatProperties
  <2>2. Len(z) + Len(y) = Len(s) + 1
    BY <1>1, <1>3, <1>6
  <2> QED  BY <1>6, <2>1, <2>2
<1>8. ASSUME NEW i \in 1..(Len(s) + 1)
      PROVE  (z \o y)[i] = IF i < p THEN s[i] ELSE IF i = p THEN e ELSE s[i - 1]
  <2>1. CASE i <= p
    BY <1>6, <1>7, <2>1
  <2>2. CASE ~(i <= p)
    <3>1. i - p \in 1..(Len(s) - p + 1) /\ p + (i - p) - 1 = i - 1
      BY <1>1, <2>2
    <3> QED  BY <1>3, <1>7, <2>2, <3>1
  <2> QED  BY <2>1, <2>2
<1>9. InsertAt(s, p, e) = z \o y
  BY DEF InsertAt, x, y, z
<1> QED  BY <1>7, <1>8, <1>9

-----------------------------------------------------------------------------
\* String order on keys is strict and total.
LEMMA KeyOrder ==
    ASSUME NEW a \in AllKeys, NEW b \in AllKeys, NEW c \in AllKeys
    PROVE  /\ ~Less(a, a)
           /\ Less(a, b) \/ a = b \/ Less(b, a)
           /\ Less(a, b) => ~Less(b, a)
           /\ Less(a, b) /\ Less(b, c) => Less(a, c)
<1>1. /\ a[1] \in Nat /\ a[2] \in Nat /\ b[1] \in Nat /\ b[2] \in Nat
      /\ c[1] \in Nat /\ c[2] \in Nat
  BY KVAssumption DEF AllKeys
<1>2. a[1] = b[1] /\ a[2] = b[2] => a = b
  BY DEF AllKeys
<1> QED  BY <1>1, <1>2 DEF Less

\* What the store is after every call: the list is the dict's keys in order.
KVInv ==
    /\ mem \subseteq AllKeys /\ sortedKeys \in Seq(AllKeys)
    /\ ToSet(sortedKeys) = mem /\ Ascending(sortedKeys)

\* Places and keys go together.
LEMMA PlacesOfKeys ==
    ASSUME KVInv
    PROVE  /\ Len(sortedKeys) \in Nat /\ DOMAIN sortedKeys = 1..Len(sortedKeys)
           /\ \A i \in 1..Len(sortedKeys) : sortedKeys[i] \in mem /\ sortedKeys[i] \in AllKeys
           /\ \A k \in mem : \E i \in 1..Len(sortedKeys) : sortedKeys[i] = k
           /\ \A i, j \in 1..Len(sortedKeys) : i < j <=> Less(sortedKeys[i], sortedKeys[j])
           /\ \A i, j \in 1..Len(sortedKeys) : i = j <=> sortedKeys[i] = sortedKeys[j]
<1>1. /\ Len(sortedKeys) \in Nat /\ DOMAIN sortedKeys = 1..Len(sortedKeys)
      /\ \A i \in 1..Len(sortedKeys) : sortedKeys[i] \in AllKeys
  BY LenProperties DEF KVInv
<1>2. \A i, j \in 1..Len(sortedKeys) : i < j => Less(sortedKeys[i], sortedKeys[j])
  BY <1>1 DEF KVInv, Ascending
<1>3. ASSUME NEW i \in 1..Len(sortedKeys), NEW j \in 1..Len(sortedKeys)
      PROVE  /\ i < j <=> Less(sortedKeys[i], sortedKeys[j])
             /\ i = j <=> sortedKeys[i] = sortedKeys[j]
  <2>1. CASE i < j
    BY <1>1, <1>2, <2>1, KeyOrder
  <2>2. CASE j < i
    BY <1>1, <1>2, <2>2, KeyOrder
  <2>3. CASE i = j
    BY <1>1, <2>3, KeyOrder
  <2> QED  BY <2>1, <2>2, <2>3
<1> QED  BY <1>1, <1>3 DEF KVInv, ToSet

\* The bisections: each splits the list where its key would stand.
LEMMA BisectRightSplits ==
    ASSUME KVInv, NEW k \in AllKeys
    PROVE  /\ BisectRight(k) \in 1..(Len(sortedKeys) + 1)
           /\ \A i \in 1..Len(sortedKeys) : i < BisectRight(k) <=> ~Less(k, sortedKeys[i])
<1> DEFINE D == {i \in DOMAIN sortedKeys : ~Less(k, sortedKeys[i])}
           n == Len(sortedKeys)
<1>1. /\ n \in Nat /\ D = {i \in 1..n : ~Less(k, sortedKeys[i])}
      /\ \A i \in 1..n : sortedKeys[i] \in AllKeys
      /\ \A i, j \in 1..n : i < j => Less(sortedKeys[i], sortedKeys[j])
  BY PlacesOfKeys
<1>2. \A i \in D : \A j \in 1..n : j < i => j \in D
  BY <1>1, KeyOrder
<1>3. /\ 1 + Cardinality(D) \in 1..(n + 1)
      /\ \A i \in 1..n : i < 1 + Cardinality(D) <=> i \in D
  <2>1. D \subseteq 1..n
    BY <1>1
  <2> HIDE DEF D, n
  <2> QED  BY <1>1, <1>2, <2>1, InitialSegment
<1>4. BisectRight(k) = 1 + Cardinality(D)
  BY DEF BisectRight
<1> HIDE DEF D
<1> QED  BY <1>1, <1>3, <1>4

LEMMA BisectLeftSplits ==
    ASSUME KVInv, NEW k \in AllKeys
    PROVE  /\ BisectLeft(k) \in 1..(Len(sortedKeys) + 1)
           /\ \A i \in 1..Len(sortedKeys) : i < BisectLeft(k) <=> Less(sortedKeys[i], k)
<1> DEFINE D == {i \in DOMAIN sortedKeys : Less(sortedKeys[i], k)}
           n == Len(sortedKeys)
<1>1. /\ n \in Nat /\ D = {i \in 1..n : Less(sortedKeys[i], k)}
      /\ \A i \in 1..n : sortedKeys[i] \in AllKeys
      /\ \A i, j \in 1..n : i < j => Less(sortedKeys[i], sortedKeys[j])
  BY PlacesOfKeys
<1>2. \A i \in D : \A j \in 1..n : j < i => j \in D
  BY <1>1, KeyOrder
<1>3. /\ 1 + Cardinality(D) \in 1..(n + 1)
      /\ \A i \in 1..n : i < 1 + Cardinality(D) <=> i \in D
  <2>1. D \subseteq 1..n
    BY <1>1
  <2> HIDE DEF D, n
  <2> QED  BY <1>1, <1>2, <2>1, InitialSegment
<1>4. BisectLeft(k) = 1 + Cardinality(D)
  BY DEF BisectLeft
<1> HIDE DEF D
<1> QED  BY <1>1, <1>3, <1>4

LEMMA PrefixLoSplits ==
    ASSUME KVInv, NEW p \in KeyPrefixes
    PROVE  /\ PrefixLo(p) \in 1..(Len(sortedKeys) + 1)
           /\ \A i \in 1..Len(sortedKeys) : i < PrefixLo(p) <=> sortedKeys[i][1] < p
<1> DEFINE D == {i \in DOMAIN sortedKeys : sortedKeys[i][1] < p}
           n == Len(sortedKeys)
<1>1. /\ n \in Nat /\ D = {i \in 1..n : sortedKeys[i][1] < p}
      /\ \A i \in 1..n : sortedKeys[i][1] \in Nat
      /\ \A i, j \in 1..n : i < j => sortedKeys[i][1] <= sortedKeys[j][1]
  <2>1. \A i \in 1..n : sortedKeys[i][1] \in Nat
    BY PlacesOfKeys, KVAssumption DEF AllKeys
  <2>2. ASSUME NEW i \in 1..n, NEW j \in 1..n, i < j
        PROVE  sortedKeys[i][1] <= sortedKeys[j][1]
    <3>1. Less(sortedKeys[i], sortedKeys[j])
      BY <2>2, PlacesOfKeys
    <3> QED  BY <2>1, <3>1 DEF Less
  <2> QED  BY <2>1, <2>2, PlacesOfKeys
<1>2. \A i \in D : \A j \in 1..n : j < i => j \in D
  BY <1>1, KVAssumption
<1>3. /\ 1 + Cardinality(D) \in 1..(n + 1)
      /\ \A i \in 1..n : i < 1 + Cardinality(D) <=> i \in D
  <2>1. D \subseteq 1..n
    BY <1>1
  <2> HIDE DEF D, n
  <2> QED  BY <1>1, <1>2, <2>1, InitialSegment
<1>4. PrefixLo(p) = 1 + Cardinality(D)
  BY DEF PrefixLo
<1> HIDE DEF D
<1> QED  BY <1>1, <1>3, <1>4

\* The walk from a place on ends at the first key of another prefix.
LEMMA WalkEnds ==
    ASSUME KVInv, NEW p \in KeyPrefixes, NEW lo \in 1..(Len(sortedKeys) + 1)
    PROVE  /\ WalkEnd(p, lo) \in lo..(Len(sortedKeys) + 1)
           /\ \A i \in 1..Len(sortedKeys) :
                 lo <= i /\ i < WalkEnd(p, lo) => sortedKeys[i][1] = p
           /\ WalkEnd(p, lo) <= Len(sortedKeys) => sortedKeys[WalkEnd(p, lo)][1] # p
<1> DEFINE n == Len(sortedKeys)
           others == {i \in lo..n : sortedKeys[i][1] # p}
<1>1. n \in Nat
  BY PlacesOfKeys
<1>2. CASE others = {}
  <2>1. WalkEnd(p, lo) = n + 1
    BY <1>2 DEF WalkEnd
  <2>2. \A i \in lo..n : sortedKeys[i][1] = p
    BY <1>2
  <2> QED  BY <1>1, <2>1, <2>2
<1>3. CASE others # {}
  <2>1. WalkEnd(p, lo) = CHOOSE i \in others : \A j \in others : i <= j
    BY <1>3 DEF WalkEnd
  <2>2. \E i \in others : \A j \in others : i <= j
    <3>1. others \subseteq Nat
      BY <1>1
    <3> HIDE DEF others
    <3> QED  BY <1>3, <3>1, SmallestNat
  <2>3. WalkEnd(p, lo) \in others /\ \A j \in others : WalkEnd(p, lo) <= j
    <3> HIDE DEF others
    <3> QED  BY <2>1, <2>2
  <2> QED  BY <1>1, <2>3
<1> QED  BY <1>2, <1>3

-----------------------------------------------------------------------------
(* Every call keeps the list in step.                                      *)

\* Cutting places out of the list takes their keys away and keeps the order.
LEMMA CutKeepsOrder ==
    ASSUME KVInv, NEW a \in Nat, NEW b \in Nat, a < b, b <= Len(sortedKeys) + 1
    PROVE  /\ Cut(sortedKeys, a, b) \in Seq(AllKeys) /\ Ascending(Cut(sortedKeys, a, b))
           /\ ToSet(Cut(sortedKeys, a, b))
                 = mem \ {sortedKeys[i] : i \in (a + 1)..(b - 1)}
<1> DEFINE n == Len(sortedKeys)
           r == Cut(sortedKeys, a, b)
           at(i) == IF i <= a THEN i ELSE i + (b - 1 - a)
<1>1. /\ n \in Nat /\ r \in Seq(AllKeys) /\ Len(r) = n - (b - 1 - a)
      /\ \A i \in 1..Len(r) : r[i] = sortedKeys[at(i)]
  <2>1. sortedKeys \in Seq(AllKeys)
    BY DEF KVInv
  <2>2. r \in Seq(AllKeys) /\ IsCut(r, sortedKeys, a, b)
    BY <2>1, CutIs
  <2> QED  BY <2>2, PlacesOfKeys DEF IsCut
<1> HIDE DEF r
<1>2. DOMAIN r = 1..Len(r)
  BY <1>1, LenProperties
<1>3. \A i \in 1..Len(r) : at(i) \in 1..n /\ at(i) \notin (a + 1)..(b - 1)
  BY <1>1
<1>4. Ascending(r)
  <2>1. ASSUME NEW i \in DOMAIN r, NEW j \in DOMAIN r, i < j PROVE Less(r[i], r[j])
    <3>1. at(i) < at(j) /\ at(i) \in 1..n /\ at(j) \in 1..n
      BY <1>1, <1>2, <1>3, <2>1
    <3>2. r[i] = sortedKeys[at(i)] /\ r[j] = sortedKeys[at(j)]
      BY <1>1, <1>2
    <3> HIDE DEF at
    <3> QED  BY <3>1, <3>2, PlacesOfKeys
  <2> QED  BY <2>1 DEF Ascending
<1>5. ASSUME NEW i \in 1..Len(r)
      PROVE  r[i] \in mem \ {sortedKeys[j] : j \in (a + 1)..(b - 1)}
  <2>1. r[i] = sortedKeys[at(i)] /\ at(i) \in 1..n /\ at(i) \notin (a + 1)..(b - 1)
    BY <1>1, <1>3
  <2>2. \A j \in (a + 1)..(b - 1) : j \in 1..n
    BY <1>1
  <2> HIDE DEF at
  <2> QED  BY <2>1, <2>2, PlacesOfKeys
<1>6. ASSUME NEW k \in mem, k \notin {sortedKeys[j] : j \in (a + 1)..(b - 1)}
      PROVE  \E i \in 1..Len(r) : r[i] = k
  <2>1. PICK j \in 1..n : sortedKeys[j] = k
    BY PlacesOfKeys
  <2>2. j \notin (a + 1)..(b - 1)
    BY <1>6, <2>1
  <2>3. CASE j <= a
    <3>1. j \in 1..Len(r) /\ at(j) = j
      BY <1>1, <2>3
    <3> QED  BY <1>1, <2>1, <3>1
  <2>4. CASE ~(j <= a)
    <3>1. j - (b - 1 - a) \in 1..Len(r) /\ at(j - (b - 1 - a)) = j
      BY <1>1, <2>2, <2>4
    <3> QED  BY <1>1, <2>1, <3>1
  <2> QED  BY <2>3, <2>4
<1>7. ToSet(r) = mem \ {sortedKeys[i] : i \in (a + 1)..(b - 1)}
  BY <1>2, <1>5, <1>6 DEF ToSet
<1> QED  BY <1>1, <1>4, <1>7 DEF r

LEMMA UpsertInv ==
    ASSUME KVInv, NEW k \in AllKeys, UpsertRow(k)
    PROVE  KVInv'
<1> USE DEF UpsertRow
<1>1. CASE k \in mem
  <2>1. mem' = mem /\ sortedKeys' = sortedKeys
    BY <1>1
  <2> QED  BY <2>1 DEF KVInv, Ascending
<1>2. CASE k \notin mem
  <2> DEFINE n == Len(sortedKeys)
             p == BisectRight(k)
  <2>1. /\ sortedKeys \in Seq(AllKeys) /\ n \in Nat /\ p \in 1..(n + 1)
        /\ \A i \in 1..n : i < p => Less(sortedKeys[i], k)
        /\ \A i \in 1..n : ~(i < p) => Less(k, sortedKeys[i])
    <3>1. \A i \in 1..n : sortedKeys[i] \in AllKeys /\ sortedKeys[i] # k
      BY <1>2, PlacesOfKeys
    <3>2. \A i \in 1..n : i < p <=> ~Less(k, sortedKeys[i])
      BY BisectRightSplits
    <3>3. p \in 1..(n + 1)
      BY BisectRightSplits
    <3> HIDE DEF p
    <3> QED  BY <3>1, <3>2, <3>3, KeyOrder, PlacesOfKeys DEF KVInv
  <2>2. sortedKeys' = InsertAt(sortedKeys, p, k) /\ mem' = mem \cup {k}
    BY <1>2
  <2> HIDE DEF p
  <2>3. /\ sortedKeys' \in Seq(AllKeys) /\ Len(sortedKeys') = n + 1
        /\ DOMAIN sortedKeys' = 1..(n + 1)
        /\ \A i \in 1..(n + 1) :
              sortedKeys'[i] = IF i < p THEN sortedKeys[i]
                               ELSE IF i = p THEN k ELSE sortedKeys[i - 1]
    <3>1. p \in 1..(Len(sortedKeys) + 1) /\ sortedKeys \in Seq(AllKeys)
      BY <2>1
    <3>2. /\ InsertAt(sortedKeys, p, k) \in Seq(AllKeys)
          /\ Len(InsertAt(sortedKeys, p, k)) = Len(sortedKeys) + 1
          /\ \A i \in 1..Len(InsertAt(sortedKeys, p, k)) :
                InsertAt(sortedKeys, p, k)[i] = IF i < p THEN sortedKeys[i]
                                                ELSE IF i = p THEN k ELSE sortedKeys[i - 1]
      <4> HIDE DEF n
      <4> QED  BY <3>1, InsertIs, SMTT(20)
    <3>3. /\ sortedKeys' \in Seq(AllKeys) /\ Len(sortedKeys') = n + 1
          /\ \A i \in 1..Len(sortedKeys') :
                sortedKeys'[i] = IF i < p THEN sortedKeys[i]
                                 ELSE IF i = p THEN k ELSE sortedKeys[i - 1]
      BY <2>2, <3>2
    <3> QED  BY <3>3, LenProperties
  <2>4. Ascending(sortedKeys')
    <3>1. ASSUME NEW i \in 1..(n + 1), NEW j \in 1..(n + 1), i < j
          PROVE  Less(sortedKeys'[i], sortedKeys'[j])
      <4>1. CASE j < p
        <5>1. /\ sortedKeys'[i] = sortedKeys[i] /\ sortedKeys'[j] = sortedKeys[j]
              /\ i \in 1..n /\ j \in 1..n
          BY <2>1, <2>3, <3>1, <4>1
        <5> QED  BY <3>1, <5>1, PlacesOfKeys
      <4>2. CASE j = p
        <5>1. sortedKeys'[i] = sortedKeys[i] /\ sortedKeys'[j] = k /\ i \in 1..n /\ i < p
          BY <2>1, <2>3, <3>1, <4>2
        <5> QED  BY <2>1, <5>1
      <4>3. CASE p < j /\ i < p
        <5>1. /\ sortedKeys'[i] = sortedKeys[i] /\ sortedKeys'[j] = sortedKeys[j - 1]
              /\ i \in 1..n /\ j - 1 \in 1..n /\ i < j - 1
          BY <2>1, <2>3, <3>1, <4>3
        <5> QED  BY <5>1, PlacesOfKeys
      <4>4. CASE p < j /\ i = p
        <5>1. /\ sortedKeys'[i] = k /\ sortedKeys'[j] = sortedKeys[j - 1]
              /\ j - 1 \in 1..n /\ ~(j - 1 < p)
          BY <2>1, <2>3, <3>1, <4>4
        <5> QED  BY <2>1, <5>1
      <4>5. CASE p < j /\ p < i
        <5>1. /\ sortedKeys'[i] = sortedKeys[i - 1] /\ sortedKeys'[j] = sortedKeys[j - 1]
              /\ i - 1 \in 1..n /\ j - 1 \in 1..n /\ i - 1 < j - 1
          BY <2>1, <2>3, <3>1, <4>5
        <5> QED  BY <5>1, PlacesOfKeys
      <4> QED  BY <2>1, <4>1, <4>2, <4>3, <4>4, <4>5
    <3> QED  BY <2>3, <3>1 DEF Ascending
  <2>5. ToSet(sortedKeys') = mem \cup {k}
    <3>1. ASSUME NEW i \in 1..(n + 1) PROVE sortedKeys'[i] \in mem \cup {k}
      <4>1. CASE i < p
        <5>1. i \in 1..n /\ sortedKeys'[i] = sortedKeys[i]
          BY <2>1, <2>3, <4>1
        <5> QED  BY <5>1, PlacesOfKeys
      <4>2. CASE i = p
        BY <2>3, <4>2
      <4>3. CASE p < i
        <5>1. i - 1 \in 1..n /\ sortedKeys'[i] = sortedKeys[i - 1]
          BY <2>1, <2>3, <4>3
        <5> QED  BY <5>1, PlacesOfKeys
      <4> QED  BY <2>1, <4>1, <4>2, <4>3
    <3>2. ASSUME NEW x \in mem PROVE \E i \in 1..(n + 1) : sortedKeys'[i] = x
      <4>1. PICK j \in 1..n : sortedKeys[j] = x
        BY PlacesOfKeys
      <4>2. CASE j < p
        <5>1. j \in 1..(n + 1) /\ sortedKeys'[j] = sortedKeys[j]
          BY <2>1, <2>3, <4>2
        <5> QED  BY <4>1, <5>1
      <4>3. CASE ~(j < p)
        <5>1. j + 1 \in 1..(n + 1) /\ ~(j + 1 < p) /\ j + 1 # p /\ (j + 1) - 1 = j
          BY <2>1, <4>3
        <5>2. sortedKeys'[j + 1] = sortedKeys[j]
          BY <2>3, <5>1
        <5> QED  BY <4>1, <5>1, <5>2
      <4> QED  BY <4>2, <4>3
    <3>3. sortedKeys'[p] = k /\ p \in 1..(n + 1)
      BY <2>1, <2>3
    <3> QED  BY <2>3, <3>1, <3>2, <3>3 DEF ToSet
  <2> QED  BY <2>2, <2>3, <2>4, <2>5 DEF KVInv
<1> QED  BY <1>1, <1>2

LEMMA DeleteInv ==
    ASSUME KVInv, NEW k \in AllKeys, DeleteRow(k)
    PROVE  KVInv'
<1> USE DEF DeleteRow
<1> DEFINE n == Len(sortedKeys)
           p == BisectLeft(k)
<1>1. n \in Nat /\ p \in 1..n /\ sortedKeys[p] = k
  <2>1. PICK j \in 1..n : sortedKeys[j] = k
    BY PlacesOfKeys
  <2>2. p \in 1..(n + 1) /\ \A i \in 1..n : i < p <=> Less(sortedKeys[i], sortedKeys[j])
    BY <2>1, BisectLeftSplits
  <2>3. n \in Nat /\ \A i \in 1..n : i < p <=> i < j
    BY <2>2, PlacesOfKeys
  <2> HIDE DEF p
  <2>4. ~(p < j)
    BY <2>2, <2>3
  <2>5. ~(j < p)
    BY <2>2, <2>3
  <2> QED  BY <2>1, <2>2, <2>3, <2>4, <2>5
<1>2. /\ mem' = mem \ {k}
      /\ sortedKeys' = Cut(sortedKeys, p - 1, p + 1)
  BY DEF RemoveAt, Cut
<1> HIDE DEF p
<1>3. /\ p - 1 \in Nat /\ p + 1 \in Nat /\ p - 1 < p + 1 /\ p + 1 <= n + 1
      /\ ((p - 1) + 1)..((p + 1) - 1) = {p}
  BY <1>1
<1>4. /\ sortedKeys' \in Seq(AllKeys) /\ Ascending(sortedKeys')
      /\ ToSet(sortedKeys') = mem \ {sortedKeys[i] : i \in ((p - 1) + 1)..((p + 1) - 1)}
  BY <1>2, <1>3, CutKeepsOrder
<1>5. {sortedKeys[i] : i \in ((p - 1) + 1)..((p + 1) - 1)} = {k}
  BY <1>1, <1>3
<1> QED  BY <1>2, <1>4, <1>5 DEF KVInv

LEMMA ClearInv ==
    ASSUME KVInv, NEW p \in KeyPrefixes, ClearPrefix(p)
    PROVE  KVInv'
<1> DEFINE n == Len(sortedKeys)
           lo == PrefixLo(p)
           hi == PrefixHi(p)
<1>1. n \in Nat /\ lo \in 1..(n + 1) /\ hi \in lo..(n + 1)
  BY PlacesOfKeys, PrefixLoSplits, WalkEnds DEF PrefixHi
<1>2. /\ mem' = mem \ {sortedKeys[i] : i \in lo..(hi - 1)}
      /\ sortedKeys' = Cut(sortedKeys, lo - 1, hi)
  BY DEF ClearPrefix, Cut
<1> HIDE DEF lo, hi
<1>3. /\ lo - 1 \in Nat /\ hi \in Nat /\ lo - 1 < hi /\ hi <= n + 1 /\ (lo - 1) + 1 = lo
  BY <1>1
<1>4. /\ sortedKeys' \in Seq(AllKeys) /\ Ascending(sortedKeys')
      /\ ToSet(sortedKeys') = mem \ {sortedKeys[i] : i \in ((lo - 1) + 1)..(hi - 1)}
  BY <1>2, <1>3, CutKeepsOrder
<1> QED  BY <1>2, <1>3, <1>4 DEF KVInv

LEMMA ReplaceInv ==
    ASSUME KVInv, NEW keys \in SUBSET AllKeys, ReplaceRows(keys)
    PROVE  KVInv'
<1>1. IsFiniteSet(keys)
  BY KVAssumption, FS_Product, FS_Subset DEF AllKeys
<1>2. /\ mem' = keys /\ sortedKeys' \in SetToSeqs(keys) /\ Ascending(sortedKeys')
  BY DEF ReplaceRows
<1>3. sortedKeys' \in Seq(keys) /\ ToSet(sortedKeys') = keys
  BY <1>1, <1>2, ElementsOfOrder
<1>4. sortedKeys' \in Seq(AllKeys)
  BY <1>3
<1> QED  BY <1>2, <1>3, <1>4 DEF KVInv

-----------------------------------------------------------------------------
\* What the invariant gives a reader.
LEMMA InStepIsRead ==
    ASSUME KVInv
    PROVE  ReadsFindTheRows
<1> SUFFICES ASSUME NEW p \in KeyPrefixes
    PROVE  LET have == {k \in mem : k[1] = p}
           IN  /\ HasPrefix(p) <=> have # {}
               /\ \A after \in AllKeys :
                      /\ Ascending(RecordsAfter(p, after))
                      /\ ToSet(RecordsAfter(p, after)) = {k \in have : Less(after, k)}
  BY DEF ReadsFindTheRows
<1> DEFINE n == Len(sortedKeys)
           have == {k \in mem : k[1] = p}
           lo0 == PrefixLo(p)
<1>1. /\ n \in Nat /\ p \in Nat /\ lo0 \in 1..(n + 1)
      /\ \A i \in 1..n : sortedKeys[i][1] \in Nat
      /\ \A i \in 1..n : i < lo0 <=> sortedKeys[i][1] < p
      /\ \A i, j \in 1..n : i < j => sortedKeys[i][1] <= sortedKeys[j][1]
  <2>1. n \in Nat /\ p \in Nat /\ \A i \in 1..n : sortedKeys[i][1] \in Nat
    BY PlacesOfKeys, KVAssumption DEF AllKeys
  <2>2. lo0 \in 1..(n + 1) /\ \A i \in 1..n : i < lo0 <=> sortedKeys[i][1] < p
    BY PrefixLoSplits
  <2>3. ASSUME NEW i \in 1..n, NEW j \in 1..n, i < j
        PROVE  sortedKeys[i][1] <= sortedKeys[j][1]
    <3>1. Less(sortedKeys[i], sortedKeys[j])
      BY <2>3, PlacesOfKeys
    <3> QED  BY <2>1, <3>1 DEF Less
  <2> HIDE DEF lo0
  <2> QED  BY <2>1, <2>2, <2>3
<1>2. HasPrefix(p) <=> have # {}
  <2>1. HasPrefix(p) <=> lo0 <= n /\ sortedKeys[lo0][1] = p
    BY DEF HasPrefix
  <2> HIDE DEF lo0
  <2>2. ASSUME lo0 <= n, sortedKeys[lo0][1] = p PROVE have # {}
    <3>1. lo0 \in 1..n
      BY <1>1, <2>2
    <3> QED  BY <2>2, <3>1, PlacesOfKeys
  <2>3. ASSUME NEW k \in have PROVE lo0 <= n /\ sortedKeys[lo0][1] = p
    <3>1. PICK i \in 1..n : sortedKeys[i] = k
      BY PlacesOfKeys
    <3>2. ~(i < lo0)
      BY <1>1, <3>1
    <3>3. lo0 \in 1..n /\ lo0 <= i
      BY <1>1, <3>2
    <3>4. sortedKeys[lo0][1] <= p
      <4>1. CASE lo0 = i
        BY <1>1, <3>1, <4>1
      <4>2. CASE lo0 < i
        BY <1>1, <3>1, <3>3, <4>2
      <4> QED  BY <1>1, <3>3, <4>1, <4>2
    <3>5. ~(sortedKeys[lo0][1] < p)
      BY <1>1, <3>3
    <3> QED  BY <1>1, <3>3, <3>4, <3>5
  <2> QED  BY <2>1, <2>2, <2>3
<1>3. ASSUME NEW after \in AllKeys
      PROVE  /\ Ascending(RecordsAfter(p, after))
             /\ ToSet(RecordsAfter(p, after)) = {k \in have : Less(after, k)}
  <2> DEFINE b == BisectRight(after)
             lo == IF b > lo0 THEN b ELSE lo0
             hi == WalkEnd(p, lo)
             r == RecordsAfter(p, after)
  <2>1. b \in 1..(n + 1) /\ \A i \in 1..n : i < b <=> ~Less(after, sortedKeys[i])
    BY BisectRightSplits
  <2>2. r = SubSeq(sortedKeys, lo, hi - 1)
    BY DEF RecordsAfter
  <2> HIDE DEF lo0, b, r
  <2>3. lo \in 1..(n + 1) /\ \A i \in 1..n : lo <= i <=> lo0 <= i /\ b <= i
    BY <1>1, <2>1
  <2> HIDE DEF lo
  <2>4. /\ hi \in lo..(n + 1)
        /\ \A i \in 1..n : lo <= i /\ i < hi => sortedKeys[i][1] = p
        /\ hi <= n => sortedKeys[hi][1] # p
    BY <2>3, WalkEnds
  <2> HIDE DEF hi
  <2>5. /\ Len(r) \in Nat /\ Len(r) = hi - lo /\ DOMAIN r = 1..(hi - lo)
        /\ \A i \in 1..(hi - lo) : r[i] = sortedKeys[lo + i - 1]
    <3>1. \A i \in lo..(hi - 1) : sortedKeys[i] \in AllKeys
      <4>1. \A i \in lo..(hi - 1) : i \in 1..n
        BY <1>1, <2>3, <2>4
      <4> QED  BY <4>1, PlacesOfKeys
    <3>2. /\ r \in Seq(AllKeys)
          /\ Len(r) = IF lo <= hi - 1 THEN (hi - 1) - lo + 1 ELSE 0
          /\ \A i \in 1..((hi - 1) - lo + 1) : r[i] = sortedKeys[lo + i - 1]
      BY <1>1, <2>2, <2>3, <2>4, <3>1, SubSeqProperties
    <3>3. Len(r) = hi - lo
      BY <1>1, <2>3, <2>4, <3>2
    <3> QED  BY <1>1, <2>3, <2>4, <3>2, <3>3, LenProperties
  <2>6. Ascending(r)
    <3>1. ASSUME NEW i \in 1..(hi - lo), NEW j \in 1..(hi - lo), i < j
          PROVE  Less(r[i], r[j])
      <4>1. /\ lo + i - 1 \in 1..n /\ lo + j - 1 \in 1..n /\ lo + i - 1 < lo + j - 1
            /\ r[i] = sortedKeys[lo + i - 1] /\ r[j] = sortedKeys[lo + j - 1]
        BY <1>1, <2>3, <2>4, <2>5, <3>1
      <4> QED  BY <4>1, PlacesOfKeys
    <3> QED  BY <2>5, <3>1 DEF Ascending
  <2>7. ASSUME NEW i \in 1..(hi - lo) PROVE r[i] \in have /\ Less(after, r[i])
    <3>1. /\ lo + i - 1 \in 1..n /\ lo <= lo + i - 1 /\ lo + i - 1 < hi
          /\ r[i] = sortedKeys[lo + i - 1]
      BY <1>1, <2>3, <2>4, <2>5
    <3>2. sortedKeys[lo + i - 1][1] = p /\ b <= lo + i - 1
      BY <2>3, <2>4, <3>1
    <3>3. Less(after, sortedKeys[lo + i - 1])
      BY <1>1, <2>1, <3>1, <3>2
    <3> QED  BY <3>1, <3>2, <3>3, PlacesOfKeys
  <2>8. ASSUME NEW k \in have, Less(after, k) PROVE \E i \in 1..(hi - lo) : r[i] = k
    <3>1. PICK j \in 1..n : sortedKeys[j] = k
      BY PlacesOfKeys
    <3>2. lo <= j
      <4>1. ~(j < lo0)
        BY <1>1, <3>1
      <4>2. ~(j < b)
        BY <2>1, <2>8, <3>1
      <4> QED  BY <1>1, <2>1, <2>3, <4>1, <4>2
    <3>3. j < hi
      <4> SUFFICES ASSUME ~(j < hi) PROVE FALSE
        OBVIOUS
      <4>1. hi \in 1..n /\ hi <= j /\ lo <= hi
        BY <1>1, <2>3, <2>4
      <4>2. sortedKeys[hi][1] <= sortedKeys[j][1]
        <5>1. hi = j \/ hi < j
          BY <1>1, <4>1
        <5> QED  BY <1>1, <4>1, <5>1
      <4>3. ~(sortedKeys[hi][1] < p)
        <5>1. lo0 <= hi
          BY <2>3, <4>1
        <5> QED  BY <1>1, <4>1, <5>1
      <4> QED  BY <1>1, <2>4, <3>1, <4>1, <4>2, <4>3
    <3>4. j - lo + 1 \in 1..(hi - lo) /\ lo + (j - lo + 1) - 1 = j
      BY <1>1, <2>3, <2>4, <3>2, <3>3
    <3> QED  BY <2>5, <3>1, <3>4
  <2>9. ToSet(r) = {k \in have : Less(after, k)}
    <3> HIDE DEF have
    <3>1. ToSet(r) = {r[i] : i \in 1..(hi - lo)}
      BY <2>5 DEF ToSet
    <3> QED  BY <2>7, <2>8, <3>1
  <2> QED  BY <2>6, <2>9 DEF r
<1> QED  BY <1>2, <1>3

(* Every read by prefix of the in-memory store finds its rows, for any keys
   and any calls. *)
THEOREM ReadsAlwaysFindTheRows == KVSpec => []ReadsFindTheRows
<1>1. KVInit => KVInv
  <2> SUFFICES ASSUME KVInit PROVE KVInv
    OBVIOUS
  <2> QED  BY DEF KVInit, KVInv, ToSet, Ascending
<1>2. KVInv /\ [KVNext]_kvVars => KVInv'
  <2> SUFFICES ASSUME KVInv, [KVNext]_kvVars PROVE KVInv'
    OBVIOUS
  <2>1. CASE KVNext
    <3>1. ASSUME NEW k \in AllKeys, UpsertRow(k) \/ DeleteRow(k) PROVE KVInv'
      BY <3>1, UpsertInv, DeleteInv
    <3>2. ASSUME NEW p \in KeyPrefixes, ClearPrefix(p) PROVE KVInv'
      BY <3>2, ClearInv
    <3>3. ASSUME NEW keys \in SUBSET AllKeys, ReplaceRows(keys) PROVE KVInv'
      BY <3>3, ReplaceInv
    <3> QED  BY <2>1, <3>1, <3>2, <3>3 DEF KVNext
  <2>2. CASE UNCHANGED kvVars
    BY <2>2 DEF kvVars, KVInv, Ascending
  <2> QED  BY <2>1, <2>2
<1>3. KVInv => ReadsFindTheRows
  BY InStepIsRead
<1> QED  BY <1>1, <1>2, <1>3, PTL DEF KVSpec
===============================================================================
