------------------------- MODULE RestoreJournalProofs -------------------------
(***************************************************************************)
(* Safety of a restore on Delta tables, proved for every number of tables, *)
(* restores, writers and faults: a run closed as completed overwrote every *)
(* table, a rollback takes back the run's own commits only, and a store is *)
(* left of one restore or of none.                                         *)
(***************************************************************************)
EXTENDS RestoreJournal, ProofLemmas

\* A step of restore r's process, or of its recovery.
StepOf(r) ==
    \/ BeginRestore(r) \/ Progress(r) \/ Settle(r)
    \/ JournalStartedRaises(r) \/ OverwriteRaises(r)
    \/ ReadPostVersionRaises(r) \/ JournalOverwrittenRaises(r)
    \/ RestoreTableRaises(r) \/ Crash(r)

LEMMA NextSteps ==
    Next <=> (\E t \in Tables : WriterCommit(t)) \/ (\E r \in Restores : StepOf(r))
  BY DEF Next, StepOf

\* What DESCRIBE HISTORY was asked before the run names a version there is.
PreKnown(r) ==
    /\ proc[r].pc = "new" => proc[r].cur = 1
    /\ proc[r].pc = "versions" =>
          \A t \in Tables : t < proc[r].cur => proc[r].pre[t] \in 1..LatestVersion(t)
    /\ journal[r].started \/ proc[r].pc \in Live \ {"versions"} =>
          \A t \in Tables : proc[r].pre[t] \in 1..LatestVersion(t)

\* The table being rolled back is the first of those left to undo.
UndoesFirst(r) ==
    proc[r].pc = "restoreTable" =>
        proc[r].over # << >> /\ proc[r].cur = Head(proc[r].over)

TypeInv ==
    /\ TypeOK
    /\ \A t \in Tables : LatestVersion(t) >= 1
    /\ \A r \in Restores : PreKnown(r) /\ UndoesFirst(r)

\* A commit adds one version behind those a table has.
LEMMA CommitAdds ==
    ASSUME NEW S, NEW s \in Seq(S), NEW e \in S
    PROVE  /\ Append(s, e) \in Seq(S)
           /\ Len(Append(s, e)) = Len(s) + 1
           /\ \A k \in 1..Len(s) : Append(s, e)[k] = s[k]
           /\ Last(Append(s, e)) = e
  BY AppendProperties, LenProperties DEF Last

\* The fields of a process are of their kinds.
LEMMA ProcFields ==
    ASSUME TypeOK, NEW r \in Restores
    PROVE  /\ T \in Nat /\ T >= 1 /\ Tables = 1..T
           /\ proc[r] \in Proc /\ journal[r] \in Journal
           /\ proc[r].cur \in Tables
           /\ proc[r].pc \in Live \cup {"new", "exited"}
           /\ proc[r].pre \in [Tables -> Nat] /\ proc[r].post \in [Tables -> Nat]
           /\ proc[r].over \in Seq(Tables) /\ proc[r].manual \in SUBSET Tables
           /\ journal[r].post \in [Tables -> Nat]
           /\ journal[r].started \in BOOLEAN /\ journal[r].skipped \in SUBSET Tables
           /\ journal[r].closed \in {"open", "completed", "rolled_back"}
           /\ \A t \in Tables : table[t] \in Seq(SUBSET Commits) /\ LatestVersion(t) \in Nat
<1>1. T \in Nat /\ T >= 1 /\ Tables = 1..T
  BY ConstantsAssumption DEF Tables
<1>2. proc[r] \in Proc /\ journal[r] \in Journal
  BY DEF TypeOK
<1>3. \A t \in Tables : table[t] \in Seq(SUBSET Commits) /\ LatestVersion(t) \in Nat
  BY LenProperties DEF TypeOK, LatestVersion
<1>4. /\ proc[r].cur \in Tables
      /\ proc[r].pc \in Live \cup {"new", "exited"}
      /\ proc[r].pre \in [Tables -> Nat] /\ proc[r].post \in [Tables -> Nat]
      /\ proc[r].over \in Seq(Tables) /\ proc[r].manual \in SUBSET Tables
  BY <1>1, <1>2 DEF Proc, Versions
<1>5. /\ journal[r].post \in [Tables -> Nat]
      /\ journal[r].started \in BOOLEAN /\ journal[r].skipped \in SUBSET Tables
      /\ journal[r].closed \in {"open", "completed", "rolled_back"}
  BY <1>2 DEF Journal, Versions
<1> QED  BY <1>1, <1>2, <1>3, <1>4, <1>5

\* What one step may do to the tables.
Committed(t, rows) == table' = [table EXCEPT ![t] = Append(@, rows)]

\* Another writer's version holds commits, the current rows and one more.
LEMMA WriterRows ==
    ASSUME TypeInv, NEW t \in Tables, WriterCommit(t)
    PROVE  Last(table[t]) \cup {Write(writes')} \in SUBSET Commits
<1>1. table[t] \in Seq(SUBSET Commits) /\ LatestVersion(t) >= 1
  BY DEF TypeInv, TypeOK
<1>2. Last(table[t]) \in SUBSET Commits
  BY <1>1, ElementOfSeq, LenProperties DEF Last, LatestVersion
<1>3. Write(writes') \in Commits
  BY ConstantsAssumption DEF WriterCommit, Write, Commits, TypeInv, TypeOK
<1> QED  BY <1>2, <1>3

\* Every step leaves the tables alone or commits one version to one of them.
LEMMA TableSteps ==
    ASSUME TypeInv, Next
    PROVE  \/ UNCHANGED table
           \/ \E t \in Tables, rows \in SUBSET Commits : Committed(t, rows)
<1>1. ASSUME NEW t \in Tables, WriterCommit(t)
      PROVE  \E rows \in SUBSET Commits : Committed(t, rows)
  BY <1>1, WriterRows DEF WriterCommit, Committed
<1>2. ASSUME NEW r \in Restores, NEW t \in Tables, Overwriting(r, t)
      PROVE  \E rows \in SUBSET Commits : Committed(t, rows)
  <2>1. {Restored(r)} \in SUBSET Commits
    BY DEF Restored, Commits
  <2> QED  BY <1>2, <2>1 DEF Overwriting, Committed
<1>3. ASSUME NEW r \in Restores, proc[r].pc = "restoreTable", RollingBack(r, proc[r].cur)
      PROVE  \E t \in Tables, rows \in SUBSET Commits : Committed(t, rows)
  <2>1. proc[r].cur \in Tables /\ proc[r].pre[proc[r].cur] \in 1..LatestVersion(proc[r].cur)
    BY <1>3, ProcFields DEF TypeInv, PreKnown, Live
  <2>2. table[proc[r].cur][proc[r].pre[proc[r].cur]] \in SUBSET Commits
    BY <2>1, ElementOfSeq DEF TypeInv, TypeOK, LatestVersion
  <2> QED  BY <1>3, <2>1, <2>2 DEF RollingBack, Committed
<1>4. ASSUME NEW r \in Restores, StepOf(r)
      PROVE  \/ UNCHANGED table
             \/ \E t \in Tables, rows \in SUBSET Commits : Committed(t, rows)
  <2>1. proc[r].cur \in Tables
    BY ProcFields DEF TypeInv
  <2> QED
    BY <1>2, <1>3, <1>4, <2>1 DEF StepOf, BeginRestore, Progress, Settle,
       ReadPreVersion, JournalStarted, Overwrite, ReadPostVersion, JournalOverwritten,
       JournalCompleted, CheckTable, RestoreTable, JournalRolledBack, SettleCompleted,
       SettleRollback, JournalStartedRaises, OverwriteRaises, ReadPostVersionRaises,
       JournalOverwrittenRaises, RestoreTableRaises, Crash
<1> QED  BY <1>1, <1>4, NextSteps

\* So a version, once there, stays what it is.
LEMMA TablesGrow ==
    ASSUME TypeInv, Next
    PROVE  /\ table' \in [Tables -> Seq(SUBSET Commits)]
           /\ \A t \in Tables :
                 /\ LatestVersion(t)' >= LatestVersion(t)
                 /\ LatestVersion(t)' \in Nat /\ LatestVersion(t) \in Nat
                 /\ \A k \in 1..LatestVersion(t) : table'[t][k] = table[t][k]
<1>1. table \in [Tables -> Seq(SUBSET Commits)]
      /\ \A t \in Tables : LatestVersion(t) \in Nat
  BY LenProperties DEF TypeInv, TypeOK, LatestVersion
<1>2. CASE UNCHANGED table
  BY <1>1, <1>2 DEF LatestVersion
<1>3. ASSUME NEW u \in Tables, NEW rows \in SUBSET Commits, Committed(u, rows)
      PROVE  /\ table' \in [Tables -> Seq(SUBSET Commits)]
             /\ \A t \in Tables :
                   /\ LatestVersion(t)' >= LatestVersion(t)
                   /\ LatestVersion(t)' \in Nat /\ LatestVersion(t) \in Nat
                   /\ \A k \in 1..LatestVersion(t) : table'[t][k] = table[t][k]
  <2>1. /\ table'[u] = Append(table[u], rows)
        /\ \A t \in Tables : t # u => table'[t] = table[t]
    BY <1>1, <1>3 DEF Committed
  <2>2. /\ Append(table[u], rows) \in Seq(SUBSET Commits)
        /\ Len(table'[u]) = Len(table[u]) + 1
        /\ \A k \in 1..Len(table[u]) : table'[u][k] = table[u][k]
    BY <1>1, <2>1, CommitAdds
  <2>3. table' \in [Tables -> Seq(SUBSET Commits)]
    BY <1>1, <1>3, <2>2 DEF Committed
  <2>4. Len(table[u]) \in Nat
    BY <1>1 DEF LatestVersion
  <2>5. \A t \in Tables :
           /\ LatestVersion(t)' >= LatestVersion(t)
           /\ LatestVersion(t)' \in Nat
           /\ \A k \in 1..LatestVersion(t) : table'[t][k] = table[t][k]
    BY <1>1, <2>1, <2>2, <2>4 DEF LatestVersion
  <2> QED  BY <1>1, <2>3, <2>5
<1> QED  BY <1>2, <1>3, TableSteps

-----------------------------------------------------------------------------
(* Type correctness.                                                       *)

LEMMA InitTypeInv == Init => TypeInv
<1> SUFFICES ASSUME Init PROVE TypeInv
  OBVIOUS
<1>1. Tables = 1..T /\ T \in Nat /\ 1 \in Tables
  BY ConstantsAssumption DEF Tables
<1>2. {Write(0)} \in SUBSET Commits
  BY ConstantsAssumption DEF Write, Commits
<1>3. table \in [Tables -> Seq(SUBSET Commits)] /\ \A t \in Tables : Len(table[t]) = 1
  BY <1>2 DEF Init
<1>4. NoVersions \in [Tables -> Versions]
  BY DEF NoVersions, Versions, Unknown
<1>5. journal \in [Restores -> Journal]
  BY <1>4 DEF Init, Journal
<1>6. proc \in [Restores -> Proc]
  BY <1>1, <1>4 DEF Init, Proc
<1>7. TypeOK
  <2>1. landed \in [Restores -> SUBSET Tables] /\ undone \in [Restores -> SUBSET Tables]
    BY DEF Init
  <2>2. writes \in 0..MaxWrites /\ faults \in 0..MaxFaults
    BY ConstantsAssumption DEF Init
  <2> QED  BY <1>3, <1>5, <1>6, <2>1, <2>2 DEF TypeOK
<1>8. \A r \in Restores : PreKnown(r) /\ UndoesFirst(r)
  BY DEF Init, PreKnown, UndoesFirst, Live
<1> QED  BY <1>3, <1>7, <1>8 DEF TypeInv, LatestVersion

\* A process touches its own place, its own journal rows and its own history.
LEMMA OthersStay ==
    ASSUME TypeOK, NEW r \in Restores, StepOf(r)
    PROVE  \A s \in Restores : s # r =>
              /\ proc'[s] = proc[s] /\ journal'[s] = journal[s]
              /\ landed'[s] = landed[s] /\ undone'[s] = undone[s]
  BY DEF TypeOK, StepOf, BeginRestore, Progress, Settle, ReadPreVersion, JournalStarted,
     Overwrite, ReadPostVersion, JournalOverwritten, JournalCompleted, CheckTable,
     RestoreTable, JournalRolledBack, SettleCompleted, SettleRollback,
     JournalStartedRaises, OverwriteRaises, ReadPostVersionRaises,
     JournalOverwrittenRaises, RestoreTableRaises, Crash, Goto, JournalRow,
     Overwriting, RollingBack

\* An order of the journaled tables is a sequence of exactly those.
LEMMA JournaledSeqs ==
    ASSUME NEW r \in Restores
    PROVE  \A over \in SetToSeqs(Journaled(r)) :
              over \in Seq(Tables) /\ ToSet(over) = Journaled(r)
<1>1. IsFiniteSet(Tables) /\ Journaled(r) \subseteq Tables
  BY ConstantsAssumption, FS_Interval DEF Tables, Journaled
<1>2. IsFiniteSet(Journaled(r))
  BY <1>1, FS_Subset
<1>3. ASSUME NEW over \in SetToSeqs(Journaled(r))
      PROVE  over \in Seq(Journaled(r)) /\ ToSet(over) = Journaled(r)
  BY <1>2, ElementsOfOrder
<1>4. ASSUME NEW over \in Seq(Journaled(r)) PROVE over \in Seq(Tables)
  BY <1>1
<1> QED  BY <1>3, <1>4

\* Where a process and its journal rows stand after a step of it.
LEMMA ProcTyped ==
    ASSUME TypeInv, NEW r \in Restores, StepOf(r)
    PROVE  proc'[r] \in Proc /\ proc' \in [Restores -> Proc]
<1>0. TypeOK /\ UndoesFirst(r) /\ proc \in [Restores -> Proc]
  BY DEF TypeInv, TypeOK
<1>1. /\ T \in Nat /\ T >= 1 /\ Tables = 1..T
      /\ proc[r] \in Proc /\ proc[r].cur \in 1..T
      /\ proc[r].over \in Seq(Tables) /\ proc[r].manual \in SUBSET Tables
      /\ proc[r].pre \in [Tables -> Nat] /\ proc[r].post \in [Tables -> Nat]
      /\ journal[r].post \in [Tables -> Nat]
      /\ LatestVersion(proc[r].cur) \in Nat
  BY <1>0, ProcFields
<1>2. ASSUME NEW p \in Live \cup {"exited"}, Goto(r, p)
      PROVE  proc'[r] \in Proc /\ proc' \in [Restores -> Proc]
  BY <1>0, <1>1, <1>2 DEF Goto, Proc
<1>12. ASSUME NEW q \in Proc, proc' = [proc EXCEPT ![r] = q]
      PROVE  proc'[r] \in Proc /\ proc' \in [Restores -> Proc]
  BY <1>0, <1>12
<1>13. ASSUME NEW over \in Seq(Tables), NEW p \in Live,
             proc' = [proc EXCEPT ![r].over = over, ![r].pc = p]
      PROVE  proc'[r] \in Proc /\ proc' \in [Restores -> Proc]
  <2> DEFINE q == [proc[r] EXCEPT !.over = over, !.pc = p]
  <2>1. proc[r] \in Proc
    BY <1>1
  <2>2. q \in Proc
    BY <2>1 DEF Proc
  <2>3. proc' = [proc EXCEPT ![r] = q]
    BY <1>0, <1>13
  <2> HIDE DEF q
  <2> QED  BY <1>12, <2>2, <2>3
<1>3. CASE ReadPreVersion(r)
  <2> DEFINE nextCur == IF proc[r].cur = T THEN 1 ELSE proc[r].cur + 1
             nextPc  == IF proc[r].cur = T THEN "started" ELSE "versions"
  <2>1. nextCur \in 1..T /\ nextPc \in Live
    <3>1. T \in Nat /\ T >= 1 /\ proc[r].cur \in 1..T
      BY <1>1
    <3> QED  BY <3>1 DEF Live
  <2>2. proc' = [proc EXCEPT ![r].pre[proc[r].cur] = LatestVersion(proc[r].cur),
                             ![r].cur = nextCur, ![r].pc = nextPc]
    BY <1>3 DEF ReadPreVersion
  <2> HIDE DEF nextCur, nextPc
  <2> QED  BY <1>0, <1>1, <2>1, <2>2 DEF Proc, Versions
<1>4. CASE Overwrite(r)
  <2>1. Append(proc[r].over, proc[r].cur) \in Seq(Tables)
    BY <1>1, CommitAdds
  <2>2. \E over \in Seq(Tables) : proc' = [proc EXCEPT ![r].over = over, ![r].pc = "post"]
    BY <1>4, <2>1 DEF Overwrite
  <2> QED  BY <1>13, <2>2 DEF Live
<1>5. CASE ReadPostVersion(r)
  <2> DEFINE post == [proc[r].post EXCEPT ![proc[r].cur] = LatestVersion(proc[r].cur)]
  <2>1. post \in [Tables -> Versions]
    BY <1>1 DEF Versions
  <2>2. proc' = [proc EXCEPT ![r].post = post, ![r].pc = "overwritten"]
    BY <1>0, <1>5 DEF ReadPostVersion
  <2> HIDE DEF post
  <2> QED  BY <1>0, <1>1, <2>1, <2>2 DEF Proc, Live
<1>6. CASE JournalOverwritten(r)
  <2> DEFINE nextCur == IF proc[r].cur = T THEN proc[r].cur ELSE proc[r].cur + 1
             nextPc  == IF proc[r].cur = T THEN "complete" ELSE "overwrite"
  <2>1. nextCur \in 1..T /\ nextPc \in Live
    <3>1. T \in Nat /\ T >= 1 /\ proc[r].cur \in 1..T
      BY <1>1
    <3> QED  BY <3>1 DEF Live
  <2>2. proc' = [proc EXCEPT ![r].cur = nextCur, ![r].pc = nextPc]
    BY <1>6 DEF JournalOverwritten
  <2> HIDE DEF nextCur, nextPc
  <2> QED  BY <1>0, <1>1, <2>1, <2>2 DEF Proc
<1>7. ASSUME proc[r].over # << >>
      PROVE  Head(proc[r].over) \in Tables /\ Tail(proc[r].over) \in Seq(Tables)
  BY <1>1, <1>7, HeadTailProperties
<1>8. CASE CheckTable(r)
  <2>1. proc[r].over # << >>
    BY <1>8 DEF CheckTable
  <2>2. PICK t \in Tables : t = Head(proc[r].over)
    BY <1>7, <2>1
  <2>3. CASE proc' = [proc EXCEPT ![r].cur = t, ![r].pc = "restoreTable"]
    BY <1>0, <1>1, <2>3 DEF Proc, Live
  <2>4. CASE proc' = [proc EXCEPT ![r].manual = @ \cup {t}, ![r].over = Tail(@)]
    <3> DEFINE q == [proc[r] EXCEPT !.manual = proc[r].manual \cup {t},
                                    !.over = Tail(proc[r].over)]
    <3>1. /\ proc[r] \in Proc /\ proc[r].manual \cup {t} \in SUBSET Tables
          /\ Tail(proc[r].over) \in Seq(Tables)
      BY <1>1, <1>7, <2>1
    <3>2. q \in Proc
      BY <3>1 DEF Proc
    <3>3. proc' = [proc EXCEPT ![r] = q]
      BY <1>0, <2>4
    <3> HIDE DEF q
    <3> QED  BY <1>12, <3>2, <3>3
  <2> QED  BY <1>8, <2>2, <2>3, <2>4 DEF CheckTable
<1>9. CASE RestoreTable(r)
  <2>1. Tail(proc[r].over) \in Seq(Tables)
    BY <1>0, <1>7, <1>9 DEF RestoreTable, UndoesFirst
  <2>2. \E over \in Seq(Tables) :
           proc' = [proc EXCEPT ![r].over = over, ![r].pc = "rollback"]
    BY <1>9, <2>1 DEF RestoreTable
  <2> QED  BY <1>13, <2>2 DEF Live
<1>10. CASE SettleRollback(r)
  <2>1. PICK over \in SetToSeqs(Journaled(r)) :
          proc' = [proc EXCEPT ![r].over = over, ![r].post = journal[r].post,
                               ![r].manual = {}, ![r].pc = "rollback"]
    BY <1>10 DEF SettleRollback
  <2>2. over \in Seq(Tables)
    BY JournaledSeqs
  <2> QED  BY <1>0, <1>1, <2>1, <2>2 DEF Proc, Live, Versions
<1>11. CASE SettleCompleted(r)
  BY <1>0, <1>1, <1>11 DEF SettleCompleted
<1> QED
  BY <1>2, <1>3, <1>4, <1>5, <1>6, <1>8, <1>9, <1>10, <1>11 DEF StepOf, BeginRestore,
     Progress, Settle, JournalStarted, JournalCompleted, JournalRolledBack,
     JournalStartedRaises, OverwriteRaises, ReadPostVersionRaises,
     JournalOverwrittenRaises, RestoreTableRaises, Crash, Live

LEMMA JournalTyped ==
    ASSUME TypeInv, NEW r \in Restores, StepOf(r)
    PROVE  journal' \in [Restores -> Journal]
<1>0. TypeOK /\ journal \in [Restores -> Journal]
  BY DEF TypeInv, TypeOK
<1>1. /\ journal[r] \in Journal /\ proc[r].cur \in Tables
      /\ proc[r].post \in [Tables -> Nat] /\ proc[r].manual \in SUBSET Tables
  BY <1>0, ProcFields
<1>2. ASSUME JournalRow(r, proc[r].cur)
      PROVE  journal' \in [Restores -> Journal]
  <2>1. proc[r].post[proc[r].cur] \in Versions
    BY <1>1 DEF Versions
  <2> QED  BY <1>0, <1>1, <1>2, <2>1 DEF JournalRow, Journal
<1>3. CASE JournalStarted(r) \/ JournalStartedRaises(r)
  <2>1. \/ journal' = journal
        \/ journal' = [journal EXCEPT ![r].started = TRUE]
    BY <1>3 DEF JournalStarted, JournalStartedRaises
  <2>2. [journal[r] EXCEPT !.started = TRUE] \in Journal
    BY <1>1 DEF Journal
  <2> QED  BY <1>0, <2>1, <2>2
<1>4. CASE JournalCompleted(r) \/ SettleCompleted(r)
  <2>1. \/ journal' = journal
        \/ journal' = [journal EXCEPT ![r].closed = "completed"]
    BY <1>4 DEF JournalCompleted, SettleCompleted
  <2>2. [journal[r] EXCEPT !.closed = "completed"] \in Journal
    BY <1>1 DEF Journal
  <2> QED  BY <1>0, <2>1, <2>2
<1>5. CASE JournalRolledBack(r)
  BY <1>0, <1>1, <1>5 DEF JournalRolledBack, Journal
<1>6. CASE JournalOverwritten(r) \/ JournalOverwrittenRaises(r)
  BY <1>0, <1>2, <1>6 DEF JournalOverwritten, JournalOverwrittenRaises
<1> QED
  BY <1>0, <1>3, <1>4, <1>5, <1>6 DEF StepOf, BeginRestore, Progress, Settle, ReadPreVersion,
     Overwrite, ReadPostVersion, CheckTable, RestoreTable, SettleRollback, OverwriteRaises,
     ReadPostVersionRaises, RestoreTableRaises, Crash

LEMMA HistoryTyped ==
    ASSUME TypeInv, Next
    PROVE  /\ landed' \in [Restores -> SUBSET Tables] /\ undone' \in [Restores -> SUBSET Tables]
           /\ writes' \in 0..MaxWrites /\ faults' \in 0..MaxFaults
<1>0. /\ landed \in [Restores -> SUBSET Tables] /\ undone \in [Restores -> SUBSET Tables]
      /\ writes \in 0..MaxWrites /\ faults \in 0..MaxFaults
      /\ MaxWrites \in Nat /\ MaxFaults \in Nat
  BY ConstantsAssumption DEF TypeInv, TypeOK
<1>1. ASSUME NEW kind, Fault(kind) PROVE faults' \in 0..MaxFaults
  BY <1>0, <1>1 DEF Fault
<1>2. ASSUME NEW t \in Tables, WriterCommit(t)
      PROVE  /\ landed' = landed /\ undone' = undone /\ faults' = faults
             /\ writes' \in 0..MaxWrites
  BY <1>0, <1>2 DEF WriterCommit
<1>3. ASSUME NEW r \in Restores, StepOf(r)
      PROVE  /\ writes' = writes
             /\ landed' = landed \/ Overwriting(r, proc[r].cur)
             /\ undone' = undone \/ RollingBack(r, proc[r].cur)
             /\ faults' = faults \/ \E kind \in FaultKinds : Fault(kind)
  BY <1>3 DEF StepOf, BeginRestore, Progress, Settle, ReadPreVersion, JournalStarted,
     Overwrite, ReadPostVersion, JournalOverwritten, JournalCompleted, CheckTable,
     RestoreTable, JournalRolledBack, SettleCompleted, SettleRollback,
     JournalStartedRaises, OverwriteRaises, ReadPostVersionRaises,
     JournalOverwrittenRaises, RestoreTableRaises, Crash, FaultKinds
<1>4. ASSUME NEW r \in Restores, StepOf(r)
      PROVE  /\ landed' \in [Restores -> SUBSET Tables]
             /\ undone' \in [Restores -> SUBSET Tables]
             /\ writes' \in 0..MaxWrites /\ faults' \in 0..MaxFaults
  <2>1. /\ landed[r] \cup {proc[r].cur} \in SUBSET Tables
        /\ undone[r] \cup {proc[r].cur} \in SUBSET Tables
    BY <1>0, ProcFields DEF TypeInv
  <2>2. landed' \in [Restores -> SUBSET Tables]
    BY <1>0, <1>3, <1>4, <2>1 DEF Overwriting
  <2>3. undone' \in [Restores -> SUBSET Tables]
    BY <1>0, <1>3, <1>4, <2>1 DEF RollingBack
  <2> QED  BY <1>0, <1>1, <1>3, <1>4, <2>2, <2>3
<1> QED  BY <1>0, <1>2, <1>4, NextSteps

\* A rollback by recover_restore starts from what the journal remembers.
LEMMA RollbackBegins ==
    ASSUME TypeInv, NEW r \in Restores, SettleRollback(r)
    PROVE  /\ Unfinished(r) /\ Journaled(r) # Tables
           /\ proc'[r].pc = "rollback" /\ proc'[r].pre = proc[r].pre
           /\ proc'[r].post = journal[r].post /\ proc'[r].manual = {}
           /\ proc'[r].over \in Seq(Tables) /\ ToSet(proc'[r].over) = Journaled(r)
           /\ UNCHANGED <<table, journal, landed, undone, writes, faults>>
<1>1. PICK over \in SetToSeqs(Journaled(r)) :
          proc' = [proc EXCEPT ![r].over = over, ![r].post = journal[r].post,
                               ![r].manual = {}, ![r].pc = "rollback"]
  BY DEF SettleRollback
<1>2. proc \in [Restores -> Proc]
  BY DEF TypeInv, TypeOK
<1>3. /\ proc'[r].pc = "rollback" /\ proc'[r].pre = proc[r].pre
      /\ proc'[r].post = journal[r].post /\ proc'[r].manual = {}
      /\ proc'[r].over = over
  BY <1>1, <1>2 DEF Proc
<1> QED  BY <1>1, <1>3, JournaledSeqs DEF SettleRollback

\* Nothing but the reads of "pre" touches pre, and a process is past them
\* once it has journaled anything.
LEMMA PreStays ==
    ASSUME TypeInv, NEW r \in Restores, StepOf(r), ~BeginRestore(r), ~ReadPreVersion(r)
    PROVE  /\ proc'[r].pre = proc[r].pre
           /\ proc'[r].pc \notin {"new", "versions"}
           /\ journal'[r].started \/ proc'[r].pc \in Live \ {"versions"} =>
                 journal[r].started \/ proc[r].pc \in Live \ {"versions"}
<1>0. proc \in [Restores -> Proc] /\ journal \in [Restores -> Journal]
  BY DEF TypeInv, TypeOK
<1>1. ASSUME NEW p \in Live \cup {"exited"}, Goto(r, p)
      PROVE  proc'[r].pre = proc[r].pre /\ proc'[r].pc = p
  BY <1>0, <1>1 DEF Goto, Proc
<1>2. CASE JournalStarted(r) \/ JournalStartedRaises(r)
  <2>1. proc[r].pc = "started" /\ (Goto(r, "overwrite") \/ Goto(r, "exited"))
    BY <1>2 DEF JournalStarted, JournalStartedRaises
  <2>2. proc[r].pc \in Live \ {"versions"}
    BY <2>1 DEF Live
  <2> QED  BY <1>1, <2>1, <2>2 DEF Live
<1>3. CASE Overwrite(r) \/ ReadPostVersion(r)
  BY <1>0, <1>3 DEF Overwrite, ReadPostVersion, Proc, Live
<1>4. CASE JournalOverwritten(r)
  BY <1>0, <1>4 DEF JournalOverwritten, JournalRow, Proc, Live, Journal
<1>5. CASE CheckTable(r)
  BY <1>0, <1>5 DEF CheckTable, Proc, Live
<1>6. CASE RestoreTable(r)
  BY <1>0, <1>6 DEF RestoreTable, Proc, Live
<1>7. CASE SettleRollback(r)
  BY <1>7, RollbackBegins DEF Unfinished
<1>11. CASE SettleCompleted(r)
  <2>1. journal[r].started /\ proc'[r] = proc[r] /\ proc[r].pc = "exited"
    BY <1>0, <1>11 DEF SettleCompleted, Unfinished
  <2> QED  BY <2>1
<1>8. CASE JournalCompleted(r) \/ JournalRolledBack(r) \/ Crash(r)
  BY <1>0, <1>1, <1>8 DEF JournalCompleted, JournalRolledBack, Crash, Live, Journal
<1>9. CASE OverwriteRaises(r) \/ ReadPostVersionRaises(r) \/ RestoreTableRaises(r)
  BY <1>0, <1>1, <1>9 DEF OverwriteRaises, ReadPostVersionRaises, RestoreTableRaises, Live
<1>10. CASE JournalOverwrittenRaises(r)
  BY <1>0, <1>1, <1>10 DEF JournalOverwrittenRaises, JournalRow, Live, Journal
<1> QED
  BY <1>2, <1>3, <1>4, <1>5, <1>6, <1>7, <1>8, <1>9, <1>10, <1>11
  DEF StepOf, Progress, Settle

LEMMA PreKnownStays ==
    ASSUME TypeInv, NEW r \in Restores, Next
    PROVE  PreKnown(r)'
<1>0. /\ PreKnown(r) /\ TypeOK /\ proc \in [Restores -> Proc]
      /\ journal \in [Restores -> Journal]
      /\ \A t \in Tables : LatestVersion(t) >= 1
  BY DEF TypeInv, TypeOK
<1>1. \A t \in Tables : \A v \in 1..LatestVersion(t) : v \in 1..LatestVersion(t)'
  BY TablesGrow
<1>2. CASE proc'[r] = proc[r] /\ journal'[r] = journal[r]
  BY <1>0, <1>1, <1>2 DEF PreKnown
<1>3. CASE BeginRestore(r)
  BY <1>0, <1>1, <1>3, ProcFields DEF BeginRestore, Goto, Proc, PreKnown, Live
<1>4. CASE ReadPreVersion(r)
  <2> DEFINE t == proc[r].cur
  <2>1. /\ proc[r].pc = "versions" /\ t \in Tables /\ table' = table /\ journal' = journal
        /\ \A u \in Tables : LatestVersion(u)' = LatestVersion(u)
        /\ \A u \in Tables : LatestVersion(u) \in Nat
    BY <1>0, <1>4, ProcFields DEF ReadPreVersion, LatestVersion
  <2>2. proc'[r].pre = [proc[r].pre EXCEPT ![t] = LatestVersion(t)]
    BY <1>0, <1>4 DEF ReadPreVersion, Proc
  <2>3. \A u \in Tables : u < t \/ u = t => proc'[r].pre[u] \in 1..LatestVersion(u)
    BY <1>0, <2>1, <2>2, ProcFields DEF PreKnown
  <2>4. CASE t = T
    <3>1. \A u \in Tables : u < t \/ u = t
      BY <2>1, <2>4, ProcFields, <1>0
    <3>2. proc'[r].pc = "started"
      BY <1>0, <1>4, <2>4 DEF ReadPreVersion, Proc
    <3> QED  BY <2>1, <2>3, <3>1, <3>2 DEF PreKnown
  <2>5. CASE t # T
    <3>1. proc'[r].pc = "versions" /\ proc'[r].cur = t + 1
      BY <1>0, <1>4, <2>5 DEF ReadPreVersion, Proc
    <3>2. \A u \in Tables : u < t + 1 => u < t \/ u = t
      BY <2>1, ProcFields, <1>0
    <3>3. journal[r].started => \A u \in Tables : proc'[r].pre[u] \in 1..LatestVersion(u)
      BY <1>0, <2>1, <2>2, ProcFields DEF PreKnown
    <3> QED  BY <2>1, <2>3, <3>1, <3>2, <3>3 DEF PreKnown, Live
  <2> QED  BY <2>4, <2>5
<1>5. ASSUME StepOf(r), ~BeginRestore(r), ~ReadPreVersion(r)
      PROVE  PreKnown(r)'
  BY <1>0, <1>1, <1>5, PreStays DEF PreKnown
<1>6. ASSUME NEW s \in Restores, s # r, StepOf(s)
      PROVE  proc'[r] = proc[r] /\ journal'[r] = journal[r]
  BY <1>0, <1>6, OthersStay
<1>7. ASSUME NEW t \in Tables, WriterCommit(t)
      PROVE  proc'[r] = proc[r] /\ journal'[r] = journal[r]
  BY <1>7 DEF WriterCommit
<1> QED  BY <1>2, <1>3, <1>4, <1>5, <1>6, <1>7, NextSteps

LEMMA UndoesFirstStays ==
    ASSUME TypeInv, NEW r \in Restores, Next
    PROVE  UndoesFirst(r)'
<1>0. UndoesFirst(r) /\ TypeOK /\ proc \in [Restores -> Proc]
  BY DEF TypeInv, TypeOK
<1>1. CASE proc'[r] = proc[r]
  BY <1>0, <1>1 DEF UndoesFirst
<1>2. ASSUME StepOf(r), ~CheckTable(r), ~SettleCompleted(r)
      PROVE  proc'[r].pc # "restoreTable"
  <2>1. ASSUME NEW p, p # "restoreTable", Goto(r, p) PROVE proc'[r].pc # "restoreTable"
    BY <1>0, <2>1 DEF Goto, Proc
  <2>2. CASE ReadPreVersion(r) \/ Overwrite(r) \/ ReadPostVersion(r)
    BY <1>0, <2>2 DEF ReadPreVersion, Overwrite, ReadPostVersion, Proc
  <2>3. CASE JournalOverwritten(r)
    BY <1>0, <2>3 DEF JournalOverwritten, Proc
  <2>4. CASE RestoreTable(r)
    BY <1>0, <2>4 DEF RestoreTable, Proc
  <2>5. CASE SettleRollback(r)
    BY <2>5, RollbackBegins
  <2> QED
    BY <1>2, <2>1, <2>2, <2>3, <2>4, <2>5 DEF StepOf, BeginRestore, Progress, Settle, JournalStarted,
       JournalCompleted, JournalRolledBack, JournalStartedRaises, OverwriteRaises,
       ReadPostVersionRaises, JournalOverwrittenRaises, RestoreTableRaises, Crash
<1>3. ASSUME CheckTable(r)
      PROVE  UndoesFirst(r)'
  BY <1>0, <1>3 DEF CheckTable, UndoesFirst, Proc
<1>4. ASSUME StepOf(r) PROVE UndoesFirst(r)'
  <2>1. SettleCompleted(r) => proc'[r] = proc[r]
    BY DEF SettleCompleted
  <2> QED  BY <1>1, <1>2, <1>3, <1>4, <2>1 DEF UndoesFirst
<1>5. ASSUME NEW s \in Restores, s # r, StepOf(s) PROVE proc'[r] = proc[r]
  BY <1>0, <1>5, OthersStay
<1>6. ASSUME NEW t \in Tables, WriterCommit(t) PROVE proc'[r] = proc[r]
  BY <1>6 DEF WriterCommit
<1> QED  BY <1>1, <1>4, <1>5, <1>6, NextSteps

LEMMA NextTypeInv == TypeInv /\ [Next]_vars => TypeInv'
<1>1. ASSUME TypeInv, Next PROVE TypeInv'
  <2>0. TypeOK
    BY <1>1 DEF TypeInv
  <2>1. proc' \in [Restores -> Proc] /\ journal' \in [Restores -> Journal]
    <3>1. ASSUME NEW t \in Tables, WriterCommit(t) PROVE proc' = proc /\ journal' = journal
      BY <3>1 DEF WriterCommit
    <3> QED  BY <1>1, <2>0, <3>1, NextSteps, ProcTyped, JournalTyped DEF TypeOK
  <2>2. TypeOK'
    BY <1>1, <2>1, TablesGrow, HistoryTyped DEF TypeOK
  <2>3. \A t \in Tables : LatestVersion(t)' >= 1
    BY <1>1, TablesGrow DEF TypeInv
  <2> QED  BY <1>1, <2>2, <2>3, PreKnownStays, UndoesFirstStays DEF TypeInv
<1>2. ASSUME TypeInv, UNCHANGED vars PROVE TypeInv'
  BY <1>2 DEF TypeInv, TypeOK, PreKnown, UndoesFirst, LatestVersion, vars
<1> QED  BY <1>1, <1>2

\* Tables, journal and processes are of their kinds, and RESTORE TABLE is only
\* ever asked for a version the table has.
THEOREM TypeCorrect == Spec => []TypeInv
  BY InitTypeInv, NextTypeInv, PTL DEF Spec

-----------------------------------------------------------------------------
(* A run closed as completed.                                              *)

\* The process has undone nothing yet, and will not without a failure.
Forward == {"new", "versions", "started", "overwrite", "post", "overwritten", "complete"}

\* The journal's "overwritten" rows are of the tables before the one at hand.
RowsInOrder(r) ==
    /\ Journaled(r) \subseteq landed[r]
    /\ proc[r].pc \in {"new", "versions", "started"} => Journaled(r) = {}
    /\ proc[r].pc = "started" => proc[r].cur = 1
    /\ proc[r].pc \in {"overwrite", "post", "overwritten"} =>
          Journaled(r) = 1..(proc[r].cur - 1)
    /\ proc[r].pc \in {"post", "overwritten"} => proc[r].cur \in landed[r]
    /\ proc[r].pc = "overwritten" => proc[r].post[proc[r].cur] # Unknown
    /\ proc[r].pc = "complete" => Journaled(r) = Tables

\* Nobody takes anything back of a run whose every table is journaled.
UndoneIsPartial(r) ==
    /\ proc[r].pc \in Forward => undone[r] = {}
    /\ proc[r].pc \in {"rollback", "restoreTable"} \/ undone[r] # {} => Journaled(r) # Tables
    /\ journal[r].closed = "completed" => proc[r].pc = "exited" /\ Journaled(r) = Tables

CompletedInv == TypeInv /\ \A r \in Restores : RowsInOrder(r) /\ UndoneIsPartial(r)

LEMMA InitCompletedInv == Init => CompletedInv
<1> SUFFICES ASSUME Init PROVE CompletedInv
  OBVIOUS
<1>1. \A r \in Restores : Journaled(r) = {}
  BY DEF Init, Journaled, NoVersions
<1>2. \A r \in Restores : RowsInOrder(r) /\ UndoneIsPartial(r)
  <2> TAKE r \in Restores
  <2>1. /\ proc[r].pc = "new" /\ undone[r] = {} /\ journal[r].closed = "open"
    BY DEF Init
  <2>2. Tables # {}
    BY ConstantsAssumption DEF Tables
  <2> QED  BY <1>1, <2>1, <2>2 DEF RowsInOrder, UndoneIsPartial
<1> QED  BY <1>2, InitTypeInv DEF CompletedInv

\* An "overwritten" row adds the table at hand to the journaled ones.
LEMMA RowAdded ==
    ASSUME TypeInv, NEW r \in Restores, JournalRow(r, proc[r].cur),
           proc[r].post[proc[r].cur] # Unknown
    PROVE  /\ Journaled(r)' = Journaled(r) \cup {proc[r].cur}
           /\ journal'[r].closed = journal[r].closed
           /\ journal'[r].started = journal[r].started
           /\ journal'[r].skipped = journal[r].skipped
<1>1. /\ journal \in [Restores -> Journal] /\ proc[r].cur \in Tables
      /\ journal[r] \in Journal /\ journal[r].post \in [Tables -> Nat]
  BY ProcFields DEF TypeInv, TypeOK
<1>2. /\ journal'[r].post = [journal[r].post EXCEPT ![proc[r].cur] = proc[r].post[proc[r].cur]]
      /\ journal'[r].closed = journal[r].closed
      /\ journal'[r].started = journal[r].started
      /\ journal'[r].skipped = journal[r].skipped
  BY <1>1 DEF JournalRow, Journal
<1> QED  BY <1>1, <1>2 DEF Journaled

\* Every other step leaves them alone.
LEMMA RowsStay ==
    ASSUME TypeInv, NEW r \in Restores, StepOf(r),
           ~JournalOverwritten(r), ~JournalOverwrittenRaises(r)
    PROVE  Journaled(r)' = Journaled(r)
<1>0. journal \in [Restores -> Journal]
  BY DEF TypeInv, TypeOK
<1>1. CASE journal' = journal
  BY <1>1 DEF Journaled
<1>2. CASE JournalStarted(r) \/ JournalStartedRaises(r)
  <2>1. journal'[r].post = journal[r].post
    BY <1>0, <1>2 DEF JournalStarted, JournalStartedRaises, Journal
  <2> QED  BY <2>1 DEF Journaled
<1>3. CASE JournalCompleted(r) \/ JournalRolledBack(r) \/ SettleCompleted(r)
  <2>1. journal'[r].post = journal[r].post
    BY <1>0, <1>3 DEF JournalCompleted, JournalRolledBack, SettleCompleted, Journal
  <2> QED  BY <2>1 DEF Journaled
<1> QED
  BY <1>1, <1>2, <1>3 DEF StepOf, BeginRestore, Progress, Settle, ReadPreVersion, Overwrite,
     ReadPostVersion, CheckTable, RestoreTable, SettleRollback, OverwriteRaises,
     ReadPostVersionRaises, RestoreTableRaises, Crash

\* Where a step of r's process leads, and what it leaves of its histories.
LEMMA Places ==
    ASSUME TypeInv, NEW r \in Restores, StepOf(r)
    PROVE  \/ /\ proc[r].pc = "new" /\ proc'[r].pc = "versions"
              /\ UNCHANGED <<table, journal, landed, undone>>
           \/ ReadPreVersion(r)
           \/ /\ proc[r].pc = "started" /\ proc'[r].pc = "overwrite"
              /\ JournalStarted(r) /\ proc'[r].cur = proc[r].cur
           \/ /\ JournalStartedRaises(r) /\ proc'[r].pc = "exited"
           \/ Overwrite(r) /\ proc'[r].pc = "post" /\ proc'[r].cur = proc[r].cur
           \/ OverwriteRaises(r) /\ proc'[r].pc = "rollback"
           \/ /\ ReadPostVersion(r) /\ proc'[r].pc = "overwritten"
              /\ proc'[r].cur = proc[r].cur
              /\ proc'[r].post[proc[r].cur] = LatestVersion(proc[r].cur)
           \/ ReadPostVersionRaises(r) /\ proc'[r].pc = "rollback"
           \/ JournalOverwritten(r)
           \/ JournalOverwrittenRaises(r) /\ proc'[r].pc = "rollback"
           \/ JournalCompleted(r) /\ proc'[r].pc = "exited"
           \/ CheckTable(r) /\ proc'[r].pc \in {"rollback", "restoreTable"}
           \/ RestoreTable(r) /\ proc'[r].pc = "rollback"
           \/ RestoreTableRaises(r) /\ proc'[r].pc = "exited"
           \/ JournalRolledBack(r) /\ proc'[r].pc = "exited"
           \/ Crash(r) /\ proc'[r].pc = "exited"
           \/ SettleCompleted(r) /\ proc' = proc
           \/ SettleRollback(r) /\ proc'[r].pc = "rollback"
<1>0. proc \in [Restores -> Proc] /\ proc[r] \in Proc
  BY DEF TypeInv, TypeOK
<1>1. ASSUME NEW p, Goto(r, p)
      PROVE  proc'[r].pc = p /\ proc'[r].cur = proc[r].cur
  BY <1>0, <1>1 DEF Goto, Proc
<1>2. CASE Overwrite(r) \/ RestoreTable(r)
  BY <1>0, <1>2 DEF Overwrite, RestoreTable, Proc
<1>3. CASE ReadPostVersion(r)
  <2>1. proc[r].cur \in Tables /\ proc[r].post \in [Tables -> Nat]
    BY ProcFields DEF TypeInv
  <2> QED  BY <1>0, <1>3, <2>1 DEF ReadPostVersion, Proc
<1>4. CASE CheckTable(r)
  BY <1>0, <1>4 DEF CheckTable, Proc
<1>5. CASE SettleRollback(r)
  BY <1>5, RollbackBegins
<1>6. CASE SettleCompleted(r)
  BY <1>6 DEF SettleCompleted
<1>7. CASE BeginRestore(r) \/ JournalStarted(r) \/ JournalStartedRaises(r)
  BY <1>1, <1>7 DEF BeginRestore, JournalStarted, JournalStartedRaises
<1>8. CASE OverwriteRaises(r) \/ ReadPostVersionRaises(r) \/ JournalOverwrittenRaises(r)
  BY <1>1, <1>8 DEF OverwriteRaises, ReadPostVersionRaises, JournalOverwrittenRaises
<1>9. CASE JournalCompleted(r) \/ RestoreTableRaises(r) \/ JournalRolledBack(r) \/ Crash(r)
  BY <1>1, <1>9 DEF JournalCompleted, RestoreTableRaises, JournalRolledBack, Crash
<1> QED
  BY <1>2, <1>3, <1>4, <1>5, <1>6, <1>7, <1>8, <1>9 DEF StepOf, Progress, Settle

\* Steps that touch neither the rows nor the histories, and leave the run open.
Quiet(r) ==
    /\ Journaled(r)' = Journaled(r) /\ landed'[r] = landed[r] /\ undone'[r] = undone[r]

\* A row or a RESTORE that is reported as failed did fail: nothing lands late.
LEMMA RowsInOrderStays ==
    ASSUME CompletedInv, "late" \notin Faults, NEW r \in Restores, StepOf(r)
    PROVE  RowsInOrder(r)' /\ UndoneIsPartial(r)'
<1>0. /\ TypeInv /\ TypeOK /\ RowsInOrder(r) /\ UndoneIsPartial(r) /\ PreKnown(r)
      /\ proc \in [Restores -> Proc] /\ journal \in [Restores -> Journal]
      /\ landed \in [Restores -> SUBSET Tables] /\ undone \in [Restores -> SUBSET Tables]
      /\ proc[r] \in Proc /\ journal[r] \in Journal
      /\ T \in Nat /\ T >= 1 /\ Tables = 1..T /\ proc[r].cur \in Tables
  BY ProcFields DEF CompletedInv, TypeInv, TypeOK
<1>1. ~Fault("late")
  BY <1>0 DEF CompletedInv, Fault
<1>2. Journaled(r) \subseteq Tables
  BY DEF Journaled
<1>3. CASE proc[r].pc = "new" /\ proc'[r].pc = "versions"
           /\ UNCHANGED <<table, journal, landed, undone>>
  <2>1. Quiet(r) /\ journal'[r].closed = journal[r].closed
    BY <1>3 DEF Quiet, Journaled
  <2> QED  BY <1>0, <1>3, <2>1 DEF Quiet, RowsInOrder, UndoneIsPartial, Forward
<1>4. CASE ReadPreVersion(r)
  <2>1. Quiet(r) /\ journal'[r].closed = journal[r].closed /\ proc[r].pc = "versions"
    BY <1>4 DEF Quiet, Journaled, ReadPreVersion
  <2>2. \/ proc'[r].pc = "started" /\ proc'[r].cur = 1
        \/ proc'[r].pc = "versions"
    BY <1>0, <1>4 DEF ReadPreVersion, Proc
  <2> QED  BY <1>0, <2>1, <2>2 DEF Quiet, RowsInOrder, UndoneIsPartial, Forward
<1>5. CASE JournalStarted(r) /\ proc'[r].pc = "overwrite" /\ proc'[r].cur = proc[r].cur
  <2>1. Quiet(r) /\ journal'[r].closed = journal[r].closed /\ proc[r].pc = "started"
    BY <1>0, <1>5, RowsStay DEF Quiet, JournalStarted, Journal, JournalOverwritten,
       JournalOverwrittenRaises
  <2>2. Journaled(r) = 1..(proc[r].cur - 1)
    <3>1. Journaled(r) = {} /\ proc[r].cur = 1
      BY <1>0, <2>1 DEF RowsInOrder
    <3>2. 1..(1 - 1) = {}
      OBVIOUS
    <3> QED  BY <3>1, <3>2
  <2> QED  BY <1>0, <1>5, <2>1, <2>2 DEF Quiet, RowsInOrder, UndoneIsPartial, Forward
<1>6. CASE JournalStartedRaises(r) /\ proc'[r].pc = "exited"
  <2>1. Quiet(r) /\ journal'[r].closed = journal[r].closed /\ proc[r].pc = "started"
    BY <1>0, <1>1, <1>6 DEF Quiet, JournalStartedRaises, Journaled
  <2> QED  BY <1>0, <1>6, <2>1 DEF Quiet, RowsInOrder, UndoneIsPartial, Forward
<1>7. CASE Overwrite(r) /\ proc'[r].pc = "post" /\ proc'[r].cur = proc[r].cur
  <2>1. /\ Journaled(r)' = Journaled(r) /\ undone'[r] = undone[r]
        /\ landed'[r] = landed[r] \cup {proc[r].cur}
        /\ journal'[r].closed = journal[r].closed /\ proc[r].pc = "overwrite"
    BY <1>0, <1>7 DEF Overwrite, Overwriting, Journaled
  <2> QED  BY <1>0, <1>7, <2>1 DEF RowsInOrder, UndoneIsPartial, Forward
<1>8. ASSUME proc[r].pc \in {"overwrite", "post", "overwritten"}
      PROVE  Journaled(r) # Tables
  <2>1. proc[r].cur \notin Journaled(r)
    BY <1>0, <1>8 DEF RowsInOrder
  <2> QED  BY <1>0, <2>1
<1>9. CASE /\ OverwriteRaises(r) \/ ReadPostVersionRaises(r) \/ JournalOverwrittenRaises(r)
           /\ proc'[r].pc = "rollback"
  <2>1. /\ Quiet(r) /\ journal'[r].closed = journal[r].closed
        /\ proc[r].pc \in {"overwrite", "post", "overwritten"}
    BY <1>0, <1>1, <1>9 DEF Quiet, OverwriteRaises, ReadPostVersionRaises,
       JournalOverwrittenRaises, Journaled
  <2> QED  BY <1>0, <1>8, <1>9, <2>1 DEF Quiet, RowsInOrder, UndoneIsPartial, Forward
<1>10. CASE /\ ReadPostVersion(r) /\ proc'[r].pc = "overwritten"
            /\ proc'[r].cur = proc[r].cur
            /\ proc'[r].post[proc[r].cur] = LatestVersion(proc[r].cur)
  <2>1. Quiet(r) /\ journal'[r].closed = journal[r].closed /\ proc[r].pc = "post"
    BY <1>10 DEF Quiet, Journaled, ReadPostVersion
  <2>2. LatestVersion(proc[r].cur) # Unknown
    BY <1>0 DEF TypeInv, Unknown
  <2> QED  BY <1>0, <1>10, <2>1, <2>2 DEF Quiet, RowsInOrder, UndoneIsPartial, Forward
<1>11. CASE JournalOverwritten(r)
  <2>1. /\ JournalRow(r, proc[r].cur) /\ proc[r].pc = "overwritten"
        /\ landed'[r] = landed[r] /\ undone'[r] = undone[r]
    BY <1>11 DEF JournalOverwritten
  <2>2. /\ Journaled(r)' = Journaled(r) \cup {proc[r].cur}
        /\ journal'[r].closed = journal[r].closed
    BY <1>0, <2>1, RowAdded DEF RowsInOrder
  <2>3. Journaled(r)' = 1..proc[r].cur
    <3>1. Journaled(r) = 1..(proc[r].cur - 1)
      BY <1>0, <2>1 DEF RowsInOrder
    <3>2. 1..(proc[r].cur - 1) \cup {proc[r].cur} = 1..proc[r].cur
      BY <1>0
    <3> QED  BY <2>2, <3>1, <3>2
  <2>4. undone[r] = {} /\ journal[r].closed # "completed"
    BY <1>0, <2>1 DEF UndoneIsPartial, Forward
  <2>5. Journaled(r)' \subseteq landed'[r]
    BY <1>0, <2>1, <2>2 DEF RowsInOrder
  <2>6. CASE proc[r].cur = T
    <3>1. proc'[r].pc = "complete"
      BY <1>0, <1>11, <2>6 DEF JournalOverwritten, Proc
    <3>2. Journaled(r)' = Tables
      BY <1>0, <2>3, <2>6
    <3> QED  BY <1>0, <2>1, <2>2, <2>4, <2>5, <3>1, <3>2 DEF RowsInOrder, UndoneIsPartial, Forward
  <2>7. CASE proc[r].cur # T
    <3>1. proc'[r].pc = "overwrite" /\ proc'[r].cur = proc[r].cur + 1
      BY <1>0, <1>11, <2>7 DEF JournalOverwritten, Proc
    <3>2. Journaled(r)' = 1..((proc'[r].cur) - 1)
      BY <1>0, <2>3, <3>1
    <3> QED  BY <2>1, <2>2, <2>4, <2>5, <3>1, <3>2 DEF RowsInOrder, UndoneIsPartial, Forward
  <2> QED  BY <2>6, <2>7
<1>12. CASE JournalCompleted(r) /\ proc'[r].pc = "exited"
  <2>1. /\ Quiet(r) /\ proc[r].pc = "complete"
    BY <1>0, <1>12, RowsStay DEF Quiet, JournalCompleted, JournalOverwritten,
       JournalOverwrittenRaises
  <2>2. undone[r] = {} /\ Journaled(r) = Tables
    BY <1>0, <2>1 DEF UndoneIsPartial, RowsInOrder, Forward
  <2> QED  BY <1>0, <1>12, <2>1, <2>2 DEF Quiet, RowsInOrder, UndoneIsPartial, Forward
<1>13. CASE CheckTable(r) /\ proc'[r].pc \in {"rollback", "restoreTable"}
  <2>1. Quiet(r) /\ journal'[r].closed = journal[r].closed /\ proc[r].pc = "rollback"
    BY <1>13 DEF Quiet, Journaled, CheckTable
  <2> QED  BY <1>0, <1>13, <2>1 DEF Quiet, RowsInOrder, UndoneIsPartial, Forward
<1>14. CASE RestoreTable(r) /\ proc'[r].pc = "rollback"
  <2>1. /\ Journaled(r)' = Journaled(r) /\ landed'[r] = landed[r]
        /\ journal'[r].closed = journal[r].closed /\ proc[r].pc = "restoreTable"
    BY <1>14 DEF Journaled, RestoreTable
  <2> QED  BY <1>0, <1>14, <2>1 DEF RowsInOrder, UndoneIsPartial, Forward
<1>15. CASE RestoreTableRaises(r) /\ proc'[r].pc = "exited"
  <2>1. Quiet(r) /\ journal'[r].closed = journal[r].closed /\ proc[r].pc = "restoreTable"
    BY <1>0, <1>1, <1>15 DEF Quiet, Journaled, RestoreTableRaises
  <2> QED  BY <1>0, <1>15, <2>1 DEF Quiet, RowsInOrder, UndoneIsPartial, Forward
<1>16. CASE JournalRolledBack(r) /\ proc'[r].pc = "exited"
  <2>1. /\ Quiet(r) /\ proc[r].pc = "rollback"
    BY <1>0, <1>16, RowsStay DEF Quiet, JournalRolledBack, JournalOverwritten,
       JournalOverwrittenRaises
  <2>2. journal'[r].closed # "completed"
    BY <1>0, <1>16, <2>1 DEF JournalRolledBack, Journal, UndoneIsPartial
  <2> QED  BY <1>0, <1>16, <2>1, <2>2 DEF Quiet, RowsInOrder, UndoneIsPartial, Forward
<1>17. CASE Crash(r) /\ proc'[r].pc = "exited"
  <2>1. Quiet(r) /\ journal'[r].closed = journal[r].closed /\ proc[r].pc \in Live
    BY <1>17 DEF Quiet, Journaled, Crash
  <2> QED  BY <1>0, <1>17, <2>1 DEF Quiet, RowsInOrder, UndoneIsPartial, Forward, Live
<1>18. CASE SettleCompleted(r) /\ proc' = proc
  <2>1. Quiet(r) /\ proc[r].pc = "exited" /\ Journaled(r) = Tables
    BY <1>0, <1>18, RowsStay DEF Quiet, SettleCompleted, Unfinished, JournalOverwritten,
       JournalOverwrittenRaises
  <2> QED  BY <1>0, <1>18, <2>1 DEF Quiet, RowsInOrder, UndoneIsPartial, Forward
<1>19. CASE SettleRollback(r) /\ proc'[r].pc = "rollback"
  <2>1. /\ Quiet(r) /\ journal'[r].closed = journal[r].closed
        /\ journal[r].closed = "open" /\ Journaled(r) # Tables
    BY <1>0, <1>19, RollbackBegins DEF Quiet, Journaled, Unfinished
  <2> QED  BY <1>0, <1>19, <2>1 DEF Quiet, RowsInOrder, UndoneIsPartial, Forward
<1> QED
  BY <1>0, <1>3, <1>4, <1>5, <1>6, <1>7, <1>9, <1>10, <1>11, <1>12, <1>13, <1>14, <1>15,
     <1>16, <1>17, <1>18, <1>19, Places

LEMMA NextCompletedInv ==
    ASSUME "late" \notin Faults
    PROVE  CompletedInv /\ [Next]_vars => CompletedInv'
<1>1. ASSUME CompletedInv, Next, NEW r \in Restores
      PROVE  RowsInOrder(r)' /\ UndoneIsPartial(r)'
  <2>0. TypeOK /\ RowsInOrder(r) /\ UndoneIsPartial(r)
    BY <1>1 DEF CompletedInv, TypeInv
  <2>1. CASE /\ proc'[r] = proc[r] /\ journal'[r] = journal[r]
             /\ landed'[r] = landed[r] /\ undone'[r] = undone[r]
    BY <2>0, <2>1 DEF RowsInOrder, UndoneIsPartial, Journaled
  <2>2. ASSUME NEW t \in Tables, WriterCommit(t)
        PROVE  /\ proc'[r] = proc[r] /\ journal'[r] = journal[r]
               /\ landed'[r] = landed[r] /\ undone'[r] = undone[r]
    BY <2>2 DEF WriterCommit
  <2>3. ASSUME NEW s \in Restores, s # r, StepOf(s)
        PROVE  /\ proc'[r] = proc[r] /\ journal'[r] = journal[r]
               /\ landed'[r] = landed[r] /\ undone'[r] = undone[r]
    BY <2>0, <2>3, OthersStay
  <2> QED  BY <1>1, <2>1, <2>2, <2>3, NextSteps, RowsInOrderStays
<1>2. ASSUME CompletedInv, UNCHANGED vars PROVE CompletedInv'
  <2>1. TypeInv'
    BY <1>2, NextTypeInv DEF CompletedInv
  <2>2. \A r \in Restores : RowsInOrder(r)' /\ UndoneIsPartial(r)'
    BY <1>2 DEF CompletedInv, RowsInOrder, UndoneIsPartial, Journaled, vars
  <2> QED  BY <2>1, <2>2 DEF CompletedInv
<1>3. ASSUME CompletedInv, Next PROVE CompletedInv'
  BY <1>1, <1>3, NextTypeInv DEF CompletedInv
<1> QED  BY <1>2, <1>3

LEMMA CompletedInvHolds == CompletedInv => CompletedMeansAll
<1> SUFFICES ASSUME CompletedInv, NEW r \in Restores, journal[r].closed = "completed"
             PROVE  landed[r] = Tables /\ undone[r] = {}
  BY DEF CompletedMeansAll
<1>1. landed[r] \in SUBSET Tables
  BY DEF CompletedInv, TypeInv, TypeOK
<1> QED  BY <1>1 DEF CompletedInv, RowsInOrder, UndoneIsPartial

\* A run the journal calls completed overwrote every table and was taken back
\* on none, whatever failed: versions not read, rows not written, processes
\* killed at any point, other writers and other restores on the same tables.
\* Only a commit that lands although its statement raised is excluded.
THEOREM CompletedRestoresAll ==
    ASSUME "late" \notin Faults
    PROVE  Spec => []CompletedMeansAll
  BY InitCompletedInv, NextCompletedInv, CompletedInvHolds, PTL DEF Spec

-----------------------------------------------------------------------------
(* A rollback erases the run's own commits only.                           *)

\* A version that is the overwrite of restore r and nothing else.
IsOverwrite(r, t, v) == v <= LatestVersion(t) /\ table[t][v] = {Restored(r)}

\* Every version a run remembers to have left a table at is its overwrite;
\* the newest one is, from the overwrite to the read of its version and from
\* the comparison of the versions to the RESTORE.
MarksOwn(r) ==
    /\ \A t \in Tables :
          /\ proc[r].post[t] # Unknown => IsOverwrite(r, t, proc[r].post[t])
          /\ journal[r].post[t] # Unknown => IsOverwrite(r, t, journal[r].post[t])
    /\ proc[r].pc = "post" => IsOverwrite(r, proc[r].cur, LatestVersion(proc[r].cur))
    /\ proc[r].pc = "restoreTable" =>
          IsOverwrite(r, proc[r].cur, LatestVersion(proc[r].cur))

MarksInv == TypeInv /\ \A r \in Restores : MarksOwn(r)

LEMMA InitMarksInv == Init => MarksInv
<1>1. ASSUME Init, NEW r \in Restores PROVE MarksOwn(r)
  BY <1>1 DEF Init, NoVersions, MarksOwn
<1> QED  BY <1>1, InitTypeInv DEF MarksInv

\* A remembered version is the same in the next state.
LEMMA OverwritesStay ==
    ASSUME TypeInv, Next, NEW r \in Restores, NEW t \in Tables, NEW v \in 1..LatestVersion(t),
           IsOverwrite(r, t, v)
    PROVE  v <= LatestVersion(t)' /\ table'[t][v] = {Restored(r)}
  BY TablesGrow DEF IsOverwrite

\* Without a race nobody else commits to the table in a window.
LEMMA WindowsHold ==
    ASSUME TypeInv, Next, "race" \notin Faults, NEW r \in Restores, NEW t \in Tables,
           InWindow(r, t), ~StepOf(r)
    PROVE  table'[t] = table[t]
<1>0. TypeOK /\ table \in [Tables -> Seq(SUBSET Commits)]
  BY DEF TypeInv, TypeOK
<1>1. ASSUME NEW u \in Tables, WriterCommit(u) PROVE table'[t] = table[t]
  <2>1. u # t
    BY <1>1 DEF WriterCommit, MayCommit
  <2> QED  BY <1>0, <1>1, <2>1 DEF WriterCommit
<1>2. ASSUME NEW s \in Restores, s # r, StepOf(s) PROVE table'[t] = table[t]
  <2>1. ASSUME NEW u \in Tables, Overwriting(s, u) \/ RollingBack(s, u)
        PROVE  table'[t] = table[t]
    <3>1. u # t
      BY <1>2, <2>1 DEF Overwriting, RollingBack, MayCommit
    <3> QED  BY <1>0, <2>1, <3>1 DEF Overwriting, RollingBack
  <2>2. proc[s].cur \in Tables
    BY <1>0, ProcFields
  <2> QED
    BY <1>2, <2>1, <2>2 DEF StepOf, BeginRestore, Progress, Settle, ReadPreVersion,
       JournalStarted, Overwrite, ReadPostVersion, JournalOverwritten, JournalCompleted,
       CheckTable, RestoreTable, JournalRolledBack, SettleCompleted, SettleRollback,
       JournalStartedRaises, OverwriteRaises, ReadPostVersionRaises,
       JournalOverwrittenRaises, RestoreTableRaises, Crash
<1> QED  BY <1>1, <1>2, NextSteps

\* What a process newly remembers: the version it has just read, or what the
\* journal says; and the journal, what the process remembers.
LEMMA PostSteps ==
    ASSUME TypeInv, NEW r \in Restores, StepOf(r)
    PROVE  /\ \/ proc'[r].post = proc[r].post
              \/ proc'[r].post = journal[r].post
              \/ /\ proc[r].pc = "post"
                 /\ proc'[r].post =
                       [proc[r].post EXCEPT ![proc[r].cur] = LatestVersion(proc[r].cur)]
           /\ \/ journal'[r].post = journal[r].post
              \/ journal'[r].post =
                    [journal[r].post EXCEPT ![proc[r].cur] = proc[r].post[proc[r].cur]]
<1>0. /\ proc \in [Restores -> Proc] /\ journal \in [Restores -> Journal]
      /\ proc[r] \in Proc /\ journal[r] \in Journal
  BY DEF TypeInv, TypeOK
<1>1. ASSUME NEW p, Goto(r, p) PROVE proc'[r].post = proc[r].post
  BY <1>0, <1>1 DEF Goto, Proc
<1>2. \/ journal'[r].post = journal[r].post
      \/ journal'[r].post =
            [journal[r].post EXCEPT ![proc[r].cur] = proc[r].post[proc[r].cur]]
  <2>1. CASE JournalRow(r, proc[r].cur)
    BY <1>0, <2>1 DEF JournalRow, Journal
  <2>2. CASE JournalStarted(r) \/ JournalStartedRaises(r)
    BY <1>0, <2>2 DEF JournalStarted, JournalStartedRaises, Journal
  <2>3. CASE JournalCompleted(r) \/ JournalRolledBack(r) \/ SettleCompleted(r)
    BY <1>0, <2>3 DEF JournalCompleted, JournalRolledBack, SettleCompleted, Journal
  <2> QED
    BY <2>1, <2>2, <2>3 DEF StepOf, BeginRestore, Progress, Settle, ReadPreVersion, Overwrite,
       ReadPostVersion, JournalOverwritten, JournalOverwrittenRaises, CheckTable,
       RestoreTable, SettleRollback, OverwriteRaises, ReadPostVersionRaises,
       RestoreTableRaises, Crash
<1>3. CASE ReadPreVersion(r) \/ Overwrite(r)
  BY <1>0, <1>2, <1>3 DEF ReadPreVersion, Overwrite, Proc
<1>4. CASE ReadPostVersion(r)
  BY <1>0, <1>2, <1>4 DEF ReadPostVersion, Proc
<1>5. CASE JournalOverwritten(r) \/ RestoreTable(r)
  BY <1>0, <1>2, <1>5 DEF JournalOverwritten, RestoreTable, Proc
<1>6. CASE CheckTable(r)
  BY <1>0, <1>2, <1>6 DEF CheckTable, Proc
<1>7. CASE SettleRollback(r)
  BY <1>2, <1>7, RollbackBegins
<1>8. CASE SettleCompleted(r)
  BY <1>2, <1>8 DEF SettleCompleted
<1> QED
  BY <1>1, <1>2, <1>3, <1>4, <1>5, <1>6, <1>7, <1>8 DEF StepOf, BeginRestore, Progress,
     Settle, JournalStarted, JournalCompleted, JournalRolledBack, JournalStartedRaises,
     OverwriteRaises, ReadPostVersionRaises, JournalOverwrittenRaises, RestoreTableRaises,
     Crash

\* The windows open on the run's own version: an overwrite has just been
\* committed, or the versions have just been compared.
LEMMA WindowOpens ==
    ASSUME TypeInv, Next, NEW r \in Restores, MarksOwn(r), StepOf(r), NEW t \in Tables,
           proc'[r].cur = t, proc'[r].pc \in {"post", "restoreTable"}
    PROVE  table'[t][LatestVersion(t)'] = {Restored(r)}
<1>0. /\ proc \in [Restores -> Proc] /\ proc[r] \in Proc
      /\ table \in [Tables -> Seq(SUBSET Commits)]
  BY DEF TypeInv, TypeOK
<1>1. CASE Overwrite(r) /\ proc'[r].cur = proc[r].cur
  <2>1. table'[t] = Append(table[t], {Restored(r)})
    BY <1>0, <1>1 DEF Overwrite, Overwriting
  <2>2. {Restored(r)} \in SUBSET Commits
    BY DEF Restored, Commits
  <2> QED  BY <1>0, <2>1, <2>2, CommitAdds DEF LatestVersion, Last
<1>2. CASE CheckTable(r)
  <2>1. /\ t = Head(proc[r].over) /\ table' = table
        /\ proc[r].post[t] # Unknown /\ LatestVersion(t) = proc[r].post[t]
    BY <1>0, <1>2 DEF CheckTable, Proc
  <2> QED  BY <2>1 DEF MarksOwn, IsOverwrite, LatestVersion
<1>3. CASE SettleCompleted(r)
  BY <1>3 DEF SettleCompleted, Unfinished
<1>4. ReadPreVersion(r) => proc'[r].pc \notin {"post", "restoreTable"}
  BY <1>0 DEF ReadPreVersion, Proc
<1>5. JournalOverwritten(r) => proc'[r].pc \notin {"post", "restoreTable"}
  BY <1>0 DEF JournalOverwritten, Proc
<1> QED  BY <1>1, <1>2, <1>3, <1>4, <1>5, Places

LEMMA MarksStay ==
    ASSUME MarksInv, Next, "race" \notin Faults, NEW r \in Restores
    PROVE  MarksOwn(r)'
<1>0. /\ TypeInv /\ TypeOK /\ MarksOwn(r)
      /\ proc[r].cur \in Tables /\ proc[r].post \in [Tables -> Nat]
      /\ journal[r].post \in [Tables -> Nat]
      /\ \A t \in Tables : LatestVersion(t) \in Nat /\ LatestVersion(t) >= 1
  BY ProcFields DEF MarksInv, TypeInv
<1> DEFINE Still(t, v) == v <= LatestVersion(t)' /\ table'[t][v] = {Restored(r)}
<1>1. ASSUME NEW t \in Tables, NEW v \in Nat \ {0}, IsOverwrite(r, t, v)
      PROVE  Still(t, v)
  <2>1. v \in 1..LatestVersion(t)
    BY <1>0, <1>1 DEF IsOverwrite
  <2> QED  BY <1>0, <1>1, <2>1, OverwritesStay
<1>2. \A t \in Tables :
         /\ proc[r].post[t] # Unknown => Still(t, proc[r].post[t])
         /\ journal[r].post[t] # Unknown => Still(t, journal[r].post[t])
  <2> TAKE t \in Tables
  <2>1. proc[r].post[t] # Unknown => proc[r].post[t] \in Nat \ {0}
    BY <1>0 DEF Unknown
  <2>2. journal[r].post[t] # Unknown => journal[r].post[t] \in Nat \ {0}
    BY <1>0 DEF Unknown
  <2>3. /\ proc[r].post[t] # Unknown => IsOverwrite(r, t, proc[r].post[t])
        /\ journal[r].post[t] # Unknown => IsOverwrite(r, t, journal[r].post[t])
    BY <1>0 DEF MarksOwn
  <2> HIDE DEF Still
  <2> QED  BY <1>1, <2>1, <2>2, <2>3
<1>3. proc[r].pc \in {"post", "restoreTable"} =>
         Still(proc[r].cur, LatestVersion(proc[r].cur))
  <2> SUFFICES ASSUME proc[r].pc \in {"post", "restoreTable"}
               PROVE  Still(proc[r].cur, LatestVersion(proc[r].cur))
    OBVIOUS
  <2>1. IsOverwrite(r, proc[r].cur, LatestVersion(proc[r].cur))
    BY <1>0 DEF MarksOwn
  <2>2. PICK t \in Tables, v \in Nat \ {0} : t = proc[r].cur /\ v = LatestVersion(t)
    BY <1>0
  <2> HIDE DEF Still
  <2> QED  BY <1>1, <2>1, <2>2
<1> HIDE DEF Still
<1>4. \A t \in Tables :
         /\ proc'[r].post[t] # Unknown => Still(t, proc'[r].post[t])
         /\ journal'[r].post[t] # Unknown => Still(t, journal'[r].post[t])
  <2>1. CASE proc'[r] = proc[r] /\ journal'[r] = journal[r]
    BY <1>2, <2>1
  <2>2. CASE StepOf(r)
    <3>1. \A t \in Tables : proc'[r].post[t] # Unknown => Still(t, proc'[r].post[t])
      BY <1>0, <1>2, <1>3, <2>2, PostSteps
    <3>2. \A t \in Tables : journal'[r].post[t] # Unknown => Still(t, journal'[r].post[t])
      <4>1. \/ journal'[r].post = journal[r].post
            \/ journal'[r].post =
                  [journal[r].post EXCEPT ![proc[r].cur] = proc[r].post[proc[r].cur]]
        BY <1>0, <2>2, PostSteps
      <4>2. ASSUME NEW t \in Tables
            PROVE  journal'[r].post[t] = journal[r].post[t] \/ journal'[r].post[t] = proc[r].post[t]
        BY <1>0, <4>1
      <4> QED  BY <1>2, <4>2
    <3> QED  BY <3>1, <3>2
  <2>3. ASSUME NEW s \in Restores, s # r, StepOf(s)
        PROVE  proc'[r] = proc[r] /\ journal'[r] = journal[r]
    BY <1>0, <2>3, OthersStay
  <2>4. ASSUME NEW t \in Tables, WriterCommit(t)
        PROVE  proc'[r] = proc[r] /\ journal'[r] = journal[r]
    BY <2>4 DEF WriterCommit
  <2> QED  BY <2>1, <2>2, <2>3, <2>4, NextSteps
<1>5. TypeInv'
  BY <1>0, NextTypeInv
<1>6. ASSUME NEW t \in Tables, proc'[r].cur = t, proc'[r].pc \in {"post", "restoreTable"}
      PROVE  table'[t][LatestVersion(t)'] = {Restored(r)}
  <2>1. CASE StepOf(r)
    BY <1>0, <1>6, <2>1, WindowOpens
  <2>2. CASE ~StepOf(r)
    <3>1. proc'[r] = proc[r]
      BY <1>0, <2>2, NextSteps, OthersStay DEF WriterCommit
    <3>2. InWindow(r, t)
      BY <1>6, <3>1 DEF InWindow
    <3>3. table'[t] = table[t]
      BY <1>0, <2>2, <3>2, WindowsHold
    <3>4. table[t][LatestVersion(t)] = {Restored(r)}
      BY <1>0, <1>6, <3>1 DEF MarksOwn, IsOverwrite
    <3> QED  BY <3>3, <3>4 DEF LatestVersion
  <2> QED  BY <2>1, <2>2
<1>7. proc'[r].cur \in Tables /\ \A t \in Tables : LatestVersion(t)' \in Nat
  BY <1>0, <1>5, ProcFields, TablesGrow DEF TypeInv, TypeOK, Proc, Tables
<1>8. ASSUME proc'[r].pc \in {"post", "restoreTable"}
      PROVE  IsOverwrite(r, proc[r].cur, LatestVersion(proc[r].cur))'
  BY <1>6, <1>7, <1>8 DEF IsOverwrite
<1> QED  BY <1>4, <1>8 DEF MarksOwn, IsOverwrite, Still

LEMMA NextMarksInv ==
    ASSUME "race" \notin Faults
    PROVE  MarksInv /\ [Next]_vars => MarksInv'
<1>1. ASSUME MarksInv, UNCHANGED vars PROVE MarksInv'
  <2>1. TypeInv'
    BY <1>1, NextTypeInv DEF MarksInv
  <2>2. \A r \in Restores : MarksOwn(r)'
    BY <1>1 DEF MarksInv, MarksOwn, IsOverwrite, LatestVersion, vars
  <2> QED  BY <2>1, <2>2 DEF MarksInv
<1>2. ASSUME MarksInv, Next PROVE MarksInv'
  BY <1>2, NextTypeInv, MarksStay DEF MarksInv
<1> QED  BY <1>1, <1>2

LEMMA MarkedStepErasesOwn ==
    ASSUME MarksInv, [Next]_vars
    PROVE  ErasesOwnWork
<1>0. /\ TypeInv /\ TypeOK /\ undone \in [Restores -> SUBSET Tables]
  BY DEF MarksInv, TypeInv, TypeOK
<1> SUFFICES ASSUME NEW r \in Restores, NEW t \in undone'[r] \ undone[r]
             PROVE  Last(table[t]) = {Restored(r)}
  BY DEF ErasesOwnWork
<1>1. undone'[r] # undone[r]
  OBVIOUS
<1>2. StepOf(r)
  <2>1. ASSUME NEW s \in Restores, s # r, StepOf(s) PROVE undone'[r] = undone[r]
    BY <1>0, <2>1, OthersStay
  <2>2. ASSUME NEW u \in Tables, WriterCommit(u) PROVE undone'[r] = undone[r]
    BY <2>2 DEF WriterCommit
  <2>3. UNCHANGED vars => undone'[r] = undone[r]
    BY DEF vars
  <2> QED  BY <1>1, <2>1, <2>2, <2>3, NextSteps
<1>3. proc[r].pc = "restoreTable" /\ RollingBack(r, proc[r].cur)
  BY <1>1, <1>2 DEF StepOf, BeginRestore, Progress, Settle, ReadPreVersion,
     JournalStarted, Overwrite, ReadPostVersion, JournalOverwritten, JournalCompleted,
     CheckTable, RestoreTable, JournalRolledBack, SettleCompleted, SettleRollback,
     JournalStartedRaises, OverwriteRaises, ReadPostVersionRaises,
     JournalOverwrittenRaises, RestoreTableRaises, Crash
<1>4. t = proc[r].cur
  BY <1>0, <1>3 DEF RollingBack
<1>5. MarksOwn(r)
  BY DEF MarksInv
<1> QED  BY <1>3, <1>4, <1>5 DEF MarksOwn, IsOverwrite, Last, LatestVersion

\* A rollback, of any restore among any number of them and under any failure,
\* replaces a version that is the run's own overwrite and nothing else, as
\* long as nobody commits in the two windows the code leaves open: between an
\* overwrite and the read of its version, between the check of the version and
\* the RESTORE.
THEOREM RollbackErasesOwnWork ==
    ASSUME "race" \notin Faults
    PROVE  Spec => [][ErasesOwnWork]_vars
  BY InitMarksInv, NextMarksInv, MarkedStepErasesOwn, PTL DEF Spec
-----------------------------------------------------------------------------
(* One restore: all of it or nothing.                                      *)

\* A table shows r's rows exactly where its overwrite was not taken back, and
\* what a rollback goes back to is older than all of r's commits.
ShowsOwnRows(r) ==
    /\ \A t \in Tables : Restored(r) \in Last(table[t]) <=> t \in landed[r] \ undone[r]
    /\ \A t \in Tables : /\ proc[r].pre[t] <= LatestVersion(t)
                         /\ \A k \in 1..proc[r].pre[t] : Restored(r) \notin table[t][k]
    /\ proc[r].pc \in {"new", "versions", "started"} =>
          \A t \in Tables : \A k \in 1..LatestVersion(t) : Restored(r) \notin table[t][k]

\* No overwrite is forgotten: the journal knows it, or the process at work does,
\* or it is undone.  A rollback that began because an overwrite could not be
\* journaled is the only one that knows of it, and has to come through.
KnowsOverwrites(r) ==
    /\ proc[r].pc \in {"new", "versions", "started"} => landed[r] = {}
    /\ proc[r].pc \in {"overwrite", "complete"} => landed[r] = Journaled(r)
    /\ proc[r].pc \in {"post", "overwritten"} => landed[r] = Journaled(r) \cup {proc[r].cur}
    /\ proc[r].pc \in Live \ {"versions", "started", "complete"} =>
          landed[r] \subseteq ToSet(proc[r].over) \cup proc[r].manual \cup undone[r]
    /\ proc[r].pc \in {"rollback", "restoreTable"} =>
          \/ landed[r] \subseteq Journaled(r) \cup undone[r]
          \/ faults > 0 /\ Faults \cap {"journal", "version"} # {}
    /\ proc[r].pc = "exited" /\ journal[r].closed = "open" =>
          landed[r] \subseteq Journaled(r) \cup undone[r]
    /\ proc[r].pc \in Live \ {"versions", "started"} \/ landed[r] # {} => journal[r].started
    /\ journal[r].closed = "rolled_back" =>
          proc[r].pc = "exited" /\ landed[r] \subseteq journal[r].skipped \cup undone[r]

WholeInv == CompletedInv /\ \A r \in Restores : ShowsOwnRows(r) /\ KnowsOverwrites(r)

SingleRestore == \A r, s \in Restores : r = s

\* Faults after which somebody still knows every table overwritten.  No error
\* comes late, and no process dies with an overwrite not journaled yet.  Where an
\* overwrite may remain unjournaled because its version could not be read or its
\* row not be written, the rollback that follows does not fail in turn: there is
\* one fault in all, or the statements of a rollback do not raise.
MendableFaults ==
    /\ "late" \notin Faults /\ "gap" \notin Faults
    /\ \/ MaxFaults <= 1
       \/ Faults \cap {"journal", "version"} = {}
       \/ Faults \cap {"journal", "restore"} = {}

LEMMA InitWholeInv == Init => WholeInv
<1> SUFFICES ASSUME Init, NEW r \in Restores PROVE ShowsOwnRows(r) /\ KnowsOverwrites(r)
  BY InitCompletedInv DEF WholeInv
<1>1. /\ proc[r].pc = "new" /\ landed[r] = {} /\ undone[r] = {} /\ Journaled(r) = {}
      /\ journal[r].closed = "open"
      /\ \A t \in Tables : proc[r].pre[t] = 0 /\ table[t] = << {Write(0)} >>
  BY DEF Init, Journaled, NoVersions, Unknown
<1>2. Restored(r) \notin {Write(0)}
  BY DEF Restored, Write
<1>3. \A t \in Tables : LatestVersion(t) = 1 /\ table[t][1] = {Write(0)} /\ Last(table[t]) = {Write(0)}
  <2> TAKE t \in Tables
  <2> DEFINE rows == {Write(0)}
  <2>1. table[t] = << rows >>
    BY <1>1
  <2> HIDE DEF rows
  <2>2. Len(table[t]) = 1 /\ table[t][1] = rows
    BY <2>1
  <2>3. Last(table[t]) = rows
    BY <2>2 DEF Last
  <2> QED  BY <2>2, <2>3 DEF LatestVersion, rows
<1>4. \A k \in 1..0 : FALSE
  OBVIOUS
<1>5. \A k \in 1..1 : k = 1
  OBVIOUS
<1>6. ShowsOwnRows(r)
  BY <1>1, <1>2, <1>3, <1>4, <1>5 DEF ShowsOwnRows
<1>7. KnowsOverwrites(r)
  BY <1>1 DEF KnowsOverwrites, Live
<1> QED  BY <1>6, <1>7

\* A commit is the current version; the older ones, and other tables, stay.
LEMMA CommitIsLast ==
    ASSUME TypeInv, NEW t \in Tables, NEW rows \in SUBSET Commits, Committed(t, rows)
    PROVE  /\ Last(table'[t]) = rows
           /\ \A u \in Tables : u # t => table'[u] = table[u]
<1>1. table \in [Tables -> Seq(SUBSET Commits)]
  BY DEF TypeInv, TypeOK
<1> QED  BY <1>1, CommitAdds DEF Committed

\* Other writers add their rows to a version and take none away.
LEMMA WriterShows ==
    ASSUME TypeInv, NEW r \in Restores, NEW t \in Tables, WriterCommit(t)
    PROVE  \A u \in Tables : Restored(r) \in Last(table'[u]) <=> Restored(r) \in Last(table[u])
<1>4. Committed(t, Last(table[t]) \cup {Write(writes')})
  BY DEF WriterCommit, Committed
<1>5. Restored(r) # Write(writes')
  BY DEF Restored, Write
<1>6. Last(table'[t]) = Last(table[t]) \cup {Write(writes')}
      /\ \A u \in Tables : u # t => table'[u] = table[u]
  BY <1>4, CommitIsLast, WriterRows
<1> QED  BY <1>5, <1>6
\* What a step of r's process does to the tables and to its histories.
LEMMA OwnCommits ==
    ASSUME TypeInv, MendableFaults, NEW r \in Restores, StepOf(r)
    PROVE  \/ UNCHANGED <<table, landed, undone>>
           \/ /\ Overwrite(r) /\ UNCHANGED undone
              /\ Committed(proc[r].cur, {Restored(r)})
              /\ landed' = [landed EXCEPT ![r] = @ \cup {proc[r].cur}]
           \/ /\ RestoreTable(r) /\ UNCHANGED landed
              /\ Committed(proc[r].cur, table[proc[r].cur][proc[r].pre[proc[r].cur]])
              /\ undone' = [undone EXCEPT ![r] = @ \cup {proc[r].cur}]
<1>0. ~Fault("late")
  BY DEF MendableFaults, Fault
<1>1. proc[r].cur \in Tables /\ table \in [Tables -> Seq(SUBSET Commits)]
  BY ProcFields DEF TypeInv, TypeOK
<1>2. CASE Overwrite(r)
  BY <1>2 DEF Overwrite, Overwriting, Committed
<1>3. CASE RestoreTable(r)
  BY <1>1, <1>3 DEF RestoreTable, RollingBack, Committed
<1> QED
  BY <1>0, <1>2, <1>3 DEF StepOf, BeginRestore, Progress, Settle, ReadPreVersion,
     JournalStarted, ReadPostVersion, JournalOverwritten, JournalCompleted,
     CheckTable, JournalRolledBack, SettleCompleted, SettleRollback,
     JournalStartedRaises, OverwriteRaises, ReadPostVersionRaises,
     JournalOverwrittenRaises, RestoreTableRaises, Crash

LEMMA OwnRowsStay ==
    ASSUME WholeInv, MendableFaults, Next, NEW r \in Restores, StepOf(r)
    PROVE  ShowsOwnRows(r)'
<1>0. /\ TypeInv /\ TypeOK /\ CompletedInv /\ ShowsOwnRows(r) /\ KnowsOverwrites(r)
      /\ UndoneIsPartial(r)
      /\ PreKnown(r) /\ proc[r].cur \in Tables /\ proc[r].pre \in [Tables -> Nat]
      /\ proc \in [Restores -> Proc] /\ proc[r] \in Proc
      /\ landed \in [Restores -> SUBSET Tables] /\ undone \in [Restores -> SUBSET Tables]
      /\ table \in [Tables -> Seq(SUBSET Commits)]
      /\ \A t \in Tables : LatestVersion(t) \in Nat
  BY ProcFields DEF WholeInv, CompletedInv, TypeInv, TypeOK
<1>1. \A t \in Tables : Restored(r) \in Last(table'[t]) <=> t \in landed'[r] \ undone'[r]
  <2>1. CASE UNCHANGED <<table, landed, undone>>
    BY <1>0, <2>1 DEF ShowsOwnRows
  <2>2. CASE /\ Overwrite(r) /\ UNCHANGED undone
             /\ Committed(proc[r].cur, {Restored(r)})
             /\ landed' = [landed EXCEPT ![r] = @ \cup {proc[r].cur}]
    <3>1. undone[r] = {}
      BY <1>0, <2>2 DEF Overwrite, UndoneIsPartial, Forward
    <3>2. {Restored(r)} \in SUBSET Commits
      BY DEF Restored, Commits
    <3>3. /\ Last(table'[proc[r].cur]) = {Restored(r)}
          /\ \A u \in Tables : u # proc[r].cur => table'[u] = table[u]
      BY <1>0, <2>2, <3>2, CommitIsLast
    <3> QED  BY <1>0, <2>2, <3>1, <3>3 DEF ShowsOwnRows
  <2>3. CASE /\ RestoreTable(r) /\ UNCHANGED landed
             /\ Committed(proc[r].cur, table[proc[r].cur][proc[r].pre[proc[r].cur]])
             /\ undone' = [undone EXCEPT ![r] = @ \cup {proc[r].cur}]
    <3> DEFINE rows == table[proc[r].cur][proc[r].pre[proc[r].cur]]
    <3>1. proc[r].pre[proc[r].cur] \in 1..LatestVersion(proc[r].cur)
      BY <1>0, <2>3 DEF RestoreTable, PreKnown, Live
    <3>2. rows \in SUBSET Commits
      BY <1>0, <3>1, ElementOfSeq DEF LatestVersion
    <3>3. Restored(r) \notin rows
      <4>1. proc[r].pre[proc[r].cur] \in 1..proc[r].pre[proc[r].cur]
        BY <1>0, <3>1
      <4> QED  BY <1>0, <4>1 DEF ShowsOwnRows
    <3>4. Committed(proc[r].cur, rows)
      BY <2>3
    <3> HIDE DEF rows
    <3>5. /\ Last(table'[proc[r].cur]) = rows
          /\ \A u \in Tables : u # proc[r].cur => table'[u] = table[u]
      BY <1>0, <3>2, <3>4, CommitIsLast
    <3> QED  BY <1>0, <2>3, <3>3, <3>5 DEF ShowsOwnRows
  <2> QED  BY <1>0, <2>1, <2>2, <2>3, OwnCommits
<1>2. CASE BeginRestore(r)
  <2>1. /\ proc'[r].pre = proc[r].pre /\ proc[r].pc = "new" /\ table' = table
    BY <1>0, <1>2 DEF BeginRestore, Goto, Proc
  <2> QED  BY <1>0, <1>1, <2>1 DEF ShowsOwnRows, LatestVersion
<1>3. CASE ReadPreVersion(r)
  <2>1. /\ proc[r].pc = "versions" /\ table' = table
        /\ proc'[r].pre = [proc[r].pre EXCEPT ![proc[r].cur] = LatestVersion(proc[r].cur)]
    BY <1>0, <1>3 DEF ReadPreVersion, Proc
  <2>2. \A t \in Tables : \A k \in 1..LatestVersion(t) : Restored(r) \notin table[t][k]
    BY <1>0, <2>1 DEF ShowsOwnRows
  <2>3. \A t \in Tables : /\ proc'[r].pre[t] <= LatestVersion(t)
                          /\ \A k \in 1..proc'[r].pre[t] : Restored(r) \notin table[t][k]
    <3> TAKE t \in Tables
    <3>1. CASE t = proc[r].cur
      BY <1>0, <2>1, <2>2, <3>1
    <3>2. CASE t # proc[r].cur
      <4>1. proc'[r].pre[t] = proc[r].pre[t]
        BY <1>0, <2>1, <3>2
      <4> QED  BY <1>0, <4>1 DEF ShowsOwnRows
    <3> QED  BY <3>1, <3>2
  <2> QED  BY <1>1, <2>1, <2>2, <2>3 DEF ShowsOwnRows, LatestVersion
<1>4. CASE ~BeginRestore(r) /\ ~ReadPreVersion(r)
  <2>1. proc'[r].pre = proc[r].pre /\ proc'[r].pc \notin {"new", "versions"}
    BY <1>0, <1>4, PreStays
  <2>2. \A t \in Tables :
           /\ proc[r].pre[t] <= LatestVersion(t)'
           /\ \A k \in 1..proc[r].pre[t] : Restored(r) \notin table'[t][k]
    <3> TAKE t \in Tables
    <3>1. proc[r].pre[t] <= LatestVersion(t) /\ proc[r].pre[t] \in Nat
          /\ \A k \in 1..proc[r].pre[t] : Restored(r) \notin table[t][k]
      BY <1>0 DEF ShowsOwnRows
    <3>2. LatestVersion(t)' >= LatestVersion(t) /\ LatestVersion(t)' \in Nat
          /\ \A k \in 1..LatestVersion(t) : table'[t][k] = table[t][k]
      BY <1>0, TablesGrow
    <3> QED  BY <1>0, <3>1, <3>2
  <2>3. proc'[r].pc # "started"
    <3>1. JournalOverwritten(r) => proc'[r].pc \in {"complete", "overwrite"}
      BY <1>0 DEF JournalOverwritten, Proc
    <3>2. SettleCompleted(r) => proc[r].pc = "exited"
      BY DEF SettleCompleted, Unfinished
    <3> QED  BY <1>0, <1>4, <3>1, <3>2, Places
  <2> QED  BY <1>1, <2>1, <2>2, <2>3 DEF ShowsOwnRows
<1> QED  BY <1>2, <1>3, <1>4

LEMMA WriterRowsStay ==
    ASSUME WholeInv, Next, NEW r \in Restores, NEW t \in Tables, WriterCommit(t)
    PROVE  ShowsOwnRows(r)'
<1>0. /\ TypeInv /\ ShowsOwnRows(r) /\ table \in [Tables -> Seq(SUBSET Commits)]
      /\ proc[r].pre \in [Tables -> Nat]
      /\ UNCHANGED <<proc, landed, undone>>
      /\ \A u \in Tables : LatestVersion(u) \in Nat
  BY ProcFields DEF WholeInv, CompletedInv, TypeInv, TypeOK, WriterCommit
<1>1. \A u \in Tables : Restored(r) \in Last(table'[u]) <=> Restored(r) \in Last(table[u])
  BY <1>0, WriterShows
<1>2. \A u \in Tables :
         /\ proc[r].pre[u] <= LatestVersion(u)'
         /\ \A k \in 1..proc[r].pre[u] : Restored(r) \notin table'[u][k]
  <2> TAKE u \in Tables
  <2>1. proc[r].pre[u] <= LatestVersion(u) /\ proc[r].pre[u] \in Nat
        /\ \A k \in 1..proc[r].pre[u] : Restored(r) \notin table[u][k]
    BY <1>0 DEF ShowsOwnRows
  <2>2. LatestVersion(u)' >= LatestVersion(u) /\ LatestVersion(u)' \in Nat
        /\ \A k \in 1..LatestVersion(u) : table'[u][k] = table[u][k]
    BY <1>0, TablesGrow
  <2>3. LatestVersion(u) \in Nat
    BY <1>0
  <2>4. proc[r].pre[u] <= LatestVersion(u)'
    BY <2>1, <2>2, <2>3
  <2>5. ASSUME NEW k \in 1..proc[r].pre[u] PROVE Restored(r) \notin table'[u][k]
    <3>1. k \in 1..LatestVersion(u)
      BY <2>1, <2>3
    <3> QED  BY <2>1, <2>2, <3>1
  <2> QED  BY <2>4, <2>5
<1>3. ASSUME proc[r].pc \in {"new", "versions", "started"}, NEW u \in Tables,
             NEW k \in 1..LatestVersion(u)'
      PROVE  Restored(r) \notin table'[u][k]
  <2>1. LatestVersion(u) \in 1..LatestVersion(u) /\ LatestVersion(u) \in Nat
    BY <1>0 DEF TypeInv
  <2>2. CASE k \in 1..LatestVersion(u)
    BY <1>0, <1>3, <2>2, TablesGrow DEF ShowsOwnRows
  <2>3. CASE k \notin 1..LatestVersion(u)
    <3>1. Restored(r) \notin Last(table'[u])
      BY <1>0, <1>1, <1>3, <2>1 DEF ShowsOwnRows, Last, LatestVersion
    <3>2. LatestVersion(u)' \in {LatestVersion(u), LatestVersion(u) + 1}
      <4>1. table[t] \in Seq(SUBSET Commits) /\ table[t] # << >>
        BY <1>0 DEF TypeInv, LatestVersion
      <4>2. CASE u # t
        BY <1>0, <4>2 DEF WriterCommit, LatestVersion
      <4>3. CASE u = t
        <5>1. Last(table[t]) \cup {Write(writes')} \in SUBSET Commits
          BY <1>0, WriterRows
        <5>2. table'[t] = Append(table[t], Last(table[t]) \cup {Write(writes')})
          BY <1>0 DEF WriterCommit
        <5> QED  BY <4>1, <4>3, <5>1, <5>2, CommitAdds DEF LatestVersion
      <4> QED  BY <4>2, <4>3
    <3>3. k = LatestVersion(u)'
      BY <1>3, <2>1, <2>3, <3>2
    <3> QED  BY <3>1, <3>3 DEF Last, LatestVersion
  <2> QED  BY <2>2, <2>3
<1> QED  BY <1>0, <1>1, <1>2, <1>3 DEF ShowsOwnRows

LEMMA KnowledgeStays ==
    ASSUME WholeInv, MendableFaults, Next, NEW r \in Restores, StepOf(r)
    PROVE  KnowsOverwrites(r)'
<1>0. /\ TypeInv /\ TypeOK /\ CompletedInv /\ KnowsOverwrites(r)
      /\ UndoneIsPartial(r) /\ RowsInOrder(r) /\ UndoesFirst(r)
      /\ proc[r].cur \in Tables /\ proc[r].over \in Seq(Tables)
      /\ proc \in [Restores -> Proc] /\ proc[r] \in Proc
      /\ journal \in [Restores -> Journal] /\ journal[r] \in Journal
      /\ landed \in [Restores -> SUBSET Tables] /\ undone \in [Restores -> SUBSET Tables]
  BY ProcFields DEF WholeInv, CompletedInv, TypeInv, TypeOK
<1>20. faults \in Nat /\ MaxFaults \in Nat
  <2>1. TypeOK
    BY <1>0
  <2> QED  BY <2>1, ConstantsAssumption DEF TypeOK
<1>1. ~Fault("late") /\ ~Fault("gap")
  BY DEF MendableFaults, Fault
\* A rollback that raises has forgotten nothing.
<1>19. ASSUME Fault("journal") \/ Fault("restore"), proc[r].pc \in {"rollback", "restoreTable"}
      PROVE  landed[r] \subseteq Journaled(r) \cup undone[r]
  <2>1. faults < MaxFaults /\ Faults \cap {"journal", "restore"} # {}
    BY <1>19 DEF Fault
  <2>2. ~(faults > 0 /\ Faults \cap {"journal", "version"} # {})
    BY <1>20, <2>1 DEF MendableFaults
  <2> QED  BY <1>0, <1>19, <2>2 DEF KnowsOverwrites
<1> DEFINE Kept == /\ Journaled(r)' = Journaled(r) /\ landed'[r] = landed[r]
                   /\ journal'[r].closed = journal[r].closed
                   /\ journal'[r].started = journal[r].started
                   /\ journal'[r].skipped = journal[r].skipped
<1>2. CASE proc[r].pc = "new" /\ proc'[r].pc = "versions"
           /\ UNCHANGED <<table, journal, landed, undone>>
  <2>1. Kept /\ undone'[r] = undone[r]
    BY <1>2 DEF Journaled
  <2> QED  BY <1>0, <1>2, <2>1 DEF KnowsOverwrites, Live
<1>3. CASE ReadPreVersion(r)
  <2>1. Kept /\ undone'[r] = undone[r] /\ proc[r].pc = "versions"
    BY <1>3 DEF ReadPreVersion, Journaled
  <2>2. proc'[r].pc \in {"versions", "started"}
    BY <1>0, <1>3 DEF ReadPreVersion, Proc
  <2> QED  BY <1>0, <2>1, <2>2 DEF KnowsOverwrites, Live
<1>4. CASE JournalStarted(r) /\ proc'[r].pc = "overwrite"
  <2>1. /\ Journaled(r)' = Journaled(r) /\ landed'[r] = landed[r]
        /\ journal'[r].started /\ journal'[r].closed = journal[r].closed
        /\ proc[r].pc = "started"
    BY <1>0, <1>4, RowsStay DEF JournalStarted, Journal, JournalOverwritten,
       JournalOverwrittenRaises
  <2> QED  BY <1>0, <1>4, <2>1 DEF KnowsOverwrites, RowsInOrder, Live
<1>5. CASE JournalStartedRaises(r) /\ proc'[r].pc = "exited"
  <2>1. Kept /\ undone'[r] = undone[r] /\ proc[r].pc = "started"
    BY <1>1, <1>5 DEF JournalStartedRaises, Journaled
  <2> QED  BY <1>0, <1>5, <2>1 DEF KnowsOverwrites, Live
<1>18. CASE (ReadPostVersionRaises(r) \/ JournalOverwrittenRaises(r)) /\ proc'[r].pc = "rollback"
  <2>1. /\ Kept /\ undone'[r] = undone[r] /\ proc[r].pc \in {"post", "overwritten"}
        /\ Fault("version") \/ Fault("journal")
    BY <1>1, <1>18 DEF ReadPostVersionRaises, JournalOverwrittenRaises, Journaled
  <2>2. proc'[r].over = proc[r].over /\ proc'[r].manual = proc[r].manual
    BY <1>0, <1>18 DEF ReadPostVersionRaises, JournalOverwrittenRaises, Goto, Proc
  <2>3. faults' > 0 /\ Faults \cap {"journal", "version"} # {}
    BY <1>20, <2>1 DEF Fault
  <2> QED  BY <1>0, <1>18, <2>1, <2>2, <2>3 DEF KnowsOverwrites, Live
<1>6. CASE Overwrite(r) /\ proc'[r].pc = "post" /\ proc'[r].cur = proc[r].cur
  <2>1. /\ Journaled(r)' = Journaled(r) /\ landed'[r] = landed[r] \cup {proc[r].cur}
        /\ journal'[r] = journal[r] /\ proc[r].pc = "overwrite" /\ undone'[r] = undone[r]
    BY <1>0, <1>6 DEF Overwrite, Overwriting, Journaled
  <2>2. /\ proc'[r].over = Append(proc[r].over, proc[r].cur)
        /\ proc'[r].manual = proc[r].manual
    BY <1>0, <1>6 DEF Overwrite, Proc
  <2>3. ToSet(proc'[r].over) = ToSet(proc[r].over) \cup {proc[r].cur}
    BY <1>0, <2>2, ElementsOfAppend
  <2> QED  BY <1>0, <1>6, <2>1, <2>2, <2>3 DEF KnowsOverwrites, Live
<1>7. CASE OverwriteRaises(r) /\ proc'[r].pc = "rollback"
  <2>1. Kept /\ undone'[r] = undone[r] /\ proc[r].pc = "overwrite"
    BY <1>1, <1>7 DEF OverwriteRaises, Journaled
  <2>2. proc'[r].over = proc[r].over /\ proc'[r].manual = proc[r].manual
    BY <1>0, <1>7 DEF OverwriteRaises, Goto, Proc
  <2> QED  BY <1>0, <1>7, <2>1, <2>2 DEF KnowsOverwrites, Live
<1>8. CASE ReadPostVersion(r) /\ proc'[r].pc = "overwritten" /\ proc'[r].cur = proc[r].cur
  <2>1. Kept /\ undone'[r] = undone[r] /\ proc[r].pc = "post"
    BY <1>8 DEF ReadPostVersion, Journaled
  <2>2. proc'[r].over = proc[r].over /\ proc'[r].manual = proc[r].manual
    BY <1>0, <1>8 DEF ReadPostVersion, Proc
  <2> QED  BY <1>0, <1>8, <2>1, <2>2 DEF KnowsOverwrites, Live
<1>9. CASE JournalOverwritten(r)
  <2>1. /\ JournalRow(r, proc[r].cur) /\ proc[r].pc = "overwritten"
        /\ landed'[r] = landed[r] /\ undone'[r] = undone[r]
    BY <1>9 DEF JournalOverwritten
  <2>2. /\ Journaled(r)' = Journaled(r) \cup {proc[r].cur}
        /\ journal'[r].closed = journal[r].closed
        /\ journal'[r].started = journal[r].started
    BY <1>0, <2>1, RowAdded DEF RowsInOrder
  <2>3. /\ proc'[r].pc \in {"complete", "overwrite"}
        /\ proc'[r].over = proc[r].over /\ proc'[r].manual = proc[r].manual
    BY <1>0, <1>9 DEF JournalOverwritten, Proc
  <2> QED  BY <1>0, <2>1, <2>2, <2>3 DEF KnowsOverwrites, Live
<1>10. CASE JournalCompleted(r) /\ proc'[r].pc = "exited"
  <2>1. /\ landed'[r] = landed[r] /\ undone'[r] = undone[r] /\ proc[r].pc = "complete"
    BY <1>10 DEF JournalCompleted
  <2>2. /\ journal'[r].started = journal[r].started /\ journal'[r].post = journal[r].post
        /\ journal'[r].closed \in {"completed", journal[r].closed}
    BY <1>0, <1>10 DEF JournalCompleted, Journal
  <2>3. Journaled(r)' = Journaled(r)
    BY <2>2 DEF Journaled
  <2> QED  BY <1>0, <1>10, <2>1, <2>2, <2>3 DEF KnowsOverwrites, Live
<1>11. CASE CheckTable(r) /\ proc'[r].pc \in {"rollback", "restoreTable"}
  <2>1. /\ Kept /\ undone'[r] = undone[r] /\ faults' = faults
        /\ proc[r].pc = "rollback" /\ proc[r].over # << >>
    BY <1>11 DEF CheckTable, Journaled
  <2>2. \/ proc'[r].over = proc[r].over /\ proc'[r].manual = proc[r].manual
        \/ /\ proc'[r].over = Tail(proc[r].over)
           /\ proc'[r].manual = proc[r].manual \cup {Head(proc[r].over)}
    BY <1>0, <1>11 DEF CheckTable, Proc
  <2>3. ToSet(proc[r].over) = {Head(proc[r].over)} \cup ToSet(Tail(proc[r].over))
    BY <1>0, <2>1, ElementsOfTail
  <2>4. landed'[r] \subseteq ToSet(proc'[r].over) \cup proc'[r].manual \cup undone'[r]
    BY <1>0, <2>1, <2>2, <2>3 DEF KnowsOverwrites, Live
  <2> QED  BY <1>0, <1>11, <2>1, <2>4 DEF KnowsOverwrites, Live
<1>12. CASE RestoreTable(r) /\ proc'[r].pc = "rollback"
  <2>1. /\ Kept /\ proc[r].pc = "restoreTable" /\ faults' = faults
        /\ undone'[r] = undone[r] \cup {proc[r].cur}
    BY <1>0, <1>12 DEF RestoreTable, RollingBack, Journaled
  <2>2. proc[r].over # << >> /\ proc[r].cur = Head(proc[r].over)
    BY <1>0, <2>1 DEF UndoesFirst
  <2>3. /\ proc'[r].over = Tail(proc[r].over) /\ proc'[r].manual = proc[r].manual
    BY <1>0, <1>12 DEF RestoreTable, Proc
  <2>4. ToSet(proc[r].over) = {Head(proc[r].over)} \cup ToSet(Tail(proc[r].over))
    BY <1>0, <2>2, ElementsOfTail
  <2>5. landed'[r] \subseteq ToSet(proc'[r].over) \cup proc'[r].manual \cup undone'[r]
    BY <1>0, <2>1, <2>2, <2>3, <2>4 DEF KnowsOverwrites, Live
  <2> QED  BY <1>0, <1>12, <2>1, <2>5 DEF KnowsOverwrites, Live
<1>13. CASE RestoreTableRaises(r) /\ proc'[r].pc = "exited"
  <2>1. /\ Kept /\ undone'[r] = undone[r] /\ proc[r].pc = "restoreTable"
        /\ Fault("restore")
    BY <1>1, <1>13 DEF RestoreTableRaises, Journaled
  <2>2. landed[r] \subseteq Journaled(r) \cup undone[r]
    BY <1>19, <2>1
  <2> QED  BY <1>0, <1>13, <2>1, <2>2 DEF KnowsOverwrites, Live
<1>14. CASE JournalRolledBack(r) /\ proc'[r].pc = "exited"
  <2>1. /\ landed'[r] = landed[r] /\ undone'[r] = undone[r]
        /\ proc[r].pc = "rollback" /\ proc[r].over = << >>
    BY <1>14 DEF JournalRolledBack
  <2>2. CASE Fault("journal") /\ UNCHANGED journal
    <3>1. landed[r] \subseteq Journaled(r) \cup undone[r]
      BY <1>19, <2>1, <2>2
    <3>2. Kept
      BY <2>1, <2>2 DEF Journaled
    <3> QED  BY <1>0, <1>14, <2>1, <3>1, <3>2 DEF KnowsOverwrites, Live
  <2>3. CASE journal' = [journal EXCEPT ![r].skipped = proc[r].manual,
                                        ![r].closed = "rolled_back"]
    <3>1. /\ journal'[r].started = journal[r].started /\ journal'[r].post = journal[r].post
          /\ journal'[r].skipped = proc[r].manual /\ journal'[r].closed = "rolled_back"
      BY <1>0, <2>3 DEF Journal
    <3>2. ToSet(proc[r].over) = {}
      BY <2>1 DEF ToSet
    <3>3. Journaled(r)' = Journaled(r)
      BY <3>1 DEF Journaled
    <3> QED  BY <1>0, <1>14, <2>1, <3>1, <3>2, <3>3 DEF KnowsOverwrites, Live
  <2> QED  BY <1>14, <2>2, <2>3 DEF JournalRolledBack
<1>15. CASE Crash(r) /\ proc'[r].pc = "exited"
  <2>1. Kept /\ undone'[r] = undone[r] /\ proc[r].pc \in Live
    BY <1>15 DEF Crash, Journaled
  <2>2. landed[r] \subseteq Journaled(r)
    BY <1>1, <1>15 DEF Crash
  <2>3. landed[r] = Journaled(r)
    BY <1>0, <2>2 DEF RowsInOrder
  <2> QED  BY <1>0, <1>15, <2>1, <2>3 DEF KnowsOverwrites, Live
<1>16. CASE SettleCompleted(r) /\ proc' = proc
  <2>1. /\ Journaled(r)' = Journaled(r) /\ landed'[r] = landed[r] /\ undone'[r] = undone[r]
        /\ proc[r].pc = "exited"
    BY <1>0, <1>16, RowsStay DEF SettleCompleted, Unfinished, JournalOverwritten,
       JournalOverwrittenRaises
  <2>2. /\ journal'[r].started = journal[r].started /\ journal'[r].closed = "completed"
    BY <1>0, <1>16 DEF SettleCompleted, Journal
  <2> QED  BY <1>0, <1>16, <2>1, <2>2 DEF KnowsOverwrites, Live
<1>17. CASE SettleRollback(r) /\ proc'[r].pc = "rollback"
  <2>1. /\ Kept /\ undone'[r] = undone[r] /\ ToSet(proc'[r].over) = Journaled(r)
        /\ journal[r].started /\ journal[r].closed = "open" /\ proc[r].pc = "exited"
    BY <1>0, <1>17, RollbackBegins DEF Unfinished, Journaled
  <2> QED  BY <1>0, <1>17, <2>1 DEF KnowsOverwrites, Live
<1> HIDE DEF Kept
<1> QED
  BY <1>0, <1>2, <1>3, <1>4, <1>5, <1>6, <1>7, <1>8, <1>9, <1>10, <1>11, <1>12, <1>13,
     <1>14, <1>15, <1>16, <1>17, <1>18, Places

LEMMA NextWholeInv ==
    ASSUME MendableFaults, SingleRestore
    PROVE  WholeInv /\ [Next]_vars => WholeInv'
<1>0. MendableFaults => "late" \notin Faults
  BY DEF MendableFaults
<1>1. ASSUME WholeInv, Next, NEW r \in Restores
      PROVE  ShowsOwnRows(r)' /\ KnowsOverwrites(r)'
  <2>1. ASSUME NEW t \in Tables, WriterCommit(t)
        PROVE  ShowsOwnRows(r)' /\ KnowsOverwrites(r)'
    <3>1. ShowsOwnRows(r)'
      BY <1>1, <2>1, WriterRowsStay
    <3>2. KnowsOverwrites(r)'
      BY <1>1, <2>1 DEF WholeInv, KnowsOverwrites, WriterCommit, Journaled
    <3> QED  BY <3>1, <3>2
  <2>2. ASSUME NEW s \in Restores, StepOf(s)
        PROVE  ShowsOwnRows(r)' /\ KnowsOverwrites(r)'
    <3>1. s = r
      BY DEF SingleRestore
    <3> QED  BY <1>1, <2>2, <3>1, OwnRowsStay, KnowledgeStays
  <2> QED  BY <1>1, <2>1, <2>2, NextSteps
<1>2. ASSUME WholeInv, [Next]_vars PROVE CompletedInv'
  BY <1>0, <1>2, NextCompletedInv DEF WholeInv
<1>3. ASSUME WholeInv, UNCHANGED vars PROVE WholeInv'
  <2>1. \A r \in Restores : ShowsOwnRows(r)' /\ KnowsOverwrites(r)'
    BY <1>3 DEF WholeInv, ShowsOwnRows, KnowsOverwrites, Journaled, LatestVersion, vars
  <2> QED  BY <1>2, <1>3, <2>1 DEF WholeInv
<1> QED  BY <1>1, <1>2, <1>3 DEF WholeInv

LEMMA WholeInvHolds ==
    ASSUME SingleRestore
    PROVE  WholeInv => RestoreIsWhole
<1> SUFFICES ASSUME WholeInv PROVE AllOrNothing
  BY CompletedInvHolds DEF WholeInv, RestoreIsWhole
<1> SUFFICES ASSUME \A r \in Restores : /\ proc[r].pc \in {"new", "exited"}
                                        /\ journal[r].started => journal[r].closed # "open"
                                        /\ journal[r].skipped = {}
             PROVE  \A t, u \in Tables : \A r \in Restores :
                       Restored(r) \in Last(table[t]) => Restored(r) \in Last(table[u])
  BY DEF AllOrNothing, Origin
<1> TAKE t, u \in Tables
<1> TAKE r \in Restores
<1>1. /\ ShowsOwnRows(r) /\ KnowsOverwrites(r) /\ RowsInOrder(r) /\ UndoneIsPartial(r)
      /\ journal[r].closed \in {"open", "completed", "rolled_back"}
      /\ landed[r] \in SUBSET Tables
  BY ProcFields DEF WholeInv, CompletedInv, TypeInv, TypeOK
<1>2. CASE journal[r].closed = "completed"
  <2>1. landed[r] = Tables /\ undone[r] = {}
    BY <1>1, <1>2 DEF RowsInOrder, UndoneIsPartial
  <2> QED  BY <1>1, <2>1 DEF ShowsOwnRows
<1>3. CASE journal[r].closed = "rolled_back"
  <2>1. landed[r] \subseteq undone[r]
    BY <1>1, <1>3 DEF KnowsOverwrites
  <2> QED  BY <1>1, <2>1 DEF ShowsOwnRows
<1>4. CASE journal[r].closed = "open"
  <2>1. landed[r] = {}
    BY <1>1, <1>4 DEF KnowsOverwrites
  <2> QED  BY <1>1, <2>1 DEF ShowsOwnRows
<1> QED  BY <1>1, <1>2, <1>3, <1>4

\* One restore of any number of tables, among any number of other writers and
\* under mendable faults: a failed overwrite, rollback or recovery, a crash between
\* journaled steps, a table whose version or row is not written down.  When it is
\* over and nothing was left to the operator, every table is of it or none is; and
\* if the journal calls it completed, every table is.  Were a rollback to fail that
\* began for want of a row, the table without one would be lost sight of: a
\* recovery rolls back the journaled tables only.
THEOREM SingleRestoreIsWhole ==
    ASSUME MendableFaults, SingleRestore
    PROVE  Spec => []RestoreIsWhole
  BY InitWholeInv, NextWholeInv, WholeInvHolds, PTL DEF Spec
===============================================================================
