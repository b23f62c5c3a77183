---------------------------- MODULE RestoreJournal ----------------------------
(***************************************************************************)
(* KVStore.restore on Delta tables: _DeltaBackend.replace_all and          *)
(* rollback_restore (src/memory/store.py), and the recovery of interrupted *)
(* runs, DeltaMemoryMaintenance.recover_restore (src/memory/operations.py).*)
(*                                                                         *)
(* Delta commits one table at a time, so a restore is a sequence of        *)
(* commits kept together by rows of a journal table.  Other writers commit *)
(* to the same tables at any moment.                                       *)
(*                                                                         *)
(* A table is the sequence of its versions; a version is the set of        *)
(* commits whose rows it holds.  A restore's INSERT OVERWRITE leaves only  *)
(* its own rows.  RESTORE TABLE ... TO VERSION AS OF adds a version that   *)
(* repeats an old one.                                                     *)
(***************************************************************************)
EXTENDS Naturals, Sequences, FiniteSets, SequencesExt

CONSTANTS
    T,          \* tables overwritten by a restore: KV_TABLES, in their order
    Restores,   \* restore runs, one process each
    MaxWrites,  \* bound: commits of other writers
    MaxFaults,  \* bound: statements that fail and processes that die
    Faults      \* which faults may happen: see FaultKinds

Tables == 1..T

\*   overwrite  INSERT OVERWRITE raises and did not commit
\*   late       a statement raises, yet its commit landed
\*   version    reading the version a table was left at raises
\*   journal    a journal INSERT raises and did not commit
\*   restore    RESTORE TABLE raises and did not commit
\*   crash      the process dies while the journal tells all it overwrote
\*   gap        the process dies with an overwrite not journaled yet
\*   race       others commit between an overwrite and the read of its
\*              version, or between the version check and its RESTORE
FaultKinds == {"overwrite", "late", "version", "journal", "restore",
               "crash", "gap", "race"}

ASSUME ConstantsAssumption ==
    /\ T \in Nat \ {0}
    /\ IsFiniteSet(Restores) /\ Restores \subseteq Nat
    /\ MaxWrites \in Nat /\ MaxFaults \in Nat
    /\ Faults \subseteq FaultKinds

Commits    == ({"write"} \X (0..MaxWrites)) \cup ({"restore"} \X Restores)
Write(n)   == <<"write", n>>
Restored(r) == <<"restore", r>>

Versions == Nat
Unknown  == 0    \* versions count from 1; 0 is "no version"

VARIABLES
    table,    \* table[t]: its versions, the current one last
    journal,  \* journal[r]: what the journal's rows say of restore r
    proc,     \* proc[r]: the process of restore r, or its recovery
    landed,   \* history: landed[r], tables on which r's overwrite committed
    undone,   \* history: undone[r], tables on which r's RESTORE committed
    writes,   \* commits of other writers so far
    faults    \* faults so far

vars == <<table, journal, proc, landed, undone, writes, faults>>

Journal == [started : BOOLEAN,               \* a "started" row per table
            post    : [Tables -> Versions],  \* "overwritten" rows
            skipped : SUBSET Tables,         \* "rollback_skipped" rows
            closed  : {"open", "completed", "rolled_back"}]

Live == {"versions", "started", "overwrite", "post", "overwritten",
         "complete", "rollback", "restoreTable"}

Proc == [pc     : Live \cup {"new", "exited"},
         cur    : 1..T,                      \* the table at hand
         pre    : [Tables -> Versions],      \* versions before the run
         over   : Seq(Tables),               \* keys of "post" left to undo
         post   : [Tables -> Versions],      \* versions it left them at
         manual : SUBSET Tables]             \* left to the operator

\* Every variable is of its kind.
TypeOK ==
    /\ table \in [Tables -> Seq(SUBSET Commits)]
    /\ journal \in [Restores -> Journal]
    /\ proc \in [Restores -> Proc]
    /\ landed \in [Restores -> SUBSET Tables]
    /\ undone \in [Restores -> SUBSET Tables]
    /\ writes \in 0..MaxWrites
    /\ faults \in 0..MaxFaults

NoVersions == [t \in Tables |-> Unknown]

Init ==
    /\ table = [t \in Tables |-> << {Write(0)} >>]
    /\ journal = [r \in Restores |->
                    [started |-> FALSE, post |-> NoVersions,
                     skipped |-> {}, closed |-> "open"]]
    /\ proc = [r \in Restores |->
                 [pc |-> "new", cur |-> 1, pre |-> NoVersions, over |-> << >>,
                  post |-> NoVersions, manual |-> {}]]
    /\ landed = [r \in Restores |-> {}]
    /\ undone = [r \in Restores |-> {}]
    /\ writes = 0
    /\ faults = 0

\* _latest_version: the version DESCRIBE HISTORY lists first.
LatestVersion(t) == Len(table[t])

\* The tables the journal knows restore r to have overwritten.
Journaled(r) == {t \in Tables : journal[r].post[t] # Unknown}

\* Tables on which a foreign commit right now would be mistaken for r's own.
InWindow(r, t) ==
    /\ proc[r].cur = t
    /\ proc[r].pc \in {"post", "restoreTable"}

MayCommit(t, others) ==
    "race" \in Faults \/ \A r \in others : ~InWindow(r, t)

Fault(kind) ==
    /\ kind \in Faults
    /\ faults < MaxFaults
    /\ faults' = faults + 1

Goto(r, place) == proc' = [proc EXCEPT ![r].pc = place]

-----------------------------------------------------------------------------
(* The other writers of the store.                                         *)

WriterCommit(t) ==
    /\ writes < MaxWrites
    /\ MayCommit(t, Restores)
    /\ writes' = writes + 1
    /\ table' = [table EXCEPT ![t] = Append(@, Last(@) \cup {Write(writes')})]
    /\ UNCHANGED <<journal, proc, landed, undone, faults>>

-----------------------------------------------------------------------------
(* _DeltaBackend.replace_all                                               *)

BeginRestore(r) ==
    /\ proc[r].pc = "new"
    /\ Goto(r, "versions")
    /\ UNCHANGED <<table, journal, landed, undone, writes, faults>>

\* pre = {...}: one DESCRIBE HISTORY per table.
ReadPreVersion(r) ==
    LET t == proc[r].cur IN
    /\ proc[r].pc = "versions"
    /\ proc' = [proc EXCEPT ![r].pre[t] = LatestVersion(t),
                            ![r].cur = IF t = T THEN 1 ELSE t + 1,
                            ![r].pc = IF t = T THEN "started" ELSE "versions"]
    /\ UNCHANGED <<table, journal, landed, undone, writes, faults>>

\* The "started" rows, one INSERT.
JournalStarted(r) ==
    /\ proc[r].pc = "started"
    /\ journal' = [journal EXCEPT ![r].started = TRUE]
    /\ Goto(r, "overwrite")
    /\ UNCHANGED <<table, landed, undone, writes, faults>>

\* It raises before anything was touched: the caller sees the error.
JournalStartedRaises(r) ==
    /\ proc[r].pc = "started"
    /\ \/ Fault("journal") /\ UNCHANGED journal
       \/ Fault("late") /\ journal' = [journal EXCEPT ![r].started = TRUE]
    /\ Goto(r, "exited")
    /\ UNCHANGED <<table, landed, undone, writes>>

Overwriting(r, t) ==
    /\ MayCommit(t, Restores \ {r})
    /\ table' = [table EXCEPT ![t] = Append(@, {Restored(r)})]
    /\ landed' = [landed EXCEPT ![r] = @ \cup {t}]

\* INSERT OVERWRITE of the table at hand; its key enters post at once.
Overwrite(r) ==
    LET t == proc[r].cur IN
    /\ proc[r].pc = "overwrite"
    /\ Overwriting(r, t)
    /\ proc' = [proc EXCEPT ![r].over = Append(@, t), ![r].pc = "post"]
    /\ UNCHANGED <<journal, undone, writes, faults>>

\* INSERT OVERWRITE raises: roll back what post holds.
OverwriteRaises(r) ==
    /\ proc[r].pc = "overwrite"
    /\ \/ Fault("overwrite") /\ UNCHANGED <<table, landed>>
       \/ Fault("late") /\ Overwriting(r, proc[r].cur)
    /\ Goto(r, "rollback")
    /\ UNCHANGED <<journal, undone, writes>>

ReadPostVersion(r) ==
    LET t == proc[r].cur IN
    /\ proc[r].pc = "post"
    /\ proc' = [proc EXCEPT ![r].post[t] = LatestVersion(t), ![r].pc = "overwritten"]
    /\ UNCHANGED <<table, journal, landed, undone, writes, faults>>

\* The table stays in post with an unknown version.
ReadPostVersionRaises(r) ==
    /\ proc[r].pc = "post"
    /\ Fault("version")
    /\ Goto(r, "rollback")
    /\ UNCHANGED <<table, journal, landed, undone, writes>>

JournalRow(r, t) ==
    journal' = [journal EXCEPT ![r].post[t] = proc[r].post[t]]

\* The "overwritten" row; then the next table, or the end of the loop.
JournalOverwritten(r) ==
    LET t == proc[r].cur IN
    /\ proc[r].pc = "overwritten"
    /\ JournalRow(r, t)
    /\ proc' = [proc EXCEPT ![r].cur = IF t = T THEN t ELSE t + 1,
                            ![r].pc = IF t = T THEN "complete" ELSE "overwrite"]
    /\ UNCHANGED <<table, landed, undone, writes, faults>>

JournalOverwrittenRaises(r) ==
    /\ proc[r].pc = "overwritten"
    /\ \/ Fault("journal") /\ UNCHANGED journal
       \/ Fault("late") /\ JournalRow(r, proc[r].cur)
    /\ Goto(r, "rollback")
    /\ UNCHANGED <<table, landed, undone, writes>>

\* The "completed" row, retried; if it never lands the restore still
\* returns, and the run stays open.
JournalCompleted(r) ==
    /\ proc[r].pc = "complete"
    /\ \/ journal' = [journal EXCEPT ![r].closed = "completed"] /\ UNCHANGED faults
       \/ Fault("journal") /\ UNCHANGED journal
    /\ Goto(r, "exited")
    /\ UNCHANGED <<table, landed, undone, writes>>

-----------------------------------------------------------------------------
(* rollback_restore, by the restoring process or by its recovery           *)

\* Mutant: the table's version is not compared.
CheckTableNoVersion(r) ==
    LET t == Head(proc[r].over) IN
    /\ proc[r].pc = "rollback"
    /\ proc[r].over # << >>
    /\ proc' = [proc EXCEPT ![r].cur = t, ![r].pc = "restoreTable"]
    /\ UNCHANGED <<table, journal, landed, undone, writes, faults>>

\* current = latest version: the run's own, or somebody has committed since.
CheckTable(r) ==
    LET t == Head(proc[r].over)
        ours == proc[r].post[t] # Unknown /\ LatestVersion(t) = proc[r].post[t]
    IN
    /\ proc[r].pc = "rollback"
    /\ proc[r].over # << >>
    /\ proc' = IF ours
               THEN [proc EXCEPT ![r].cur = t, ![r].pc = "restoreTable"]
               ELSE [proc EXCEPT ![r].manual = @ \cup {t}, ![r].over = Tail(@)]
    /\ UNCHANGED <<table, journal, landed, undone, writes, faults>>

RollingBack(r, t) ==
    /\ MayCommit(t, Restores \ {r})
    /\ table' = [table EXCEPT ![t] = Append(@, @[proc[r].pre[t]])]
    /\ undone' = [undone EXCEPT ![r] = @ \cup {t}]

\* RESTORE TABLE ... TO VERSION AS OF pre[t].
RestoreTable(r) ==
    /\ proc[r].pc = "restoreTable"
    /\ RollingBack(r, proc[r].cur)
    /\ proc' = [proc EXCEPT ![r].over = Tail(@), ![r].pc = "rollback"]
    /\ UNCHANGED <<journal, landed, writes, faults>>

\* The rollback gives up: the run stays open in the journal.
RestoreTableRaises(r) ==
    /\ proc[r].pc = "restoreTable"
    /\ \/ Fault("restore") /\ UNCHANGED <<table, undone>>
       \/ Fault("late") /\ RollingBack(r, proc[r].cur)
    /\ Goto(r, "exited")
    /\ UNCHANGED <<journal, landed, writes>>

\* The "rollback_skipped" rows and the "rolled_back" row, one INSERT.
JournalRolledBack(r) ==
    /\ proc[r].pc = "rollback"
    /\ proc[r].over = << >>
    /\ \/ /\ journal' = [journal EXCEPT ![r].skipped = proc[r].manual,
                                        ![r].closed = "rolled_back"]
          /\ UNCHANGED faults
       \/ Fault("journal") /\ UNCHANGED journal
    /\ Goto(r, "exited")
    /\ UNCHANGED <<table, landed, undone, writes>>

\* The process dies at any point.
Crash(r) ==
    /\ proc[r].pc \in Live
    /\ Fault(IF landed[r] \subseteq Journaled(r) THEN "crash" ELSE "gap")
    /\ Goto(r, "exited")
    /\ UNCHANGED <<table, journal, landed, undone, writes>>

-----------------------------------------------------------------------------
(* recover_restore: an operator settles a run whose process is gone.       *)

\* Mutant: a run without "overwritten" rows is overlooked.
UnfinishedOverwritten(r) ==
    /\ Journaled(r) # {}
    /\ journal[r].closed = "open"
    /\ proc[r].pc = "exited"

\* unfinished_restores: it has rows, and none of them closes it.
Unfinished(r) ==
    /\ journal[r].started
    /\ journal[r].closed = "open"
    /\ proc[r].pc = "exited"

\* Mutant: some table overwritten is enough.
SettleCompletedSome(r) ==
    /\ Unfinished(r)
    /\ Journaled(r) # {}
    /\ journal' = [journal EXCEPT ![r].closed = "completed"]
    /\ UNCHANGED <<table, proc, landed, undone, writes, faults>>

\* settle_restore, every table overwritten: only the last row was lost.
SettleCompleted(r) ==
    /\ Unfinished(r)
    /\ Journaled(r) = Tables
    /\ journal' = [journal EXCEPT ![r].closed = "completed"]
    /\ UNCHANGED <<table, proc, landed, undone, writes, faults>>

\* settle_restore, otherwise: roll back from what the journal remembers.  The
\* version a table was left at is compared anew, so a table an earlier
\* attempt rolled back is found moved on.  The journal's rows come in any order.
SettleRollback(r) ==
    /\ Unfinished(r)
    /\ Journaled(r) # Tables
    /\ \E over \in SetToSeqs(Journaled(r)) :
          proc' = [proc EXCEPT ![r].over = over,
                               ![r].post = journal[r].post,
                               ![r].manual = {},
                               ![r].pc = "rollback"]
    /\ UNCHANGED <<table, journal, landed, undone, writes, faults>>

\* What restore r's process, or its recovery, does next unless it fails.
Progress(r) ==
    \/ ReadPreVersion(r) \/ JournalStarted(r) \/ Overwrite(r)
    \/ ReadPostVersion(r) \/ JournalOverwritten(r) \/ JournalCompleted(r)
    \/ CheckTable(r) \/ RestoreTable(r) \/ JournalRolledBack(r)

Settle(r) == SettleCompleted(r) \/ SettleRollback(r)

Next ==
    \/ \E t \in Tables : WriterCommit(t)
    \/ \E r \in Restores :
         \/ BeginRestore(r) \/ Progress(r) \/ Settle(r)
         \/ JournalStartedRaises(r) \/ OverwriteRaises(r)
         \/ ReadPostVersionRaises(r) \/ JournalOverwrittenRaises(r)
         \/ RestoreTableRaises(r) \/ Crash(r)

\* A live process goes on, and the operator does run recover_restore, as the
\* log line of every later open asks for.  Nothing obliges anybody to begin a
\* restore or to write.
Fairness == \A r \in Restores : WF_vars(Progress(r)) /\ WF_vars(Settle(r))

Spec == Init /\ [][Next]_vars /\ Fairness

-----------------------------------------------------------------------------
(* Properties.                                                             *)

\* Which restores' rows a table holds now.
Origin(t) == {r \in Restores : Restored(r) \in Last(table[t])}

\* A run the journal calls completed did overwrite every table, and neither
\* its own process nor a recovery took any of it back.
CompletedMeansAll ==
    \A r \in Restores :
        journal[r].closed = "completed" => landed[r] = Tables /\ undone[r] = {}

\* Once every run is over and closed, and no table was left to the operator,
\* the store is one whole: every table is of the same restore, or none is.
AllOrNothing ==
    (\A r \in Restores :
        /\ proc[r].pc \in {"new", "exited"}
        /\ journal[r].started => journal[r].closed # "open"
        /\ journal[r].skipped = {})
    => \A t, u \in Tables : Origin(t) = Origin(u)

\* A restore whose journal closed it as completed has overwritten every table,
\* and nobody took any of it back; and once it and its recoveries are over,
\* every table is of it or none is.
RestoreIsWhole == CompletedMeansAll /\ AllOrNothing

\* A rollback erases nothing but the run's own overwrite: what others
\* committed to the table since stays ("undoes only its own work").
ErasesOwnWork ==
    \A r \in Restores : \A t \in undone'[r] \ undone[r] :
        Last(table[t]) = {Restored(r)}

\* A restore that reached the journal is closed in the end, however it or
\* its recoveries fail on the way.
RestoreSettles ==
    \A r \in Restores : journal[r].started ~> (journal[r].closed # "open")
=============================================================================
