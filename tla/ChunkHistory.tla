----------------------------- MODULE ChunkHistory -----------------------------
(***************************************************************************)
(* The record of every attempt at one work item: item_attempts and         *)
(* chunk_conversions rows, written by record_attempt and flush, read back  *)
(* joined, and moved to archive tables by archive.  Every statement is a   *)
(* Delta commit of its own; an INSERT may raise although it landed, and is *)
(* re-sent after looking up what is there; a process that writes and one   *)
(* that archives are not coordinated.                                      *)
(*                                                                         *)
(* An attempt is named by its place in the order of creation.              *)
(***************************************************************************)
EXTENDS Naturals, FiniteSets, FiniteSetsExt

CONSTANTS
    MaxAttempts,       \* bound: attempts at the item
    InsertRetries,     \* max_write_retries
    MaxHistoryFaults   \* bound: statements that raise

ASSUME HistoryAssumption == {MaxAttempts, InsertRetries, MaxHistoryFaults} \subseteq Nat

Attempts == 1..MaxAttempts
TableKinds == {"attempts", "conversions"}   \* in the order they are written

VARIABLES
    made,          \* attempts made so far
    final,         \* the accepted ones (is_final)
    buffer,        \* recorded and not yet written
    rows,          \* rows[s][a]: rows of attempt a in active table s
    archived,      \* archived[s]: attempts with rows in archive table s
    writing,       \* the flush under way
    archiving,     \* the archive run under way
    historyFaults,
    written,       \* history: attempts both of whose INSERTs landed
    halfWritten,   \* history: some flush landed one of its INSERTs only
    historyRaced   \* history: an archive run chose what to take while a flush stood
                   \* between its two INSERTs

historyVars == <<made, final, buffer, rows, archived, writing, archiving,
                 historyFaults, written, halfWritten, historyRaced>>

NotWriting   == [at |-> "idle"]
NotArchiving == [at |-> "idle", ids |-> {}]

HistoryTypeOK ==
    /\ made \in 0..MaxAttempts
    /\ final \cup buffer \cup written \subseteq 1..made
    /\ rows \in [TableKinds -> [Attempts -> 0..2]]
    /\ archived \in [TableKinds -> SUBSET Attempts]
    /\ writing.at \in {"idle", "insert", "lookup"}
    /\ archiving.at \in {"idle", "copy", "delete"}
    /\ historyFaults \in 0..MaxHistoryFaults
    /\ halfWritten \in BOOLEAN /\ historyRaced \in BOOLEAN

HistoryInit ==
    /\ made = 0 /\ final = {} /\ buffer = {} /\ written = {}
    /\ rows = [s \in TableKinds |-> [a \in Attempts |-> 0]]
    /\ archived = [s \in TableKinds |-> {}]
    /\ writing = NotWriting /\ archiving = NotArchiving
    /\ historyFaults = 0 /\ halfWritten = FALSE /\ historyRaced = FALSE

Active(s) == {a \in Attempts : rows[s][a] > 0}

\* record_attempt: the rejected attempts of an item are buffered and written
\* with its final one, or by _flush_chunk_history when the item fails.
RecordAttempt(isFinal) ==
    /\ writing.at = "idle" /\ made < MaxAttempts
    /\ made' = made + 1
    /\ final' = IF isFinal THEN final \cup {made + 1} ELSE final
    /\ buffer' = buffer \cup {made + 1}
    /\ UNCHANGED <<rows, archived, archiving, writing, historyFaults, written,
                   halfWritten, historyRaced>>

\* flush: the buffer is emptied before anything is written.  The MERGE of the
\* chunks' sources, idempotent and retried, comes first; if it raises nothing is.
Flush ==
    /\ writing.at = "idle" /\ buffer # {}
    /\ buffer' = {}
    /\ \/ /\ writing' = [at |-> "insert", table |-> "attempts", all |-> buffer,
                         todo |-> buffer, tries |-> 0]
          /\ UNCHANGED historyFaults
       \/ /\ historyFaults < MaxHistoryFaults
          /\ historyFaults' = historyFaults + 1
          /\ UNCHANGED writing
    /\ UNCHANGED <<made, final, rows, archived, archiving, written, halfWritten,
                   historyRaced>>

Inserted(w) ==
    [rows EXCEPT ![w.table] = [a \in Attempts |-> IF a \in w.todo THEN @[a] + 1 ELSE @[a]]]

\* An INSERT is done: the conversions follow the attempts.
Landed(w) ==
    IF w.table = "attempts"
    THEN /\ writing' = [w EXCEPT !.at = "insert", !.table = "conversions",
                                 !.todo = w.all, !.tries = 0]
         /\ UNCHANGED written
    ELSE /\ writing' = NotWriting
         /\ written' = written \cup w.all

InsertRows ==
    /\ writing.at = "insert"
    /\ rows' = Inserted(writing)
    /\ Landed(writing)
    /\ UNCHANGED <<made, final, buffer, archived, archiving, historyFaults,
                   halfWritten, historyRaced>>

\* The INSERT raises, its commit landed or not.
InsertRaises ==
    /\ writing.at = "insert" /\ historyFaults < MaxHistoryFaults
    /\ historyFaults' = historyFaults + 1
    /\ rows' \in {rows, Inserted(writing)}
    /\ writing' = [writing EXCEPT !.at = "lookup"]
    /\ UNCHANGED <<made, final, buffer, archived, archiving, written, halfWritten,
                   historyRaced>>

\* What of the rows is there is not sent again; the rest is while the error is
\* a retryable conflict and tries are left, else the error is raised.
InsertLookup ==
    LET absent == writing.todo \ Active(writing.table)
    IN  /\ writing.at = "lookup"
        /\ \/ /\ absent = {}
              /\ Landed(writing)
              /\ UNCHANGED halfWritten
           \/ /\ absent # {} /\ writing.tries < InsertRetries
              /\ writing' = [writing EXCEPT !.at = "insert", !.todo = absent,
                                            !.tries = @ + 1]
              /\ UNCHANGED <<written, halfWritten>>
           \/ /\ absent # {}
              /\ writing' = NotWriting
              /\ halfWritten' = (halfWritten \/ writing.table = "conversions")
              /\ UNCHANGED written
        /\ UNCHANGED <<made, final, buffer, rows, archived, archiving,
                       historyFaults, historyRaced>>

\* Mutant: the newest attempt, accepted or not.
NewestAttempt == {a \in Active("attempts") : a = Max(Active("attempts"))}

\* _current_ids: the newest accepted attempt of the item that has a row.
CurrentIds == LET accepted == final \cap Active("attempts")
              IN  {a \in accepted : a = Max(accepted)}

\* archive: what is older than before_ts (an attempt number), but never the
\* current one (keep_current, or superseded_only).
ArchiveBegin ==
    /\ archiving.at = "idle"
    /\ \E before \in 2..(MaxAttempts + 1) :
        LET ids == {a \in Active("attempts") : a < before} \ CurrentIds
        IN  /\ ids # {}
            /\ archiving' = [at |-> "copy", table |-> "attempts", ids |-> ids]
            /\ historyRaced' = (historyRaced \/
                   (writing.at # "idle" /\ writing.all \cap Active("attempts") # {}))
    /\ UNCHANGED <<made, final, buffer, rows, archived, writing, historyFaults,
                   written, halfWritten>>

\* MERGE into the archive what the active table holds, insert only.
ArchiveCopy ==
    LET s == archiving.table
    IN  /\ archiving.at = "copy"
        /\ archived' = [archived EXCEPT ![s] = @ \cup (archiving.ids \cap Active(s))]
        /\ archiving' = IF s = "attempts"
                        THEN [archiving EXCEPT !.table = "conversions"]
                        ELSE [archiving EXCEPT !.at = "delete"]
        /\ UNCHANGED <<made, final, buffer, rows, writing, historyFaults, written,
                       halfWritten, historyRaced>>

\* Both copies landed: delete the conversions, then the attempts.
ArchiveDelete ==
    LET s == archiving.table
    IN  /\ archiving.at = "delete"
        /\ rows' = [rows EXCEPT ![s] =
               [a \in Attempts |-> IF a \in archiving.ids THEN 0 ELSE @[a]]]
        /\ archiving' = IF s = "conversions"
                        THEN [archiving EXCEPT !.table = "attempts"]
                        ELSE NotArchiving
        /\ UNCHANGED <<made, final, buffer, archived, writing, historyFaults,
                       written, halfWritten, historyRaced>>

\* A statement of the archive run raises, or its process dies.
ArchiveRaises ==
    /\ archiving.at # "idle" /\ historyFaults < MaxHistoryFaults
    /\ historyFaults' = historyFaults + 1
    /\ archiving' = NotArchiving
    /\ UNCHANGED <<made, final, buffer, rows, archived, writing, written,
                   halfWritten, historyRaced>>

ArchiveStep == ArchiveCopy \/ ArchiveDelete
\* The rerun that takes everything stale.
ArchiveRerun == ArchiveBegin /\ Active("attempts") \ CurrentIds \subseteq archiving'.ids

HistoryNext ==
    \/ \E isFinal \in BOOLEAN : RecordAttempt(isFinal)
    \/ Flush \/ InsertRows \/ InsertRaises \/ InsertLookup
    \/ ArchiveBegin \/ ArchiveCopy \/ ArchiveDelete \/ ArchiveRaises

HistorySpec == HistoryInit /\ [][HistoryNext]_historyVars

HistoryFairness == WF_historyVars(ArchiveStep) /\ WF_historyVars(ArchiveRerun)

-----------------------------------------------------------------------------
\* What an attempt's rows join to, in the active tables and in the archive.
Shown    == Active("attempts") \cap Active("conversions")
ShownOld == archived["attempts"] \cap archived["conversions"]

(* An attempt is recorded once: an INSERT whose error hides a commit is not
   sent again, so a join of attempts and conversions shows no row twice. *)
AttemptsOnce ==
    ~historyRaced => \A s \in TableKinds, a \in Attempts : rows[s][a] <= 1

(* An archive run hides nothing, wherever it is interrupted: an attempt that
   was written is shown, active or archived. *)
ArchiveHidesNothing == ~historyRaced => written \subseteq Shown \cup ShownOld

(* The answer that stands stays in the active tables: of the attempts that are
   whole, the newest accepted one is never archived, if no flush was cut short
   between its two INSERTs. *)
StandingAnswerKept ==
    ~historyRaced /\ ~halfWritten /\ written \cap final # {} =>
        Max(written \cap final) \in Shown

(* An interrupted archive run leaves duplicates at most, and a rerun completes
   it: conversions that are archived do not stay active for ever. *)
RerunCompletes ==
    \A a \in Attempts :
        (a \in Active("conversions") \cap archived["conversions"] /\ ~historyRaced)
            ~> (a \notin Active("conversions") \/ historyRaced)

(* All three, of the tables as flushes and archive runs leave them. *)
HistoryIsWhole == AttemptsOnce /\ ArchiveHidesNothing /\ StandingAnswerKept
=============================================================================
