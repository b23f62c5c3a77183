----------------------------- MODULE Provisioning ------------------------------
(***************************************************************************)
(* memory.schema: the processes that open one memory base create its       *)
(* tables, migrate them, and turn the search indexes on, once.             *)
(*                                                                         *)
(* Every statement is one step; one that another process's commit beats    *)
(* may be refused and is then run again.  A process may die at any step,   *)
(* and the maintenance call that rebuilds the indexes is such a process.   *)
(***************************************************************************)
EXTENDS Naturals

CONSTANTS
    Stores,           \* processes
    SpecCount,         \* tables of the group
    MaxDdlRetries,     \* with_retry's max_retries
    MaxProvisionFaults \* bound: crashes and refused statements

ASSUME ProvisionAssumption ==
    SpecCount \in Nat \ {0} /\ MaxDdlRetries \in Nat /\ MaxProvisionFaults \in Nat

VARIABLES
    tables,       \* per spec: [columns, cdf, index, version]; no columns: absent
    marked,       \* the provisioned marker of the first table
    openers,      \* per process: [at, spec, missing, failures, tries, seen]
    rebuilt,      \* rebuild_search_indexes has been called
    provisionFaults

provVars == <<tables, marked, openers, rebuilt, provisionFaults>>

Specs == 1..SpecCount
Columns == {"first", "added"}   \* of this version; the older one has the first
Table(columns, cdf) == [columns |-> columns, cdf |-> cdf, index |-> FALSE, version |-> 0]
Closed == [at |-> "off", spec |-> 1, missing |-> {}, failures |-> FALSE, tries |-> 0, seen |-> 0]
Opening == {"create", "look", "add", "cdf", "alter"}
OpenPlaces == Opening \cup {"off", "check", "drop", "enable", "mark", "ready", "failed"}

ProvisionTypeOK ==
    /\ \A s \in Specs : /\ tables[s].columns \subseteq Columns /\ tables[s].cdf \in BOOLEAN
                        /\ tables[s].index \in BOOLEAN /\ tables[s].version \in Nat
    /\ marked \in BOOLEAN /\ rebuilt \in BOOLEAN /\ provisionFaults \in 0..MaxProvisionFaults
    /\ \A p \in Stores : openers[p].at \in OpenPlaces /\ openers[p].spec \in Specs
                          /\ openers[p].tries \in 0..MaxDdlRetries

ProvisionInit ==
    /\ tables \in [Specs -> {Table({}, FALSE), Table({"first"}, FALSE), Table({"first"}, TRUE)}]
    /\ marked = FALSE
    /\ openers = [p \in Stores |-> Closed]
    /\ rebuilt = FALSE
    /\ provisionFaults = 0

-----------------------------------------------------------------------------
At(p, place) == openers[p].at = place
Of(p) == tables[openers[p].spec]

\* The process goes to a place, having seen the table as it now is.
Goto(p, place) ==
    openers' = [openers EXCEPT ![p].at = place, ![p].tries = 0,
                               ![p].seen = tables'[openers[p].spec].version]

Changed(p, table) == tables' = [tables EXCEPT ![openers[p].spec] = [table EXCEPT !.version = @ + 1]]

\* To the same place of the next table, or to what follows the last.
NextTable(p, place, after) ==
    IF openers[p].spec = SpecCount
    THEN openers' = [openers EXCEPT ![p].at = after, ![p].spec = 1, ![p].tries = 0]
    ELSE openers' = [openers EXCEPT ![p].at = place, ![p].spec = @ + 1, ![p].tries = 0,
                                    ![p].seen = tables'[openers[p].spec + 1].version]

Open(p) ==
    /\ At(p, "off")
    /\ openers' = [openers EXCEPT ![p] = [Closed EXCEPT !.at = "create", !.seen = tables[1].version]]
    /\ UNCHANGED <<tables, marked, rebuilt, provisionFaults>>

\* CREATE TABLE IF NOT EXISTS
Create(p) ==
    /\ At(p, "create")
    /\ IF Of(p).columns = {} THEN Changed(p, [Of(p) EXCEPT !.columns = Columns, !.cdf = TRUE])
       ELSE UNCHANGED tables
    /\ Goto(p, "look")
    /\ UNCHANGED <<marked, rebuilt, provisionFaults>>

\* Mutant: a table that is there is taken to be this version's.
NothingMissing(p) == {}

Missing(p) == Columns \ Of(p).columns

\* _add_missing_columns reads the table, and alters it in a statement of its own.
Look(p) ==
    /\ At(p, "look")
    /\ UNCHANGED <<tables, marked, rebuilt, provisionFaults>>
    /\ openers' = [openers EXCEPT ![p].at = IF Missing(p) = {} THEN "cdf" ELSE "add",
                                  ![p].missing = Missing(p), ![p].seen = Of(p).version]

\* ADD COLUMNS has no IF NOT EXISTS: a column that is there is an error, and
\* not one that with_retry retries.
Add(p) ==
    /\ At(p, "add")
    /\ IF openers[p].missing \cap Of(p).columns = {}
       THEN Changed(p, [Of(p) EXCEPT !.columns = @ \cup openers[p].missing]) /\ Goto(p, "cdf")
       ELSE UNCHANGED tables /\ Goto(p, "failed")
    /\ UNCHANGED <<marked, rebuilt, provisionFaults>>

ReadCdf(p) ==
    /\ At(p, "cdf")
    /\ UNCHANGED <<tables, marked, rebuilt, provisionFaults>>
    /\ IF Of(p).cdf THEN NextTable(p, "create", "check") ELSE Goto(p, "alter")

AlterCdf(p) ==
    /\ At(p, "alter")
    /\ Changed(p, [Of(p) EXCEPT !.cdf = TRUE])
    /\ NextTable(p, "create", "check")
    /\ UNCHANGED <<marked, rebuilt, provisionFaults>>

\* A DDL statement refused for another's commit is run again, as it was.
StatementRefused(p) ==
    /\ openers[p].at \in {"create", "add", "alter"}
    /\ Of(p).version # openers[p].seen
    /\ IF openers[p].tries = MaxDdlRetries
       THEN openers' = [openers EXCEPT ![p].at = "failed"]
       ELSE openers' = [openers EXCEPT ![p].tries = @ + 1, ![p].seen = Of(p).version]
    /\ UNCHANGED <<tables, marked, rebuilt, provisionFaults>>

-----------------------------------------------------------------------------
(* provision_databricks, rebuild_search_indexes *)

Check(p) ==
    /\ At(p, "check")
    /\ openers' = [openers EXCEPT ![p].at = IF marked THEN "ready" ELSE "enable"]
    /\ UNCHANGED <<tables, marked, rebuilt, provisionFaults>>

\* "the marker is set only after a run with no failures"
AfterEnable(failures) == IF failures THEN "ready" ELSE "mark"

\* Predictive optimization and the index of one table; a failure is collected.
Enable(p) ==
    /\ At(p, "enable")
    /\ \/ /\ tables' = [tables EXCEPT ![openers[p].spec].index = TRUE]
          /\ NextTable(p, "enable", AfterEnable(openers[p].failures))
          /\ UNCHANGED provisionFaults
       \/ /\ provisionFaults < MaxProvisionFaults
          /\ provisionFaults' = provisionFaults + 1
          /\ UNCHANGED tables
          /\ IF openers[p].spec = SpecCount
             THEN openers' = [openers EXCEPT ![p].at = AfterEnable(TRUE), ![p].spec = 1, ![p].failures = TRUE]
             ELSE openers' = [openers EXCEPT ![p].spec = @ + 1, ![p].failures = TRUE]
    /\ UNCHANGED <<marked, rebuilt>>

Mark(p) ==
    /\ At(p, "mark")
    /\ marked' = TRUE
    /\ openers' = [openers EXCEPT ![p].at = "ready"]
    /\ UNCHANGED <<tables, rebuilt, provisionFaults>>

\* rebuild_search_indexes: every index is dropped, then the setup forced.
Rebuild(p) ==
    /\ At(p, "off") /\ \A s \in Specs : tables[s].columns # {}
    /\ openers' = [openers EXCEPT ![p] = [Closed EXCEPT !.at = "drop"]]
    /\ rebuilt' = TRUE
    /\ UNCHANGED <<tables, marked, provisionFaults>>

Drop(p) ==
    /\ At(p, "drop")
    /\ tables' = [tables EXCEPT ![openers[p].spec].index = FALSE]
    /\ NextTable(p, "drop", "enable")
    /\ UNCHANGED <<marked, rebuilt, provisionFaults>>

\* The process dies, or closes: what it knew is gone.
Die(p) ==
    /\ openers[p].at # "off"
    /\ IF openers[p].at \in {"ready", "failed"} THEN UNCHANGED provisionFaults
       ELSE provisionFaults < MaxProvisionFaults /\ provisionFaults' = provisionFaults + 1
    /\ openers' = [openers EXCEPT ![p] = Closed]
    /\ UNCHANGED <<tables, marked, rebuilt>>

ProvisionNext ==
    \E p \in Stores :
        \/ Open(p) \/ Create(p) \/ Look(p) \/ Add(p) \/ ReadCdf(p) \/ AlterCdf(p) \/ StatementRefused(p)
        \/ Check(p) \/ Enable(p) \/ Mark(p) \/ Rebuild(p) \/ Drop(p) \/ Die(p)

ProvisionSpec == ProvisionInit /\ [][ProvisionNext]_provVars

-----------------------------------------------------------------------------
(* A process that goes past ensure_tables has the tables of its version,
   whichever process created or altered them, and however they began. *)
OpenedMeansMigrated ==
    \A p \in Stores :
        At(p, "check") => \A s \in Specs : tables[s].columns = Columns /\ tables[s].cdf

(* "so an incomplete setup is retried by the next process": the marker stands
   for the indexes of every table, as long as nobody rebuilds them. *)
MarkerIsEarned == marked /\ ~rebuilt => \A s \in Specs : tables[s].index

(* Violated: rebuild_search_indexes drops the indexes under the marker. *)
MarkerIsTrue == (\A p \in Stores : At(p, "off")) => (marked => \A s \in Specs : tables[s].index)

(* Violated.  "retrying a lost create race or a concurrent metadata/protocol
   change -- what workers starting together hit" (_ddl): none of them fails. *)
StartTogether == \A p \in Stores : ~At(p, "failed")

(* Both: what an opened store relies on is there. *)
OpenedIsProvisioned == OpenedMeansMigrated /\ MarkerIsEarned
=============================================================================
