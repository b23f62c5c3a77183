---------------------------- MODULE ConversionRun ----------------------------
(***************************************************************************)
(* Sweeps over the SharePoint request list: main._run_sharepoint takes the *)
(* outstanding rows and runs each through conversion.run.run_request.  A   *)
(* sweep is one launch of the program; several may overlap, none claims a  *)
(* row, and any of them may die.  SharePoint fails whenever it likes.  The *)
(* translation is one step here (PipelineRun models it), the cross         *)
(* reference and the dry run are left out, and two runs of one row do not  *)
(* begin within one second, so that each has a folder of its own.          *)
(***************************************************************************)
EXTENDS Naturals, Sequences, FiniteSets, SequencesExt

CONSTANTS
    Sweeps,        \* launches of the program
    MaxConvRows,   \* rows of the request list
    ConvScripts,   \* scripts an application has, numbered from 1
    MaxConvFaults  \* bound: failed calls, unreadable scripts, deaths

ASSUME ConversionAssumption == MaxConvRows \in Nat /\ MaxConvFaults \in Nat

Rows == 1..MaxConvRows
Verdicts == 0   \* what _upload_validation writes; scripts are numbered from 1

VARIABLES
    rowStatus,   \* rowStatus[r]: the Status column
    blockedRows, \* rows whose model is_accessible_model refuses
    validated,   \* rows with is_validation_required
    sweep,       \* sweep[s]: where the launch is
    runs,        \* runs[k]: the k-th run_request that got as far as its sources
    convFaults

convVars == <<rowStatus, blockedRows, validated, sweep, runs, convFaults>>

NotStarted == [at |-> "new", selected |-> << >>, todo |-> << >>, exit |-> 0, run |-> 0]

ConversionTypeOK ==
    /\ rowStatus \in [Rows -> {"Pending", "In Progress", "Completed", "Failed"}]
    /\ blockedRows \subseteq Rows /\ validated \subseteq Rows
    /\ \A s \in Sweeps :
          /\ sweep[s].at \in {"new", "next", "load", "translate", "upload", "ended", "dead"}
          /\ sweep[s].exit \in {0, 1} /\ sweep[s].run \in 0..Len(runs)
    /\ \A k \in DOMAIN runs : runs[k].row \in Rows /\ runs[k].sweep \in Sweeps
    /\ convFaults \in 0..MaxConvFaults

ConversionInit ==
    /\ rowStatus = [r \in Rows |-> "Pending"]
    /\ blockedRows \in SUBSET Rows /\ validated \in SUBSET Rows
    /\ sweep = [s \in Sweeps |-> NotStarted]
    /\ runs = << >>
    /\ convFaults = 0

\* Mutant: a row that is in progress is somebody's.
OutstandingIfIdle(r) == rowStatus[r] \notin {"Completed", "In Progress"}

\* is_pending: whatever is not marked done, a run that died included.
Outstanding(r) == rowStatus[r] # "Completed"

Fault == convFaults < MaxConvFaults /\ convFaults' = convFaults + 1

\* _set_status: a write that fails is reported and forgotten.
SetStatus(r, status) ==
    \/ rowStatus' = [rowStatus EXCEPT ![r] = status] /\ UNCHANGED convFaults
    \/ Fault /\ UNCHANGED rowStatus

Advances(s, step) == sweep' = [sweep EXCEPT ![s].at = step]

\* _failed, and the loop goes on to the next row.
RowFails(s) ==
    sweep' = [sweep EXCEPT ![s].at = "next", ![s].todo = Tail(@), ![s].exit = 1]

RowOf(s) == Head(sweep[s].todo)

\* The outstanding rows, in the order the list is read in, which Graph chooses.
StartSweep(s) ==
    /\ sweep[s].at = "new"
    /\ \E rows \in SetToSeqs({r \in Rows : Outstanding(r)}) :
           \/ /\ rows # << >>
              /\ sweep' = [sweep EXCEPT ![s] = [NotStarted EXCEPT
                                !.at = "next", !.selected = rows, !.todo = rows]]
              /\ UNCHANGED convFaults
           \/ /\ sweep' = [sweep EXCEPT ![s].at = "ended", ![s].exit = 1]
              /\ IF rows = << >> THEN UNCHANGED convFaults ELSE Fault
    /\ UNCHANGED <<rowStatus, blockedRows, validated, runs>>

TakeRow(s) ==
    /\ sweep[s].at = "next" /\ sweep[s].todo # << >>
    /\ IF RowOf(s) \in blockedRows THEN RowFails(s) ELSE Advances(s, "load")
    /\ UNCHANGED <<rowStatus, blockedRows, validated, runs, convFaults>>

\* The listing fails, or every script of it: the Status column is not touched.
LoadFails(s) ==
    /\ sweep[s].at = "load"
    /\ RowFails(s) /\ Fault
    /\ UNCHANGED <<rowStatus, blockedRows, validated, runs>>

Count(condition) == IF condition THEN 1 ELSE 0

\* A script that cannot be read is skipped; then the row is In Progress.
LoadSources(s) ==
    /\ sweep[s].at = "load"
    /\ \E loaded \in (SUBSET ConvScripts) \ {{}}, written \in BOOLEAN :
          /\ convFaults' = convFaults + Count(loaded # ConvScripts) + Count(~written)
          /\ convFaults' <= MaxConvFaults
          /\ runs' = Append(runs, [sweep |-> s, row |-> RowOf(s),
                                   todo |-> loaded \cup (IF RowOf(s) \in validated
                                                         THEN {Verdicts} ELSE {})])
          /\ rowStatus' = IF written THEN [rowStatus EXCEPT ![RowOf(s)] = "In Progress"]
                          ELSE rowStatus
    /\ sweep' = [sweep EXCEPT ![s].at = "translate", ![s].run = Len(runs')]
    /\ UNCHANGED <<blockedRows, validated>>

Translate(s) ==
    /\ sweep[s].at = "translate"
    /\ \/ Advances(s, "upload") /\ UNCHANGED <<rowStatus, convFaults>>
       \/ RowFails(s) /\ SetStatus(RowOf(s), "Failed")
    /\ UNCHANGED <<blockedRows, validated, runs>>

Left(s) == runs[sweep[s].run].todo

\* The scripts, then what belongs to the validation, one call each.
UploadOne(s) ==
    /\ sweep[s].at = "upload" /\ Left(s) # {}
    /\ \E f \in Left(s) :
          /\ f = Verdicts => Left(s) = {Verdicts}
          /\ runs' = [runs EXCEPT ![sweep[s].run].todo = @ \ {f}]
    /\ UNCHANGED <<rowStatus, blockedRows, validated, sweep, convFaults>>

UploadFails(s) ==
    /\ sweep[s].at = "upload" /\ Left(s) # {}
    /\ RowFails(s) /\ SetStatus(RowOf(s), "Failed")
    /\ UNCHANGED <<blockedRows, validated, runs>>

CloseRow(s) ==
    /\ sweep[s].at = "upload" /\ Left(s) = {}
    /\ SetStatus(RowOf(s), "Completed")
    /\ sweep' = [sweep EXCEPT ![s].at = "next", ![s].todo = Tail(@)]
    /\ UNCHANGED <<blockedRows, validated, runs>>

EndSweep(s) ==
    /\ sweep[s].at = "next" /\ sweep[s].todo = << >>
    /\ Advances(s, "ended")
    /\ UNCHANGED <<rowStatus, blockedRows, validated, runs, convFaults>>

\* The process dies, or an error that is no SharePointError leaves main.
SweepDies(s) ==
    /\ sweep[s].at \in {"next", "load", "translate", "upload"}
    /\ Advances(s, "dead") /\ Fault
    /\ UNCHANGED <<rowStatus, blockedRows, validated, runs>>

ConversionNext ==
    \E s \in Sweeps :
        \/ StartSweep(s) \/ TakeRow(s) \/ LoadFails(s) \/ LoadSources(s) \/ Translate(s)
        \/ UploadOne(s) \/ UploadFails(s) \/ CloseRow(s) \/ EndSweep(s) \/ SweepDies(s)

ConversionSpec == ConversionInit /\ [][ConversionNext]_convVars

-----------------------------------------------------------------------------
Delivered(k) == runs[k].todo = {}

(* No row falls out of the queue unconverted: as long as no run of it has
   uploaded everything it had to, the next sweep selects the row, whichever
   sweep died or failed over it, and whichever status write was lost. *)
UnconvertedIsOutstanding ==
    \A r \in Rows :
        (\A k \in DOMAIN runs : runs[k].row = r => ~Delivered(k)) => Outstanding(r)

(* A launch that exits with 0 has itself delivered every row it selected,
   whatever the sweeps beside it did to the same rows. *)
ExitTells ==
    \A s \in Sweeps :
        sweep[s].at = "ended" /\ sweep[s].exit = 0 =>
            \A i \in DOMAIN sweep[s].selected : \E k \in DOMAIN runs :
                /\ runs[k].sweep = s /\ runs[k].row = sweep[s].selected[i]
                /\ Delivered(k)

(* Both: the queue and the exit code say of a row what became of it. *)
RowsAreAccountedFor == UnconvertedIsOutstanding /\ ExitTells
=============================================================================
