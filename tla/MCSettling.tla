------------------------------ MODULE MCSettling ------------------------------
(***************************************************************************)
(* The components with work that must come to an end, each by itself:      *)
(* settling names the one a behaviour is of, and the others stand still.   *)
(*   restore   a restore whose overwrites, rollbacks and recoveries fail   *)
(*             again and again, or die                                     *)
(*   once      a restore any one statement of which fails, reads of        *)
(*             versions and rows of the journal included                   *)
(*   history   the chunk history and its archive                           *)
(*   calls     the requests to the model                                   *)
(***************************************************************************)
EXTENDS RestoreJournal, ChunkHistory, ModelCalls

CONSTANT OnceFaults   \* Faults of the restore that meets one

VARIABLE settling

Once == INSTANCE RestoreJournal WITH MaxFaults <- 1, Faults <- OnceFaults

SettlingInit ==
    /\ settling \in {"restore", "once", "history", "calls"}
    /\ Init /\ HistoryInit /\ CallsInit
    /\ settling # "calls" => strict /\ noSchema

SettlingNext ==
    /\ UNCHANGED settling
    /\ \/ settling = "restore" /\ Next /\ UNCHANGED <<historyVars, callVars>>
       \/ settling = "once" /\ Once!Next /\ UNCHANGED <<historyVars, callVars>>
       \/ settling = "history" /\ HistoryNext /\ UNCHANGED <<vars, callVars>>
       \/ settling = "calls" /\ CallsNext /\ UNCHANGED <<vars, historyVars>>

SettlingSpec ==
    /\ SettlingInit /\ [][SettlingNext]_<<settling, vars, historyVars, callVars>>
    /\ settling = "restore" => Fairness
    /\ settling = "once" => Once!Fairness
    /\ settling = "history" => HistoryFairness
    /\ settling = "calls" => CallsFairness

(* What is begun comes to an end: a restore that reached the journal is
   closed, an interrupted archive run by a rerun, a request by an answer or
   an error. *)
OperationsEnd == RestoreSettles /\ RerunCompletes /\ CallEnds
===============================================================================
