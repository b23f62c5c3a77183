---------------------------- MODULE MCSharedStore ----------------------------
(***************************************************************************)
(* What several processes do to one store, in one state graph, a part at a *)
(* time:                                                                   *)
(*   many      workers on one thread, a pruner, a change feed that answers *)
(*   one       a worker by itself, whose feed may fail and whose clock     *)
(*             goes on                                                     *)
(*   restores  two restores at once beside a writer, any statement of      *)
(*             which may fail, also after it committed                     *)
(***************************************************************************)
EXTENDS SharedThread

CONSTANTS Single, SingleTicks, SingleTurns,
          SharedTables, RivalRestores, MaxWrites, MaxFaults, RivalFaults

VARIABLES table, journal, proc, landed, undone, writes, faults, part

restoreVars == <<table, journal, proc, landed, undone, writes, faults>>

Alone == INSTANCE SharedThread
           WITH Workers <- {Single}, SyncFails <- TRUE,
                MaxTick <- SingleTicks, MaxTurns <- SingleTurns, MaxPrunes <- 0

Rivals == INSTANCE RestoreJournal
            WITH T <- SharedTables, Restores <- RivalRestores,
                 Faults <- RivalFaults

SharedInit ==
    /\ part \in {"many", "one", "restores"}
    /\ IF part = "one" THEN Alone!Init ELSE Init
    /\ Rivals!Init

SharedNext ==
    /\ UNCHANGED part
    /\ \/ part = "many" /\ Next /\ UNCHANGED restoreVars
       \/ part = "one" /\ Alone!Next /\ UNCHANGED restoreVars
       \/ part = "restores" /\ Rivals!Next /\ UNCHANGED vars

SharedSpec == SharedInit /\ [][SharedNext]_<<part, vars, restoreVars>>

\* With several workers, a prompt is as fresh as the sync before it.
ManyReadFresh == [][part = "many" => ReadsFresh]_<<part, vars>>

\* A single worker rolls back its rejected turn, all of it and nothing else.
OneRollsBackOwnTurn == [][part = "one" => Alone!RollsBackOwnTurn]_<<part, vars>>

\* Two restores at once undo their own overwrites only, never a commit of
\* the other's or of a writer that came after.
RivalsEraseOwnWork ==
    [][part = "restores" => Rivals!ErasesOwnWork]_<<part, restoreVars>>
===============================================================================
