------------------------------ MODULE SharePoint ------------------------------
(***************************************************************************)
(* One SharePointClient (app_config.sharepoint) used from several threads: *)
(* the loop and the worker it makes when first needed, the requests each   *)
(* operation sends to Graph, and the library they change.  A name is a     *)
(* number, a path the sequence of its names.  Graph is external: a request *)
(* does what the client's comments say of it, or fails, before it took     *)
(* effect or after.  Once the worker has a call it is not interrupted by   *)
(* another of the same worker; of three waiting calls any may be next.     *)
(***************************************************************************)
EXTENDS Naturals, Sequences, FiniteSets

CONSTANTS
    Callers,        \* threads that share the client
    Mixes,          \* the operations called side by side: a behaviour is of one mix
    FolderDepth,    \* segments of the folder uploaded into
    MaxClientCalls, \* bound: operations begun
    MaxGraphFaults  \* bound: requests that fail

Operations == {"upload", "reports", "directory", "read", "items", "list", "update", "close"}

ASSUME TransportAssumption ==
    /\ IsFiniteSet(Callers) /\ 0 \notin Callers
    /\ Mixes \subseteq SUBSET Operations /\ FolderDepth \in Nat \ {0}

VARIABLES
    mix,         \* the operations of this behaviour
    folders,     \* folders of the library, beside its root
    files,       \* files[p]: the caller whose bytes are at p, 0 for no file
    columns,     \* columns[k]: who wrote column k of the one list item
    listRows,    \* entries of what is listed, which people add to
    driveKnown,  \* a drive is configured, or _resolved_drive_id is set
    loop,        \* self._loop: 0 is None, else the number of the loop
    pool,        \* self._pool, likewise
    closedLoops, \* loops that are closed
    shutPools,   \* pools that are shut down
    asked,       \* asked[c]: the call c is in, or its last one
    warm,        \* ghost: the client has been at rest with its loop and worker
    clientCalls, graphFaults

graphVars == <<folders, files, columns, listRows, graphFaults>>
plumbing == <<loop, pool, closedLoops, shutPools>>
spVars == <<mix, graphVars, plumbing, driveKnown, asked, warm, clientCalls>>

ItemColumns == {1, 2}
UploadFolder == [i \in 1..FolderDepth |-> i]
LeafName == 0
SubFolder == FolderDepth + 1

\* What upload_reports is given: dirs is where a file lies under the staging root.
Staged == << [dirs |-> << >>, inside |-> TRUE, there |-> TRUE],
             [dirs |-> <<SubFolder>>, inside |-> TRUE, there |-> TRUE],
             [dirs |-> <<SubFolder>>, inside |-> FALSE, there |-> FALSE] >>

FilePaths == {Append(UploadFolder, LeafName), UploadFolder \o <<SubFolder, LeafName>>}
Up(path) == SubSeq(path, 1, Len(path) - 1)
PathPrefixes(path) == {SubSeq(path, 1, i) : i \in 1..Len(path)}

GraphRequest(do, path, arg) == [do |-> do, path |-> path, arg |-> arg]
Drive == GraphRequest("drive", << >>, 0)

NoCall == [op |-> "none", runs |-> << >>, at |-> "idle", loop |-> 0, pool |-> 0,
           seen |-> {}, rowsThen |-> 0, cause |-> "none", col |-> 1, wasWarm |-> FALSE]
AtRest(c) == asked[c].at \in {"idle", "done", "failed"}

SPTypeOK ==
    /\ mix \in Mixes /\ \A p \in folders : p # << >>
    /\ files \in [FilePaths -> Callers \cup {0}]
    /\ columns \in [ItemColumns -> Callers \cup {0}]
    /\ loop \in 0..(2 * MaxClientCalls + 8) /\ pool \in 0..(2 * MaxClientCalls + 8)
    /\ driveKnown \in BOOLEAN /\ warm \in BOOLEAN
    /\ \A c \in Callers : asked[c].cause \in {"none", "graph", "clash", "exists", "absent"}

\* The client is new, or has been used before.
SPInit ==
    /\ mix \in Mixes
    /\ folders = {} /\ files = [p \in FilePaths |-> 0]
    /\ columns = [k \in ItemColumns |-> 0] /\ listRows = 1
    /\ driveKnown \in BOOLEAN
    /\ loop \in {0, 1} /\ pool = loop /\ closedLoops = {} /\ shutPools = {}
    /\ asked = [c \in Callers |-> NoCall]
    /\ warm = (loop # 0) /\ clientCalls = 0 /\ graphFaults = 0

-----------------------------------------------------------------------------
(* What an operation runs: one _run each, of the requests in it.  A drive  *)
(* request is sent only as long as the drive is unknown.                   *)

CreateDirectory(path, conflict) == << <<Drive, GraphRequest("mkdir", path, conflict)>> >>

\* Mutant: a folder that is there already is a conflict.
CreateFresh(path) ==
    [i \in 1..Len(path) |-> <<Drive, GraphRequest("mkdir", SubSeq(path, 1, i), "fail")>>]

\* create_folder: every segment from the root on, an existing one used as it is.
CreateFolder(path) ==
    [i \in 1..Len(path) |-> CreateDirectory(SubSeq(path, 1, i), "replace")[1]]

WriteFile(path) == << <<Drive>>, <<GraphRequest("put", path, 0)>> >>
ReadFile(path) == << <<Drive>>, <<GraphRequest("get", path, 0)>> >>

\* upload_into
UploadInto(folder, name) == CreateFolder(folder) \o WriteFile(Append(folder, name))

Destination(file) == IF file.inside THEN UploadFolder \o file.dirs ELSE UploadFolder

\* upload_reports, for one file: its folder is created before the first that goes into it.
FileRuns(i) ==
    LET to  == Destination(Staged[i])
        new == to # UploadFolder
               /\ \A j \in 1..(i - 1) : Staged[j].there => Destination(Staged[j]) # to
    IN  IF ~Staged[i].there THEN << >>
        ELSE (IF new THEN CreateFolder(to) ELSE << >>) \o WriteFile(Append(to, LeafName))

UploadReports == CreateFolder(UploadFolder) \o FileRuns(1) \o FileRuns(2) \o FileRuns(3)

ListItems == << <<GraphRequest("page", << >>, 1)>> >>
ListDirectory == << <<Drive, GraphRequest("page", << >>, 1)>> >>
UpdateListItem(col) == << <<GraphRequest("patch", << >>, col)>> >>

RunsOf(op, col) ==
    CASE op = "upload"    -> UploadInto(UploadFolder, LeafName)
      [] op = "reports"   -> UploadReports
      [] op = "directory" -> CreateDirectory(<<UploadFolder[1]>>, "fail")
      [] op = "read"      -> ReadFile(Append(UploadFolder, LeafName))
      [] op = "items"     -> ListItems
      [] op = "list"      -> ListDirectory
      [] op = "update"    -> UpdateListItem(col)
      [] op = "close"     -> << >>

-----------------------------------------------------------------------------
(* The plumbing.                                                           *)

Moves(c, at) == asked' = [asked EXCEPT ![c].at = at]
OperationFails(c, cause) == asked' = [asked EXCEPT ![c].at = "failed", ![c].cause = cause]

\* When nothing else is under way, a client with loop and worker is warm.
Rests(c) ==
    warm' = (warm \/ (loop # 0 /\ pool # 0 /\ \A d \in Callers \ {c} : AtRest(d)))

BeginOperation(c) ==
    /\ AtRest(c) /\ clientCalls < MaxClientCalls
    /\ clientCalls' = clientCalls + 1
    /\ \E op \in mix, col \in ItemColumns :
          /\ op # "update" => col = 1
          /\ asked' = [d \in Callers |->
                 IF d = c THEN [NoCall EXCEPT
                     !.op = op, !.runs = RunsOf(op, col), !.col = col,
                     !.rowsThen = listRows, !.wasWarm = warm /\ op # "close",
                     !.at = IF op = "close" THEN "shut" ELSE "next"]
                 ELSE [asked[d] EXCEPT !.wasWarm = @ /\ op # "close"]]
          /\ warm' = (warm /\ op # "close")
    /\ UNCHANGED <<graphVars, plumbing, driveKnown>>

\* The next _run of the operation: none is needed for a drive that is known.
NextRun(c) ==
    /\ asked[c].at = "next"
    /\ IF asked[c].runs = << >>
       THEN Moves(c, "done") /\ Rests(c)
       ELSE /\ IF driveKnown /\ Head(asked[c].runs) = <<Drive>>
               THEN asked' = [asked EXCEPT ![c].runs = Tail(@)]
               ELSE Moves(c, "loop")
            /\ UNCHANGED warm
    /\ UNCHANGED <<graphVars, plumbing, driveKnown, clientCalls>>

CheckLoop(c) ==
    /\ asked[c].at = "loop"
    /\ Moves(c, IF loop = 0 \/ loop \in closedLoops THEN "new loop" ELSE "take loop")
    /\ UNCHANGED <<graphVars, plumbing, driveKnown, warm, clientCalls>>

Newest(used) == CHOOSE k \in 1..(Cardinality(used) + 1) : k \notin used

LoopsUsed == {loop} \cup closedLoops \cup {asked[c].loop : c \in Callers}
PoolsUsed == {pool} \cup shutPools \cup {asked[c].pool : c \in Callers}

MakeLoop(c) ==
    /\ asked[c].at = "new loop"
    /\ loop' = Newest(LoopsUsed \ {0})
    /\ Moves(c, "take loop")
    /\ UNCHANGED <<graphVars, pool, closedLoops, shutPools, driveKnown, warm, clientCalls>>

TakeLoop(c) ==
    /\ asked[c].at = "take loop"
    /\ asked' = [asked EXCEPT ![c].at = "pool", ![c].loop = loop]
    /\ UNCHANGED <<graphVars, plumbing, driveKnown, warm, clientCalls>>

\* _executor: the check, and the one worker made when there is none.
CheckPool(c) ==
    /\ asked[c].at = "pool"
    /\ Moves(c, IF pool = 0 THEN "new pool" ELSE "take pool")
    /\ UNCHANGED <<graphVars, plumbing, driveKnown, warm, clientCalls>>

MakePool(c) ==
    /\ asked[c].at = "new pool"
    /\ pool' = Newest(PoolsUsed \ {0})
    /\ Moves(c, "take pool")
    /\ UNCHANGED <<graphVars, loop, closedLoops, shutPools, driveKnown, warm, clientCalls>>

\* submit, on a worker that is gone or with a loop that is, raises.
SubmitRun(c) ==
    /\ asked[c].at = "take pool"
    /\ IF pool = 0 \/ pool \in shutPools \/ asked[c].loop = 0
       THEN OperationFails(c, "clash") /\ Rests(c)
       ELSE /\ asked' = [asked EXCEPT ![c].at = "queued", ![c].pool = pool]
            /\ UNCHANGED warm
    /\ UNCHANGED <<graphVars, plumbing, driveKnown, clientCalls>>

Running(d) == asked[d].at = "running"
OnPool(p) == {d \in Callers : asked[d].at \in {"queued", "running"} /\ asked[d].pool = p}

\* run_until_complete: a loop that runs already, or is closed, raises.
StartRunning(c) ==
    /\ asked[c].at = "queued"
    /\ \A d \in OnPool(asked[c].pool) : ~Running(d)
    /\ IF \/ asked[c].loop \in closedLoops
          \/ \E d \in Callers : Running(d) /\ asked[d].loop = asked[c].loop
       THEN OperationFails(c, "clash") /\ Rests(c)
       ELSE Moves(c, "running") /\ UNCHANGED warm
    /\ UNCHANGED <<graphVars, plumbing, driveKnown, clientCalls>>

-----------------------------------------------------------------------------
(* Graph.                                                                  *)

CanMake(r) ==
    /\ Len(r.path) = 1 \/ Up(r.path) \in folders
    /\ r.arg = "replace" \/ r.path \notin folders

Refusal(r) ==
    CASE r.do = "mkdir" -> IF CanMake(r) THEN "none"
                           ELSE IF r.path \in folders THEN "exists" ELSE "absent"
      [] r.do = "put"   -> IF Up(r.path) \in folders THEN "none" ELSE "absent"
      [] r.do = "get"   -> IF files[r.path] # 0 THEN "none" ELSE "absent"
      [] OTHER          -> "none"

\* replace keeps the folder that is there; a patch names the columns it writes.
TakesEffect(c, r) ==
    /\ folders' = IF r.do = "mkdir" THEN folders \cup {r.path} ELSE folders
    /\ files' = IF r.do = "put" THEN [files EXCEPT ![r.path] = c] ELSE files
    /\ columns' = IF r.do = "patch" THEN [columns EXCEPT ![r.arg] = c] ELSE columns

\* The pages: another one as long as the answer has a next link.
NextPage(r) ==
    IF r.do = "page" /\ r.arg < listRows THEN << [r EXCEPT !.arg = @ + 1] >> ELSE << >>

SeenIn(r) == IF r.do = "page" THEN {r.arg} ELSE IF r.do = "get" THEN {files[r.path]} ELSE {}

\* The answer to a request; the _run ends with its last one.
GraphAnswered(c, r) ==
    LET left == NextPage(r) \o Tail(Head(asked[c].runs))
    IN  asked' = [asked EXCEPT
            ![c].seen = @ \cup SeenIn(r),
            ![c].runs = IF left = << >> THEN Tail(@) ELSE <<left>> \o Tail(@),
            ![c].at = IF left = << >> THEN "next" ELSE "running"]

SendRequest(c) ==
    /\ Running(c)
    /\ LET r == Head(Head(asked[c].runs))
       IN  IF Refusal(r) = "none"
           THEN /\ TakesEffect(c, r) /\ GraphAnswered(c, r)
                /\ driveKnown' = (driveKnown \/ r.do = "drive")
                /\ UNCHANGED warm
           ELSE /\ OperationFails(c, Refusal(r)) /\ Rests(c)
                /\ UNCHANGED <<folders, files, columns, driveKnown>>
    /\ UNCHANGED <<listRows, graphFaults, plumbing, clientCalls>>

\* A request that fails, or whose answer is lost, fails the whole operation.
RequestFails(c) ==
    /\ Running(c) /\ graphFaults < MaxGraphFaults
    /\ graphFaults' = graphFaults + 1
    /\ LET r == Head(Head(asked[c].runs))
       IN  /\ r.do = "drive" => ~driveKnown
           /\ \/ Refusal(r) = "none" /\ TakesEffect(c, r)
              \/ UNCHANGED <<folders, files, columns>>
    /\ OperationFails(c, "graph") /\ Rests(c)
    /\ UNCHANGED <<listRows, plumbing, driveKnown, clientCalls>>

\* People add to the list while it is read.
AddListRow ==
    /\ mix \cap {"items", "list"} # {} /\ listRows < 2 /\ listRows' = listRows + 1
    /\ UNCHANGED <<folders, files, columns, graphFaults, plumbing, driveKnown, asked,
                   warm, clientCalls>>

-----------------------------------------------------------------------------
(* close: the worker first, then the loop.                                 *)

CloseBegins(c) ==
    /\ asked[c].at = "shut"
    /\ shutPools' = shutPools \cup ({pool} \ {0})
    /\ asked' = [asked EXCEPT ![c].pool = pool, ![c].at = "drain"]
    /\ UNCHANGED <<graphVars, loop, pool, closedLoops, driveKnown, warm, clientCalls>>

CloseDrained(c) ==
    /\ asked[c].at = "drain" /\ OnPool(asked[c].pool) = {}
    /\ pool' = IF asked[c].pool = 0 THEN pool ELSE 0
    /\ Moves(c, "close loop")
    /\ UNCHANGED <<graphVars, loop, closedLoops, shutPools, driveKnown, warm, clientCalls>>

\* A loop that another worker still drives cannot be closed.
CloseLoop(c) ==
    /\ asked[c].at = "close loop"
    /\ IF loop # 0 /\ \E d \in Callers : Running(d) /\ asked[d].loop = loop
       THEN OperationFails(c, "clash") /\ UNCHANGED <<loop, closedLoops>>
       ELSE /\ closedLoops' = closedLoops \cup ({loop} \ {0}) /\ loop' = 0
            /\ Moves(c, "done")
    /\ UNCHANGED <<graphVars, pool, shutPools, driveKnown, warm, clientCalls>>

PlumbingStep(c) ==
    \/ NextRun(c) \/ CheckLoop(c) \/ MakeLoop(c) \/ TakeLoop(c)
    \/ CheckPool(c) \/ MakePool(c) \/ SubmitRun(c) \/ StartRunning(c)
    \/ CloseBegins(c) \/ CloseDrained(c) \/ CloseLoop(c)

SPNext ==
    /\ UNCHANGED mix
    /\ \/ \E c \in Callers :
             BeginOperation(c) \/ PlumbingStep(c) \/ SendRequest(c) \/ RequestFails(c)
       \/ AddListRow

SPSpec == SPInit /\ [][SPNext]_spVars

-----------------------------------------------------------------------------
(* An upload that returned has left its file there, with every folder on
   the way to it, whoever else was creating the same folders: no answer is
   taken for a success before the last request of the operation. *)
UploadsLand ==
    \A c \in Callers : asked[c].at = "done" =>
        /\ asked[c].op \in {"upload", "reports"} =>
               LET path == Append(UploadFolder, LeafName)
               IN  PathPrefixes(UploadFolder) \subseteq folders /\ files[path] # 0
        /\ asked[c].op = "reports" => \A p \in FilePaths : files[p] # 0

(* create_folder is idempotent and makes its parents: an upload is refused
   because Graph failed it or the client's threads collided, never because
   a folder was there already, or was not there yet. *)
UploadFailsForCause ==
    \A c \in Callers :
        asked[c].at = "failed" /\ asked[c].op \in {"upload", "reports"} =>
            asked[c].cause \in {"graph", "clash"}

(* A list or folder that was read has every entry it had when the reading began: a page
   that fails fails the reading, and never shortens it. *)
ListingIsWhole ==
    \A c \in Callers :
        asked[c].at = "done" /\ asked[c].op \in {"items", "list"} =>
            1..asked[c].rowsThen \subseteq asked[c].seen

(* A column that an update wrote is still written after the updates of the
   others: a partial mapping is a partial update. *)
UpdatesKeepTheRest ==
    \A c \in Callers :
        asked[c].at = "done" /\ asked[c].op = "update" => columns[asked[c].col] # 0

(* _run: "the loop is never driven from two threads at once", and nobody is
   refused for that, once the client has come to rest with its loop and its
   worker and as long as nobody closes it. *)
WarmClientSerialises ==
    warm => /\ Cardinality({c \in Callers : Running(c)}) <= 1
            /\ \A c \in Callers : asked[c].wasWarm => asked[c].cause # "clash"

\* The five: what the operations promise their callers.
TransportHolds ==
    /\ UploadsLand /\ UploadFailsForCause /\ ListingIsWhole
    /\ UpdatesKeepTheRest /\ WarmClientSerialises

(* What _run says without the conditions, "the loop is never driven from
   two threads at once": two threads that make the first call together each
   make a worker, and one of the two calls fails for it. *)
NobodyCollides == \A c \in Callers : asked[c].cause # "clash"
===============================================================================
