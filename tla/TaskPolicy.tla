----------------------------- MODULE TaskPolicy ------------------------------
(***************************************************************************)
(* TaskPolicy: a task's standing instructions, one versioned store record, *)
(* of which every process holds a copy in memory.  A change is computed    *)
(* from the copy, saved, and only then taken as the copy.  MemoryExtractor *)
(* holds the instructions it extracts as pending candidates until they are *)
(* approved (added to the policy, then deleted: two commits) or rejected.  *)
(* A save may raise, and a process may die between any two commits.        *)
(***************************************************************************)
EXTENDS Naturals, Sequences, SequencesExt

CONSTANTS
    PolicyAgents,      \* processes holding a TaskPolicy of the task
    Candidates,        \* instructions the extractor finds
    MaxPolicyVersion,  \* bound: edits of one copy since the record was empty
    MaxPolicyFaults    \* bound: failing saves and crashes

ASSUME PolicyAssumption == MaxPolicyVersion \in Nat \ {0} /\ MaxPolicyFaults \in Nat

Default == "default"   \* default_instructions: one instruction
Manual  == "manual"    \* what an operator adds
Texts   == {Default, Manual} \cup Candidates

Records == [version : 0..MaxPolicyVersion, instructions : Seq(Texts)]
Empty   == [version |-> 0, instructions |-> << >>]

VARIABLES
    policyStored,    \* the record policy::<task>; Empty when there is none
    policyCopy,      \* policyCopy[a]: agent a's _state
    policyUp,        \* agents alive
    pending,         \* candidates with a record pending::<id>
    approving,       \* approving[a]: candidate a has added and not yet deleted
    policyFaults,
    policySynced,    \* history: agents since whose last load or commit the store
                     \* has not been written
    held,            \* history: candidates ever offered
    promoted,        \* history: candidates some stored record contained
    rejected         \* history: candidates an operator rejected

policyVars == <<policyStored, policyCopy, policyUp, pending, approving,
                policyFaults, policySynced, held, promoted, rejected>>

None == "none"

PolicyTypeOK ==
    /\ policyStored \in Records
    /\ policyCopy \in [PolicyAgents -> Records]
    /\ policyUp \subseteq PolicyAgents
    /\ pending \subseteq Candidates /\ rejected \subseteq Candidates
    /\ held \cup promoted \subseteq Candidates
    /\ approving \in [PolicyAgents -> Candidates \cup {None}]
    /\ policyFaults \in 0..MaxPolicyFaults
    /\ policySynced \subseteq PolicyAgents

PolicyInit ==
    /\ policyStored = Empty /\ policySynced = {}
    /\ policyCopy = [a \in PolicyAgents |-> Empty]
    /\ policyUp = {} /\ policyFaults = 0
    /\ pending = {} /\ held = {} /\ promoted = {} /\ rejected = {}
    /\ approving = [a \in PolicyAgents |-> None]

Ready(a) == a \in policyUp /\ approving[a] = None

\* _save: one upsert of the record.
StoreSet(record) ==
    /\ policyStored' = record
    /\ promoted' = promoted \cup (Candidates \cap ToSet(record.instructions))

\* _commit: save, then take the new state as this instance's own.
Commit(a, record) ==
    /\ StoreSet(record)
    /\ policyCopy' = [policyCopy EXCEPT ![a] = record]
    /\ policySynced' = {a}

\* _commit when the save raises, its upsert committed or not.
CommitRaises(a, record) ==
    /\ UNCHANGED policyCopy
    /\ \/ UNCHANGED <<policyStored, policySynced, promoted>>
       \/ StoreSet(record) /\ policySynced' = {}

\* __init__: load, and seed the defaults when no instruction is stored.
Seed(a) == Commit(a, [version |-> 1, instructions |-> <<Default>>])

Load(a) ==
    /\ policyCopy' = [policyCopy EXCEPT ![a] = policyStored]
    /\ policySynced' = policySynced \cup {a}
    /\ UNCHANGED <<policyStored, promoted>>

Start(a) ==
    /\ a \notin policyUp
    /\ policyUp' = policyUp \cup {a}
    /\ IF policyStored.instructions = << >> THEN Seed(a) ELSE Load(a)
    /\ UNCHANGED <<pending, approving, policyFaults, held, rejected>>

Reload(a) ==
    /\ Ready(a)
    /\ Load(a)
    /\ UNCHANGED <<policyUp, pending, approving, policyFaults, held, rejected>>

\* The next version of a's copy, with the instructions an edit makes of it.
Edited(a, instructions) ==
    [version |-> policyCopy[a].version + 1, instructions |-> instructions]

Added(a, x) == Edited(a, Append(policyCopy[a].instructions, x))

\* remove and replace: any edit that may leave fewer instructions.
Edits(a) ==
    {Added(a, Manual)}
    \cup {Edited(a, RemoveAt(policyCopy[a].instructions, i)) :
              i \in DOMAIN policyCopy[a].instructions}
    \cup {Edited(a, <<Manual>>)}

Edit(a) ==
    /\ Ready(a) /\ policyCopy[a].version < MaxPolicyVersion
    /\ \E record \in Edits(a) : Commit(a, record)
    /\ UNCHANGED <<policyUp, pending, approving, policyFaults, held, rejected>>

EditRaises(a) ==
    /\ Ready(a) /\ policyCopy[a].version < MaxPolicyVersion
    /\ policyFaults < MaxPolicyFaults
    /\ \E record \in Edits(a) : CommitRaises(a, record)
    /\ policyFaults' = policyFaults + 1
    /\ UNCHANGED <<policyUp, pending, approving, held, rejected>>

ClearPolicy(a) ==
    /\ Ready(a)
    /\ Commit(a, Empty)
    /\ UNCHANGED <<policyUp, pending, approving, policyFaults, held, rejected>>

\* observe: a permanent candidate is held for approval.
Hold(a, c) ==
    /\ Ready(a) /\ c \notin held
    /\ pending' = pending \cup {c}
    /\ held' = held \cup {c}
    /\ UNCHANGED <<policyStored, policyCopy, policyUp, approving, policyFaults,
                   policySynced, promoted, rejected>>

\* Mutant: the candidate is deleted before the policy holds it.
ApproveDeletesFirst(a, c) ==
    /\ Ready(a) /\ c \in pending /\ policyCopy[a].version < MaxPolicyVersion
    /\ approving' = [approving EXCEPT ![a] = c]
    /\ pending' = pending \ {c}
    /\ UNCHANGED <<policyStored, policyCopy, policyUp, policyFaults, policySynced,
                   held, promoted, rejected>>

\* approve: add the candidate to the policy ...
Approve(a, c) ==
    /\ Ready(a) /\ c \in pending /\ policyCopy[a].version < MaxPolicyVersion
    /\ Commit(a, Added(a, c))
    /\ approving' = [approving EXCEPT ![a] = c]
    /\ UNCHANGED <<policyUp, pending, policyFaults, held, rejected>>

\* ... then delete its record.
ApproveDeletes(a) ==
    /\ a \in policyUp /\ approving[a] # None
    /\ pending' = pending \ {approving[a]}
    /\ approving' = [approving EXCEPT ![a] = None]
    /\ UNCHANGED <<policyStored, policyCopy, policyUp, policyFaults, policySynced,
                   held, promoted, rejected>>

Reject(a, c) ==
    /\ Ready(a) /\ c \in pending
    /\ pending' = pending \ {c}
    /\ rejected' = rejected \cup {c}
    /\ UNCHANGED <<policyStored, policyCopy, policyUp, approving, policyFaults,
                   policySynced, held, promoted>>

CrashAgent(a) ==
    /\ a \in policyUp /\ policyFaults < MaxPolicyFaults
    /\ policyUp' = policyUp \ {a}
    /\ policyFaults' = policyFaults + 1
    /\ approving' = [approving EXCEPT ![a] = None]
    /\ policyCopy' = [policyCopy EXCEPT ![a] = Empty]
    /\ policySynced' = policySynced \ {a}
    /\ UNCHANGED <<policyStored, pending, held, promoted, rejected>>

PolicyNext ==
    \E a \in PolicyAgents :
        \/ Start(a) \/ Reload(a) \/ Edit(a) \/ EditRaises(a) \/ ClearPolicy(a)
        \/ ApproveDeletes(a) \/ CrashAgent(a)
        \/ \E c \in Candidates : Hold(a, c) \/ Approve(a, c) \/ Reject(a, c)

PolicySpec == PolicyInit /\ [][PolicyNext]_policyVars

-----------------------------------------------------------------------------
(* An instance prompts from what is stored: its copy is the stored record
   unless somebody has written the record since its last load or commit.  A save
   that raises leaves no instruction in memory only. *)
CopyIsStored == \A a \in policySynced : policyCopy[a] = policyStored

(* No candidate is lost: one that was offered is still offered, was rejected,
   or has reached the stored policy, even when its approver dies between the
   two commits or saves raise. *)
NoCandidateLost == held \subseteq pending \cup rejected \cup promoted

(* The constructor's promise that defaults bootstrap a task without a stored
   policy and never rewrite one that was edited since. *)
DefaultsOnlyBootstrap ==
    [][policyUp # policyUp' /\ policyStored # Empty
          => policyStored' = policyStored]_policyVars

(* Both: what an instance holds, and what it was offered, agrees with the store
   through edits, failing saves, restarts and deaths. *)
InstructionsSurvive == CopyIsStored /\ NoCandidateLost
=============================================================================
