----------------------------- MODULE MCComponents -----------------------------
(***************************************************************************)
(* The components that keep state of their own, each by itself: component  *)
(* names the one a behaviour is of, and the others stand still beside it.  *)
(***************************************************************************)
EXTENDS ThreadNotes, TaskPolicy, ThreadFork, RollingSummary, InMemoryKV, ConversionRun,
        Credentials, Provisioning, SharePoint

VARIABLE component

memoryVars == <<notesVars, policyVars, forkVars, summaryVars, kvVars>>
clientVars == <<convVars, credVars, provVars, spVars>>

Names == {"notes", "policy", "fork", "summary", "kv",
          "conversion", "credentials", "provisioning", "sharepoint"}

\* What stands still starts in one of its states only.
Init ==
    /\ component \in Names
    /\ NotesInit /\ PolicyInit /\ ForkInit /\ SummaryInit /\ KVInit
    /\ ConversionInit /\ CredInit /\ ProvisionInit /\ SPInit
    /\ component = "conversion" \/ (blockedRows = {} /\ validated = {})
    /\ component # "credentials" => \A part \in DOMAIN setting : setting[part]
    /\ component = "sharepoint" \/ (driveKnown /\ warm /\ mix = CHOOSE m \in Mixes : TRUE)
    /\ component # "provisioning" => \A s \in Specs : tables[s] = Table({}, FALSE)

MemoryNext ==
    \/ /\ component = "notes" /\ NotesNext
       /\ UNCHANGED <<policyVars, forkVars, summaryVars, kvVars>>
    \/ /\ component = "policy" /\ PolicyNext
       /\ UNCHANGED <<notesVars, forkVars, summaryVars, kvVars>>
    \/ /\ component = "fork" /\ ForkNext
       /\ UNCHANGED <<notesVars, policyVars, summaryVars, kvVars>>
    \/ /\ component = "summary" /\ SummaryNext
       /\ UNCHANGED <<notesVars, policyVars, forkVars, kvVars>>
    \/ /\ component = "kv" /\ KVNext
       /\ UNCHANGED <<notesVars, policyVars, forkVars, summaryVars>>

ClientNext ==
    \/ /\ component = "conversion" /\ ConversionNext
       /\ UNCHANGED <<credVars, provVars, spVars>>
    \/ /\ component = "credentials" /\ CredNext
       /\ UNCHANGED <<convVars, provVars, spVars>>
    \/ /\ component = "provisioning" /\ ProvisionNext
       /\ UNCHANGED <<convVars, credVars, spVars>>
    \/ /\ component = "sharepoint" /\ SPNext
       /\ UNCHANGED <<convVars, credVars, provVars>>

Next ==
    /\ UNCHANGED component
    /\ \/ MemoryNext /\ UNCHANGED clientVars
       \/ ClientNext /\ UNCHANGED memoryVars

Spec == Init /\ [][Next]_<<component, memoryVars, clientVars>>
===============================================================================
