---------------------------- MODULE MCPipelineRun ----------------------------
(* PipelineRun with the configurations TLC starts runs with.               *)
EXTENDS PipelineRun

\* validation.retries = r behind a validator, every run resumes: the
\* configuration resume_state calls validation-aware.
Aware(r) == [resume |-> TRUE, retries |-> r, validator |-> TRUE]

MCAware   == {Aware(1)}
MCAware12 == {Aware(1), Aware(2)}

\* The default configuration: verdicts are observed, never acted on.
MCObserve == {[resume |-> TRUE, retries |-> 0, validator |-> v] : v \in BOOLEAN}

\* Runs on a used thread that do not resume: what run_request does.
Fresh(r) == [resume |-> FALSE, retries |-> r, validator |-> TRUE]

MCFresh == {Fresh(0), Fresh(1)}
=============================================================================
