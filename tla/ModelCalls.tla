------------------------------ MODULE ModelCalls ------------------------------
(***************************************************************************)
(* Calls to the model gateway: LLMClient._invoke_with, its retries and its *)
(* answer to a refused cache breakpoint, under the structured request that *)
(* SasLLMPipeline makes first and falls back from.  Pipelines may share    *)
(* one client.  The gateway may refuse breakpoints, may refuse schemas,    *)
(* and fails for a while or for good whenever it likes.  Waiting between   *)
(* tries is left out.                                                      *)
(***************************************************************************)
EXTENDS Naturals, FiniteSets

CONSTANTS
    Pipelines,        \* callers of one client
    MaxCallRetries,   \* max_retries
    MaxCalls          \* bound: items a pipeline sends

ASSUME CallsAssumption ==
    IsFiniteSet(Pipelines) /\ MaxCallRetries \in Nat /\ MaxCalls \in Nat

VARIABLES
    strict,       \* the gateway refuses cache_control
    noSchema,     \* the gateway refuses a schema request
    cacheSupport, \* _cache_control_supported: "unknown", "yes", "no"
    structured,   \* structured[p]: _structured_output
    request,      \* request[p]: the _invoke_with under way
    callsMade,    \* callsMade[p]: items sent
    sent,         \* history: requests sent for p's item
    refusals      \* history: requests refused for their breakpoint

callVars == <<strict, noSchema, cacheSupport, structured, request, callsMade, sent,
              refusals>>

NoRequest == [at |-> "idle"]

CallsTypeOK ==
    /\ {strict, noSchema} \subseteq BOOLEAN
    /\ cacheSupport \in {"unknown", "yes", "no"}
    /\ structured \in [Pipelines -> BOOLEAN]
    /\ \A p \in Pipelines : request[p].at \in {"idle", "send", "failed"}
    /\ callsMade \in [Pipelines -> 0..MaxCalls]
    /\ sent \in [Pipelines -> Nat] /\ refusals \in Nat

CallsInit ==
    /\ strict \in BOOLEAN /\ noSchema \in BOOLEAN
    /\ cacheSupport = "unknown"
    /\ structured = [p \in Pipelines |-> TRUE]
    /\ request = [p \in Pipelines |-> NoRequest]
    /\ callsMade = [p \in Pipelines |-> 0]
    /\ sent = [p \in Pipelines |-> 0] /\ refusals = 0

Becomes(p, r) == request' = [request EXCEPT ![p] = r]

\* _prepare: the breakpoint is stripped once the gateway has refused one.
Prepared(schema) ==
    [at |-> "send", schema |-> schema, marked |-> cacheSupport # "no", attempt |-> 1]

\* _call_model; a prompt over max_input_tokens fails before anything is sent.
SendItem(p, tooLong) ==
    /\ request[p].at = "idle" /\ callsMade[p] < MaxCalls
    /\ callsMade' = [callsMade EXCEPT ![p] = @ + 1]
    /\ sent' = [sent EXCEPT ![p] = 0]
    /\ Becomes(p, IF tooLong THEN [Prepared(structured[p]) EXCEPT !.at = "failed"]
                  ELSE Prepared(structured[p]))
    /\ UNCHANGED <<strict, noSchema, cacheSupport, structured, refusals>>

Sending(p) == request[p].at = "send" /\ sent' = [sent EXCEPT ![p] = @ + 1]

\* An answer; a cache hit settles an open question, never a settled one.
Answered(p) ==
    /\ Sending(p)
    /\ ~(strict /\ request[p].marked) /\ ~(noSchema /\ request[p].schema)
    /\ Becomes(p, NoRequest)
    /\ \/ UNCHANGED cacheSupport
       \/ /\ cacheSupport = "unknown" /\ request[p].marked
          /\ cacheSupport' = "yes"
    /\ UNCHANGED <<strict, noSchema, structured, callsMade, refusals>>

\* _demote_cache_control: re-sent at once without it, no attempt spent.
RefusedBreakpoint(p) ==
    /\ Sending(p) /\ strict /\ request[p].marked
    /\ cacheSupport' = "no"
    /\ refusals' = refusals + 1
    /\ Becomes(p, [request[p] EXCEPT !.marked = FALSE])
    /\ UNCHANGED <<strict, noSchema, structured, callsMade>>

\* Mutant: one retry more.
TransientOneMore(p) ==
    /\ Sending(p)
    /\ Becomes(p, IF request[p].attempt > MaxCallRetries + 1
                  THEN [request[p] EXCEPT !.at = "failed"]
                  ELSE [request[p] EXCEPT !.attempt = @ + 1])
    /\ UNCHANGED <<strict, noSchema, cacheSupport, structured, callsMade, refusals>>

\* A transient error is retried while attempts are left.
TransientError(p) ==
    /\ Sending(p)
    /\ Becomes(p, IF request[p].attempt >= MaxCallRetries + 1
                  THEN [request[p] EXCEPT !.at = "failed"]
                  ELSE [request[p] EXCEPT !.attempt = @ + 1])
    /\ UNCHANGED <<strict, noSchema, cacheSupport, structured, callsMade, refusals>>

PermanentError(p) ==
    /\ Sending(p)
    /\ Becomes(p, [request[p] EXCEPT !.at = "failed"])
    /\ UNCHANGED <<strict, noSchema, cacheSupport, structured, callsMade, refusals>>

\* _call_model's except: a failed structured request is sent again, plain,
\* and no later item of this pipeline asks for a schema.
FallBack(p) ==
    /\ request[p].at = "failed" /\ request[p].schema
    /\ structured' = [structured EXCEPT ![p] = FALSE]
    /\ \/ Becomes(p, Prepared(FALSE))
       \/ Becomes(p, [Prepared(FALSE) EXCEPT !.at = "failed"])
    /\ UNCHANGED <<strict, noSchema, cacheSupport, callsMade, sent, refusals>>

ItemFails(p) ==
    /\ request[p].at = "failed" /\ ~request[p].schema
    /\ Becomes(p, NoRequest)
    /\ UNCHANGED <<strict, noSchema, cacheSupport, structured, callsMade, sent,
                   refusals>>

CallStep(p) ==
    \/ Answered(p) \/ RefusedBreakpoint(p) \/ TransientError(p) \/ PermanentError(p)
    \/ FallBack(p) \/ ItemFails(p)

CallsNext ==
    \E p \in Pipelines : (\E tooLong \in BOOLEAN : SendItem(p, tooLong)) \/ CallStep(p)

CallsSpec == CallsInit /\ [][CallsNext]_callVars

\* A thread that waits for the gateway gets an answer or an error.
CallsFairness == \A p \in Pipelines : WF_callVars(CallStep(p))

-----------------------------------------------------------------------------
(* An item costs a bounded number of requests: two budgets of attempts, for
   the schema and without it, and one refused breakpoint, which is learned
   from: the fallback does not run into the refusal again. *)
RequestsBounded ==
    \A p \in Pipelines : sent[p] <= 2 * (MaxCallRetries + 1) + 1

(* A refused breakpoint costs one request per pipeline that was under way, and
   none ever after, however answers and refusals interleave. *)
RefusalRemembered == refusals <= Cardinality(Pipelines)

(* A call ends: neither retries nor the re-sends that spend no attempt go on
   for ever, whatever the gateway answers. *)
CallEnds == \A p \in Pipelines : request[p].at # "idle" ~> request[p].at = "idle"

(* Both: what a gateway refuses is paid for once. *)
RefusalsAreLearned == RequestsBounded /\ RefusalRemembered
=============================================================================
