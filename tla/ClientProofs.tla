----------------------------- MODULE ClientProofs -----------------------------
(***************************************************************************)
(* Safety of what talks to the services outside, proved for every number   *)
(* of callers, retries and faults: the requests a call costs, the tables   *)
(* an opened store relies on, the rows of a conversion sweep, the          *)
(* principals that errands are run as, and what a SharePoint client        *)
(* promises the threads that share it.                                     *)
(***************************************************************************)
EXTENDS ModelCalls, Provisioning, ConversionRun, Credentials, SharePoint,
        ProofLemmas

(* ModelCalls                                                              *)

Budget == MaxCallRetries + 1

Requests == {NoRequest} \cup [at : {"send", "failed"}, schema : BOOLEAN, marked : BOOLEAN,
                              attempt : 1..Budget]

Underway(p) == request[p].at # "idle"

\* The requests p's item may have cost: those of the attempts before this one,
\* a budget before the fallback, and one refusal if the breakpoint is gone.
Spent(r) ==
    (IF r.schema THEN 0 ELSE Budget)
    + (IF r.at = "send" THEN r.attempt - 1 ELSE Budget)
    + (IF r.marked THEN 0 ELSE 1)

CallsTyped ==
    /\ {strict, noSchema} \subseteq BOOLEAN
    /\ cacheSupport \in {"unknown", "yes", "no"}
    /\ structured \in [Pipelines -> BOOLEAN]
    /\ request \in [Pipelines -> Requests]
    /\ callsMade \in [Pipelines -> 0..MaxCalls]
    /\ sent \in [Pipelines -> Nat] /\ refusals \in Nat

\* A breakpoint is only left out once it was refused, so each pipeline's item
\* meets the refusal once at most.
SpentBounded ==
    \A p \in Pipelines :
        /\ Underway(p) => sent[p] <= Spent(request[p])
        /\ Underway(p) /\ ~request[p].marked => cacheSupport = "no"
        /\ sent[p] <= 2 * Budget + 1

\* The pipelines that may still run into the refusal.
Exposed == {p \in Pipelines : request[p].at = "send" /\ request[p].marked}

RefusalsCounted ==
    /\ cacheSupport # "no" => refusals = 0
    /\ refusals + Cardinality(Exposed) <= Cardinality(Pipelines)

CallsInv == CallsTyped /\ SpentBounded /\ RefusalsCounted

LEMMA BudgetType == Budget \in Nat /\ Budget >= 1
  BY CallsAssumption DEF Budget

LEMMA RequestFields ==
    ASSUME CallsTyped, NEW p \in Pipelines, Underway(p)
    PROVE  request[p] \in [at : {"send", "failed"}, schema : BOOLEAN, marked : BOOLEAN,
                           attempt : 1..Budget]
  BY DEF CallsTyped, Underway, Requests, NoRequest

\* The number of exposed pipelines only falls when none joins them.
LEMMA ExposedShrinks ==
    ASSUME Exposed' \subseteq Exposed
    PROVE  /\ Cardinality(Exposed') \in Nat /\ Cardinality(Exposed) \in Nat
           /\ Cardinality(Exposed') <= Cardinality(Exposed)
<1>1. IsFiniteSet(Exposed)
  BY CallsAssumption, FS_Subset DEF Exposed
<1> QED  BY <1>1, FS_Subset, FS_CardinalityType

LEMMA ExposedBound ==
    ASSUME NEW S \in SUBSET Pipelines
    PROVE  /\ IsFiniteSet(S) /\ Cardinality(S) \in Nat /\ Cardinality(Pipelines) \in Nat
           /\ Cardinality(S) <= Cardinality(Pipelines)
<1>1. IsFiniteSet(S)
  BY CallsAssumption, FS_Subset
<1> QED  BY <1>1, CallsAssumption, FS_Subset, FS_CardinalityType

LEMMA CallsInit_Inv == CallsInit => CallsInv
<1> SUFFICES ASSUME CallsInit PROVE CallsInv
  OBVIOUS
<1>1. CallsTyped
  BY CallsAssumption DEF CallsInit, CallsTyped, Requests
<1>2. SpentBounded
  BY BudgetType DEF CallsInit, SpentBounded, Underway, NoRequest
<1>3. Exposed = {}
  BY DEF CallsInit, Exposed, NoRequest
<1>4. RefusalsCounted
  <2>1. Cardinality(Exposed) = 0 /\ Cardinality(Pipelines) \in Nat
    BY <1>3, CallsAssumption, FS_EmptySet, FS_CardinalityType
  <2> QED  BY <2>1 DEF CallsInit, RefusalsCounted
<1> QED  BY <1>1, <1>2, <1>4 DEF CallsInv

\* A step of one pipeline that gives it the request r.
LEMMA OnePipeline ==
    ASSUME CallsTyped, NEW p \in Pipelines, NEW r \in Requests,
           request' = [request EXCEPT ![p] = r]
    PROVE  /\ request'[p] = r /\ \A q \in Pipelines \ {p} : request'[q] = request[q]
           /\ request' \in [Pipelines -> Requests]
           /\ Exposed' = (Exposed \ {p}) \cup (IF r.at = "send" /\ r.marked THEN {p} ELSE {})
<1>1. /\ request'[p] = r /\ \A q \in Pipelines \ {p} : request'[q] = request[q]
      /\ request' \in [Pipelines -> Requests]
  BY DEF CallsTyped
<1> QED  BY <1>1 DEF Exposed

\* What a step of pipeline p may do: its request becomes r, its item has cost n,
\* and k of its requests met the refusal.
OneStep(p, r, n, k) ==
    /\ request' = [request EXCEPT ![p] = r] /\ sent' = [sent EXCEPT ![p] = n]
    /\ refusals' = refusals + k
    /\ strict' = strict /\ noSchema' = noSchema
    /\ cacheSupport' \in {"unknown", "yes", "no"}
    /\ structured' \in [Pipelines -> BOOLEAN] /\ callsMade' \in [Pipelines -> 0..MaxCalls]
    /\ cacheSupport = "no" => cacheSupport' = "no"
    /\ r.at # "idle" => n <= Spent(r) /\ (~r.marked => cacheSupport' = "no")
    /\ n <= 2 * Budget + 1
    /\ r.at = "send" /\ r.marked => k = 0 /\ (p \in Exposed \/ cacheSupport # "no")
    /\ k = 1 => p \in Exposed /\ cacheSupport' = "no"

LEMMA OneStep_Inv ==
    ASSUME CallsInv, NEW p \in Pipelines, NEW r \in Requests, NEW n \in Nat, NEW k \in {0, 1},
           OneStep(p, r, n, k)
    PROVE  CallsInv'
<1> USE DEF CallsInv, OneStep
<1>1. /\ request'[p] = r /\ \A q \in Pipelines \ {p} : request'[q] = request[q]
      /\ request' \in [Pipelines -> Requests]
      /\ Exposed' = (Exposed \ {p}) \cup (IF r.at = "send" /\ r.marked THEN {p} ELSE {})
  BY OnePipeline
<1>2. /\ sent'[p] = n /\ \A q \in Pipelines \ {p} : sent'[q] = sent[q]
      /\ sent' \in [Pipelines -> Nat]
  BY DEF CallsTyped
<1>3. CallsTyped'
  BY <1>1, <1>2 DEF CallsTyped
<1>4. SpentBounded'
  <2> SUFFICES ASSUME NEW q \in Pipelines
               PROVE  /\ Underway(q)' => sent'[q] <= Spent(request'[q])
                      /\ Underway(q)' /\ ~request'[q].marked => cacheSupport' = "no"
                      /\ sent'[q] <= 2 * Budget + 1
    BY DEF SpentBounded
  <2>1. CASE q = p
    BY <1>1, <1>2, <2>1 DEF Underway
  <2>2. CASE q # p
    BY <1>1, <1>2, <2>2 DEF Underway, SpentBounded
  <2> QED  BY <2>1, <2>2
<1>5. Exposed \subseteq Pipelines /\ Exposed' \subseteq Pipelines
  BY <1>1 DEF Exposed
<1>6. RefusalsCounted'
  <2>1. CASE k = 1
    <3>1. Exposed' = Exposed \ {p} /\ p \in Exposed /\ cacheSupport' = "no"
      BY <1>1, <2>1
    <3>2. Cardinality(Exposed') = Cardinality(Exposed) - 1
      BY <1>5, <3>1, ExposedBound, FS_RemoveElement
    <3> QED  BY <1>5, <2>1, <3>1, <3>2, ExposedBound DEF RefusalsCounted, CallsTyped
  <2>2. CASE k = 0 /\ Exposed' \subseteq Exposed
    <3>1. /\ Cardinality(Exposed') \in Nat /\ Cardinality(Exposed) \in Nat
          /\ Cardinality(Exposed') <= Cardinality(Exposed)
      BY <2>2, ExposedShrinks
    <3> QED  BY <1>5, <2>2, <3>1, ExposedBound DEF RefusalsCounted, CallsTyped
  <2>3. CASE k = 0 /\ ~(Exposed' \subseteq Exposed)
    <3>1. refusals' = 0
      BY <1>1, <2>3 DEF RefusalsCounted, CallsTyped
    <3> QED  BY <1>5, <3>1, ExposedBound DEF RefusalsCounted
  <2> QED  BY <2>1, <2>2, <2>3
<1> QED  BY <1>3, <1>4, <1>6

\* The kinds of request a step leaves.
LEMMA PreparedIsRequest ==
    ASSUME CallsTyped, NEW schema \in BOOLEAN
    PROVE  /\ Prepared(schema) \in Requests
           /\ Prepared(schema).at = "send" /\ Prepared(schema).schema = schema
           /\ (Prepared(schema).marked <=> cacheSupport # "no") /\ Prepared(schema).attempt = 1
           /\ [Prepared(schema) EXCEPT !.at = "failed"] \in Requests
           /\ [Prepared(schema) EXCEPT !.at = "failed"].at = "failed"
           /\ [Prepared(schema) EXCEPT !.at = "failed"].schema = schema
           /\ [Prepared(schema) EXCEPT !.at = "failed"].marked <=> cacheSupport # "no"
<1>1. 1 \in 1..Budget /\ (cacheSupport # "no") \in BOOLEAN
  BY BudgetType
<1> QED  BY <1>1 DEF Prepared, Requests

LEMMA SpentType ==
    ASSUME NEW r \in Requests, r.at # "idle"
    PROVE  /\ Spent(r) \in Nat /\ Spent(r) <= 2 * Budget + 1
           /\ r.at = "send" => Spent(r) <= 2 * Budget
           /\ r.at = "failed" => Spent(r) = (IF r.schema THEN 0 ELSE Budget) + Budget
                                            + (IF r.marked THEN 0 ELSE 1)
<1>1. /\ r \in [at : {"send", "failed"}, schema : BOOLEAN, marked : BOOLEAN, attempt : 1..Budget]
      /\ Budget \in Nat /\ Budget >= 1
  BY BudgetType DEF Requests, NoRequest
<1> DEFINE x == IF r.schema THEN 0 ELSE Budget
           y == IF r.at = "send" THEN r.attempt - 1 ELSE Budget
           z == IF r.marked THEN 0 ELSE 1
<1>2. x \in Nat /\ x <= Budget
  BY <1>1
<1>3. y \in Nat /\ y <= Budget /\ (r.at = "send" => y <= Budget - 1)
      /\ (r.at = "failed" => y = Budget)
  BY <1>1
<1>4. z \in {0, 1}
  BY <1>1
<1>5. Spent(r) = x + y + z
  BY DEF Spent
<1>6. r.at = "failed" => Spent(r) = x + Budget + z
  BY <1>3, <1>5
<1> HIDE DEF x, y, z
<1>7. /\ Spent(r) \in Nat /\ Spent(r) <= 2 * Budget + 1
      /\ r.at = "send" => Spent(r) <= 2 * Budget
  BY <1>1, <1>2, <1>3, <1>4, <1>5
<1> QED  BY <1>6, <1>7 DEF x, z

LEMMA SendItem_Inv ==
    ASSUME CallsInv, NEW p \in Pipelines, NEW tooLong \in BOOLEAN, SendItem(p, tooLong)
    PROVE  CallsInv'
<1> DEFINE first == Prepared(structured[p])
           r     == IF tooLong THEN [first EXCEPT !.at = "failed"] ELSE first
<1>1. /\ request' = [request EXCEPT ![p] = r] /\ sent' = [sent EXCEPT ![p] = 0]
      /\ strict' = strict /\ noSchema' = noSchema /\ cacheSupport' = cacheSupport
      /\ structured' = structured /\ refusals' = refusals
  BY DEF SendItem, Becomes
<1>2. callsMade' \in [Pipelines -> 0..MaxCalls]
  <2>1. callsMade[p] + 1 \in 0..MaxCalls
    BY CallsAssumption DEF SendItem, CallsInv, CallsTyped
  <2> QED  BY <2>1 DEF SendItem, CallsInv, CallsTyped
<1>3. structured[p] \in BOOLEAN
  BY DEF CallsInv, CallsTyped
<1>4. /\ r \in Requests /\ r.at \in {"send", "failed"}
      /\ r.marked <=> cacheSupport # "no"
  BY <1>3, PreparedIsRequest DEF CallsInv
<1> HIDE DEF r, first
<1>5. Spent(r) \in Nat
  BY <1>4, SpentType
<1>6. 0 <= Spent(r) /\ 0 <= 2 * Budget + 1 /\ refusals' = refusals + 0
  BY <1>1, <1>5, BudgetType DEF CallsInv, CallsTyped
<1>7. OneStep(p, r, 0, 0)
  <2>1. cacheSupport \in {"unknown", "yes", "no"} /\ structured \in [Pipelines -> BOOLEAN]
    BY DEF CallsInv, CallsTyped
  <2>2. /\ r.at # "idle" => 0 <= Spent(r) /\ (~r.marked => cacheSupport' = "no")
        /\ r.at = "send" /\ r.marked => cacheSupport # "no"
    BY <1>1, <1>4, <1>6
  <2> QED  BY <1>1, <1>2, <1>6, <2>1, <2>2 DEF OneStep
<1> QED  BY <1>4, <1>7, OneStep_Inv

\* A request that is sent is counted, and was not over its budget before.
LEMMA SendingCounts ==
    ASSUME CallsInv, NEW p \in Pipelines, Sending(p)
    PROVE  LET r == request[p]
               n == sent[p] + 1
           IN  /\ r \in [at : {"send"}, schema : BOOLEAN, marked : BOOLEAN, attempt : 1..Budget]
               /\ r \in Requests /\ r.at = "send"
               /\ sent' = [sent EXCEPT ![p] = n] /\ n \in Nat
               /\ n <= Spent(r) + 1 /\ n <= 2 * Budget + 1
               /\ ~r.marked => cacheSupport = "no"
               /\ p \in Exposed <=> r.marked
<1> DEFINE r == request[p]
<1>1. /\ r \in [at : {"send"}, schema : BOOLEAN, marked : BOOLEAN, attempt : 1..Budget]
      /\ r \in Requests /\ r.at = "send" /\ Underway(p)
      /\ sent' = [sent EXCEPT ![p] = sent[p] + 1] /\ sent[p] \in Nat
  BY DEF Sending, CallsInv, CallsTyped, Requests, NoRequest, Underway
<1>2. sent[p] <= Spent(r) /\ (~r.marked => cacheSupport = "no")
  BY <1>1 DEF CallsInv, SpentBounded
<1>3. Spent(r) \in Nat /\ Spent(r) <= 2 * Budget
  BY <1>1, SpentType
<1>4. sent[p] + 1 \in Nat /\ sent[p] + 1 <= Spent(r) + 1 /\ sent[p] + 1 <= 2 * Budget + 1
  BY <1>1, <1>2, <1>3, BudgetType
<1> QED  BY <1>1, <1>2, <1>4 DEF Exposed

LEMMA Answered_Inv ==
    ASSUME CallsInv, NEW p \in Pipelines, Answered(p)
    PROVE  CallsInv'
<1> DEFINE n == sent[p] + 1
<1>1. /\ request' = [request EXCEPT ![p] = NoRequest] /\ sent' = [sent EXCEPT ![p] = n]
      /\ strict' = strict /\ noSchema' = noSchema /\ structured' = structured
      /\ refusals' = refusals + 0 /\ callsMade' = callsMade
      /\ cacheSupport' \in {"unknown", "yes", "no"}
      /\ cacheSupport = "no" => cacheSupport' = "no"
  BY DEF Answered, Becomes, Sending, CallsInv, CallsTyped
<1>2. n \in Nat /\ n <= 2 * Budget + 1
  BY SendingCounts DEF Answered
<1>3. NoRequest \in Requests /\ NoRequest.at = "idle"
  BY DEF Requests, NoRequest
<1> HIDE DEF n
<1>4. OneStep(p, NoRequest, n, 0)
  BY <1>1, <1>2, <1>3 DEF OneStep, CallsInv, CallsTyped
<1> QED  BY <1>2, <1>3, <1>4, OneStep_Inv

\* The breakpoint is left out of what is sent again: one request more, once.
LEMMA RefusedBreakpoint_Inv ==
    ASSUME CallsInv, NEW p \in Pipelines, RefusedBreakpoint(p)
    PROVE  CallsInv'
<1> DEFINE old == request[p]
           n   == sent[p] + 1
           r   == [old EXCEPT !.marked = FALSE]
<1>1. /\ request' = [request EXCEPT ![p] = r] /\ sent' = [sent EXCEPT ![p] = n]
      /\ strict' = strict /\ noSchema' = noSchema /\ structured' = structured
      /\ refusals' = refusals + 1 /\ callsMade' = callsMade
      /\ cacheSupport' = "no" /\ old.marked
  BY DEF RefusedBreakpoint, Becomes, Sending
<1>2. /\ old \in [at : {"send"}, schema : BOOLEAN, marked : BOOLEAN, attempt : 1..Budget]
      /\ old \in Requests /\ old.at = "send"
      /\ n \in Nat /\ n <= Spent(old) + 1 /\ n <= 2 * Budget + 1
      /\ p \in Exposed
  BY <1>1, SendingCounts DEF RefusedBreakpoint
<1>3. /\ r \in Requests /\ r.at = "send" /\ r.schema = old.schema
      /\ r.attempt = old.attempt /\ r.marked = FALSE
  BY <1>2 DEF Requests
<1> HIDE DEF r, n
<1>4. Spent(r) = Spent(old) + 1
  <2>1. old.attempt \in Nat /\ Budget \in Nat
    BY <1>2, BudgetType
  <2> QED  BY <1>1, <1>2, <1>3, <2>1 DEF Spent
<1>5. OneStep(p, r, n, 1)
  BY <1>1, <1>2, <1>3, <1>4 DEF OneStep, CallsInv, CallsTyped
<1> QED  BY <1>2, <1>3, <1>5, OneStep_Inv

\* An attempt that failed is counted among the attempts before the next.
LEMMA AttemptFails_Inv ==
    ASSUME CallsInv, NEW p \in Pipelines, TransientError(p) \/ PermanentError(p)
    PROVE  CallsInv'
<1> DEFINE old == request[p]
           n   == sent[p] + 1
<1>1. /\ sent' = [sent EXCEPT ![p] = n]
      /\ strict' = strict /\ noSchema' = noSchema /\ structured' = structured
      /\ refusals' = refusals + 0 /\ callsMade' = callsMade
      /\ cacheSupport' = cacheSupport
  BY DEF TransientError, PermanentError, Becomes, Sending, CallsInv, CallsTyped
<1>2. /\ old \in [at : {"send"}, schema : BOOLEAN, marked : BOOLEAN, attempt : 1..Budget]
      /\ old \in Requests /\ old.at = "send"
      /\ n \in Nat /\ n <= Spent(old) + 1 /\ n <= 2 * Budget + 1
      /\ ~old.marked => cacheSupport = "no"
      /\ p \in Exposed <=> old.marked
  BY SendingCounts DEF TransientError, PermanentError
<1>3. old.attempt \in 1..Budget /\ Budget \in Nat
  BY <1>2, BudgetType
<1>4. CASE /\ old.attempt < Budget
           /\ request' = [request EXCEPT ![p] = [old EXCEPT !.attempt = @ + 1]]
  <2> DEFINE r == [old EXCEPT !.attempt = @ + 1]
  <2>1. /\ r \in Requests /\ r.at = "send" /\ r.schema = old.schema
        /\ r.attempt = old.attempt + 1 /\ r.marked = old.marked
    <3>1. old.attempt + 1 \in 1..Budget
      BY <1>3, <1>4
    <3> QED  BY <1>2, <3>1 DEF Requests
  <2>2. request' = [request EXCEPT ![p] = r]
    BY <1>4
  <2> HIDE DEF r, n
  <2>3. Spent(r) = Spent(old) + 1
    BY <1>2, <1>3, <2>1 DEF Spent
  <2>4. OneStep(p, r, n, 0)
    BY <1>1, <1>2, <2>1, <2>2, <2>3 DEF OneStep, CallsInv, CallsTyped
  <2> QED  BY <1>2, <2>1, <2>4, OneStep_Inv
<1>5. CASE request' = [request EXCEPT ![p] = [old EXCEPT !.at = "failed"]]
  <2> DEFINE r == [old EXCEPT !.at = "failed"]
  <2>1. /\ r \in Requests /\ r.at = "failed" /\ r.schema = old.schema /\ r.marked = old.marked
    BY <1>2 DEF Requests
  <2>2. request' = [request EXCEPT ![p] = r]
    BY <1>5
  <2> HIDE DEF r, n
  <2>3. Spent(old) + 1 <= Spent(r)
    BY <1>2, <1>3, <2>1 DEF Spent
  <2>4. Spent(old) \in Nat /\ Spent(r) \in Nat
    BY <1>2, <2>1, SpentType
  <2>5. n <= Spent(r)
    BY <1>2, <2>3, <2>4
  <2>6. OneStep(p, r, n, 0)
    BY <1>1, <1>2, <2>1, <2>2, <2>5 DEF OneStep, CallsInv, CallsTyped
  <2> QED  BY <1>2, <2>1, <2>6, OneStep_Inv
<1>6. \/ /\ old.attempt < Budget
         /\ request' = [request EXCEPT ![p] = [old EXCEPT !.attempt = @ + 1]]
      \/ request' = [request EXCEPT ![p] = [old EXCEPT !.at = "failed"]]
  <2>1. CASE TransientError(p)
    <3>1. MaxCallRetries + 1 = Budget
      BY DEF Budget
    <3> HIDE DEF old
    <3>2. ~(old.attempt >= Budget) => old.attempt < Budget
      BY <1>3
    <3> QED  BY <2>1, <3>1, <3>2 DEF TransientError, Becomes, old
  <2>2. CASE PermanentError(p)
    BY <2>2 DEF PermanentError, Becomes
  <2> QED  BY <2>1, <2>2
<1> QED  BY <1>4, <1>5, <1>6

\* The plain request has a budget of its own, and no refusal before it that the
\* structured one met already.
LEMMA FallBack_Inv ==
    ASSUME CallsInv, NEW p \in Pipelines, FallBack(p)
    PROVE  CallsInv'
<1> DEFINE old == request[p]
<1>1. /\ sent' = sent
      /\ strict' = strict /\ noSchema' = noSchema
      /\ structured' \in [Pipelines -> BOOLEAN]
      /\ refusals' = refusals + 0 /\ callsMade' = callsMade
      /\ cacheSupport' = cacheSupport /\ old.at = "failed" /\ old.schema
  BY DEF FallBack, CallsInv, CallsTyped
<1>2. /\ old \in Requests /\ Underway(p)
      /\ old \in [at : {"send", "failed"}, schema : BOOLEAN, marked : BOOLEAN, attempt : 1..Budget]
  BY <1>1, RequestFields DEF CallsInv, CallsTyped, Underway
<1>3. /\ sent[p] \in Nat /\ sent[p] <= Spent(old) /\ sent[p] <= 2 * Budget + 1
      /\ ~old.marked => cacheSupport = "no"
  BY <1>2 DEF CallsInv, CallsTyped, SpentBounded
<1>4. PICK r \in {Prepared(FALSE), [Prepared(FALSE) EXCEPT !.at = "failed"]} :
         request' = [request EXCEPT ![p] = r]
  BY DEF FallBack, Becomes
<1>5. /\ r \in Requests /\ r.at \in {"send", "failed"} /\ r.schema = FALSE
      /\ (r.marked <=> cacheSupport # "no") /\ (r.at = "send" => r.attempt = 1)
  BY <1>4, PreparedIsRequest DEF CallsInv
<1>6. Budget \in Nat /\ sent' = [sent EXCEPT ![p] = sent[p]]
  BY <1>1, BudgetType DEF CallsInv, CallsTyped
<1>7. Spent(old) = Budget + (IF old.marked THEN 0 ELSE 1)
  BY <1>1, <1>6 DEF Spent
<1>8. Spent(r) >= Budget + (IF r.marked THEN 0 ELSE 1)
  BY <1>5, <1>6 DEF Spent
<1>9. Spent(old) \in Nat /\ Spent(r) \in Nat
  BY <1>1, <1>2, <1>5, SpentType
<1>10. sent[p] <= Spent(r)
  <2>1. CASE old.marked
    BY <1>3, <1>6, <1>7, <1>8, <1>9, <2>1
  <2>2. CASE ~old.marked
    BY <1>3, <1>5, <1>6, <1>7, <1>8, <1>9, <2>2
  <2> QED  BY <2>1, <2>2
<1>11. OneStep(p, r, sent[p], 0)
  <2>1. /\ cacheSupport \in {"unknown", "yes", "no"}
        /\ callsMade \in [Pipelines -> 0..MaxCalls]
    BY DEF CallsInv, CallsTyped
  <2>2. /\ r.at # "idle" => sent[p] <= Spent(r) /\ (~r.marked => cacheSupport' = "no")
        /\ r.at = "send" /\ r.marked => cacheSupport # "no"
    BY <1>1, <1>5, <1>10
  <2>3. /\ request' = [request EXCEPT ![p] = r] /\ sent' = [sent EXCEPT ![p] = sent[p]]
        /\ sent[p] <= 2 * Budget + 1
    BY <1>3, <1>4, <1>6
  <2>4. /\ strict' = strict /\ noSchema' = noSchema /\ refusals' = refusals + 0
        /\ structured' \in [Pipelines -> BOOLEAN] /\ callsMade' = callsMade
        /\ cacheSupport' = cacheSupport
    BY <1>1
  <2> QED  BY <2>1, <2>2, <2>3, <2>4 DEF OneStep
<1> QED  BY <1>3, <1>5, <1>11, OneStep_Inv

LEMMA ItemFails_Inv ==
    ASSUME CallsInv, NEW p \in Pipelines, ItemFails(p)
    PROVE  CallsInv'
<1>1. /\ request' = [request EXCEPT ![p] = NoRequest] /\ sent' = [sent EXCEPT ![p] = sent[p]]
      /\ strict' = strict /\ noSchema' = noSchema /\ structured' = structured
      /\ refusals' = refusals + 0 /\ callsMade' = callsMade /\ cacheSupport' = cacheSupport
      /\ sent[p] \in Nat /\ sent[p] <= 2 * Budget + 1
  BY DEF ItemFails, Becomes, CallsInv, CallsTyped, SpentBounded
<1>2. NoRequest \in Requests /\ NoRequest.at = "idle"
  BY DEF Requests, NoRequest
<1>3. OneStep(p, NoRequest, sent[p], 0)
  BY <1>1, <1>2 DEF OneStep, CallsInv, CallsTyped
<1> QED  BY <1>1, <1>2, <1>3, OneStep_Inv

LEMMA CallsNext_Inv == CallsInv /\ [CallsNext]_callVars => CallsInv'
<1> SUFFICES ASSUME CallsInv, [CallsNext]_callVars PROVE CallsInv'
  OBVIOUS
<1>1. CASE UNCHANGED callVars
  <2>1. Exposed' = Exposed
    BY <1>1 DEF callVars, Exposed
  <2> QED
    BY <1>1, <2>1 DEF callVars, CallsInv, CallsTyped, SpentBounded, RefusalsCounted, Underway
<1>2. CASE CallsNext
  BY <1>2, SendItem_Inv, Answered_Inv, RefusedBreakpoint_Inv, AttemptFails_Inv, FallBack_Inv,
     ItemFails_Inv
  DEF CallsNext, CallStep
<1> QED  BY <1>1, <1>2

(* An item costs at most two budgets of attempts and one refused breakpoint,
   and a refusal is met at most once by each pipeline, however the answers,
   refusals, errors and fallbacks of the pipelines that share a client
   interleave. *)
THEOREM RefusalsAreAlwaysLearned == CallsSpec => []RefusalsAreLearned
<1>1. CallsInv => RefusalsAreLearned
  <2> SUFFICES ASSUME CallsInv PROVE RefusalsAreLearned
    OBVIOUS
  <2>1. RequestsBounded
    BY DEF CallsInv, SpentBounded, RequestsBounded, Budget
  <2>2. RefusalRemembered
    <3>1. Exposed \subseteq Pipelines
      BY DEF Exposed
    <3> QED  BY <3>1, ExposedBound DEF CallsInv, CallsTyped, RefusalsCounted, RefusalRemembered
  <2> QED  BY <2>1, <2>2 DEF RefusalsAreLearned
<1> QED  BY <1>1, CallsInit_Inv, CallsNext_Inv, PTL DEF CallsSpec

-----------------------------------------------------------------------------
(* Provisioning                                                            *)

SpecTables == [columns : SUBSET Columns, cdf : BOOLEAN, index : BOOLEAN, version : Nat]

Openers == [at : OpenPlaces, spec : Specs, missing : SUBSET Columns, failures : BOOLEAN,
            tries : 0..MaxDdlRetries, seen : Nat]

Migrated(t) == t.columns = Columns /\ t.cdf

\* What a process knows where it stands, of tables tb, rebuilt or not.
Knows(o, tb, again) ==
    /\ o.at \in Opening => \A s \in Specs : s < o.spec => Migrated(tb[s])
    /\ o.at = "add" => Columns \subseteq o.missing \cup tb[o.spec].columns
    /\ o.at \in {"cdf", "alter"} => tb[o.spec].columns = Columns
    /\ o.at = "check" => o.spec = 1 /\ \A s \in Specs : Migrated(tb[s])
    /\ ~again => /\ o.at # "drop"
                 /\ o.at = "enable" /\ ~o.failures =>
                       \A s \in Specs : s < o.spec => tb[s].index
                 /\ o.at = "mark" => \A s \in Specs : tb[s].index

\* Tables only gain columns and the feed, and indexes as long as none is rebuilt.
Grown(tb, tb2, again) ==
    \A s \in Specs : /\ tb[s].columns \subseteq tb2[s].columns
                     /\ tb[s].cdf => tb2[s].cdf
                     /\ ~again /\ tb[s].index => tb2[s].index

ProvTyped ==
    /\ tables \in [Specs -> SpecTables] /\ marked \in BOOLEAN /\ rebuilt \in BOOLEAN
    /\ provisionFaults \in 0..MaxProvisionFaults
    /\ openers \in [Stores -> Openers]

ProvInv ==
    /\ ProvTyped /\ MarkerIsEarned
    /\ \A p \in Stores : Knows(openers[p], tables, rebuilt)

LEMMA KnowledgeKeeps ==
    ASSUME NEW tb \in [Specs -> SpecTables], NEW tb2 \in [Specs -> SpecTables],
           NEW again \in BOOLEAN, NEW again2 \in BOOLEAN, NEW o \in Openers,
           Knows(o, tb, again), again => again2, Grown(tb, tb2, again2)
    PROVE  Knows(o, tb2, again2)
<1>1. \A s \in Specs : tb[s].columns \subseteq Columns /\ tb2[s].columns \subseteq Columns
  BY DEF SpecTables
<1>2. o.spec \in Specs
  BY DEF Openers
<1>3. \A s \in Specs : Migrated(tb[s]) => Migrated(tb2[s])
  BY <1>1 DEF Grown, Migrated
<1> QED  BY <1>1, <1>2, <1>3 DEF Knows, Grown

\* What a step of process p may do: it stands somewhere else, and the tables only grew.
OneOpener(p) ==
    /\ openers' \in [Stores -> Openers]
    /\ \A q \in Stores \ {p} : openers'[q] = openers[q]
    /\ tables' \in [Specs -> SpecTables]
    /\ marked' \in BOOLEAN /\ rebuilt' \in BOOLEAN
    /\ provisionFaults' \in 0..MaxProvisionFaults
    /\ rebuilt => rebuilt'
    /\ Grown(tables, tables', rebuilt')
    /\ Knows(openers'[p], tables', rebuilt')
    /\ marked' /\ ~rebuilt' => marked \/ \A s \in Specs : tables'[s].index

LEMMA OneOpener_Inv ==
    ASSUME ProvInv, NEW p \in Stores, OneOpener(p)
    PROVE  ProvInv'
<1>1. \A q \in Stores \ {p} : openers'[q] = openers[q]
  BY DEF OneOpener
<1>2. ProvTyped'
  BY DEF OneOpener, ProvTyped
<1>3. ASSUME NEW q \in Stores PROVE Knows(openers'[q], tables', rebuilt')
  <2>1. CASE q = p
    BY <2>1 DEF OneOpener
  <2>2. CASE q # p
    <3>1. /\ openers[q] \in Openers /\ openers'[q] = openers[q]
          /\ Knows(openers[q], tables, rebuilt)
          /\ tables \in [Specs -> SpecTables] /\ rebuilt \in BOOLEAN
      BY <1>1, <2>2 DEF ProvInv, ProvTyped
    <3>2. /\ tables' \in [Specs -> SpecTables] /\ rebuilt' \in BOOLEAN
          /\ rebuilt => rebuilt'
          /\ Grown(tables, tables', rebuilt')
      BY DEF OneOpener
    <3> QED  BY <3>1, <3>2, KnowledgeKeeps
  <2> QED  BY <2>1, <2>2
<1>4. MarkerIsEarned'
  <2> SUFFICES ASSUME marked', ~rebuilt', NEW s \in Specs PROVE tables'[s].index
    BY DEF MarkerIsEarned
  <2>1. CASE marked
    BY <2>1 DEF OneOpener, Grown, ProvInv, MarkerIsEarned
  <2>2. CASE ~marked
    BY <2>2 DEF OneOpener
  <2> QED  BY <2>1, <2>2
<1> QED  BY <1>2, <1>3, <1>4 DEF ProvInv

LEMMA SpecsType == 1 \in Specs /\ SpecCount \in Specs /\ Specs \subseteq Nat
  BY ProvisionAssumption DEF Specs

LEMMA ClosedIsOpener == Closed \in Openers
  BY ProvisionAssumption, SpecsType DEF Closed, Openers, OpenPlaces

LEMMA GrownRefl == \A tb, again : Grown(tb, tb, again)
  BY DEF Grown

\* Where a process stands after it went to a place, or to a place of the next
\* table.
LEMMA GotoOpener ==
    ASSUME ProvTyped, NEW p \in Stores, NEW place \in OpenPlaces,
           tables' \in [Specs -> SpecTables], Goto(p, place)
    PROVE  /\ openers' \in [Stores -> Openers]
           /\ \A q \in Stores \ {p} : openers'[q] = openers[q]
           /\ openers'[p].at = place /\ openers'[p].spec = openers[p].spec
           /\ openers'[p].failures = openers[p].failures
           /\ openers'[p].missing = openers[p].missing
<1> DEFINE v == tables'[openers[p].spec].version
<1>1. openers' = [openers EXCEPT ![p].at = place, ![p].tries = 0, ![p].seen = v]
  BY DEF Goto
<1>2. v \in Nat /\ 0 \in 0..MaxDdlRetries
  BY ProvisionAssumption DEF ProvTyped, Openers, SpecTables
<1> HIDE DEF v
<1> QED  BY <1>1, <1>2 DEF ProvTyped, Openers

LEMMA NextTableOpener ==
    ASSUME ProvTyped, NEW p \in Stores, NEW place \in OpenPlaces, NEW after \in OpenPlaces,
           tables' \in [Specs -> SpecTables], NextTable(p, place, after)
    PROVE  /\ openers' \in [Stores -> Openers]
           /\ \A q \in Stores \ {p} : openers'[q] = openers[q]
           /\ openers'[p].failures = openers[p].failures
           /\ \/ /\ openers[p].spec = SpecCount
                 /\ openers'[p].at = after /\ openers'[p].spec = 1
              \/ /\ openers[p].spec # SpecCount
                 /\ openers'[p].at = place /\ openers'[p].spec = openers[p].spec + 1
<1>1. openers[p].spec \in Specs /\ openers[p] \in Openers
  BY DEF ProvTyped, Openers
<1>2. CASE openers[p].spec = SpecCount
  <2>1. openers' = [openers EXCEPT ![p].at = after, ![p].spec = 1, ![p].tries = 0]
    BY <1>2 DEF NextTable
  <2>2. 1 \in Specs /\ 0 \in 0..MaxDdlRetries
    BY ProvisionAssumption, SpecsType
  <2> DEFINE o == [openers[p] EXCEPT !.at = after, !.spec = 1, !.tries = 0]
  <2>3. o \in Openers /\ o.failures = openers[p].failures /\ o.at = after /\ o.spec = 1
    BY <1>1, <2>2 DEF Openers
  <2>4. openers' = [openers EXCEPT ![p] = o]
    BY <2>1 DEF ProvTyped
  <2> HIDE DEF o
  <2> QED  BY <1>2, <2>3, <2>4 DEF ProvTyped
<1>3. CASE openers[p].spec # SpecCount
  <2> DEFINE v == tables'[openers[p].spec + 1].version
             n == openers[p].spec + 1
  <2>1. n \in Specs
    BY <1>1, <1>3, ProvisionAssumption DEF Specs
  <2>2. openers' = [openers EXCEPT ![p].at = place, ![p].spec = n, ![p].tries = 0,
                                   ![p].seen = v]
    BY <1>3 DEF NextTable
  <2>3. v \in Nat /\ 0 \in 0..MaxDdlRetries
    BY <2>1, ProvisionAssumption DEF SpecTables
  <2> HIDE DEF v, n
  <2>4. /\ \A q \in Stores \ {p} : openers'[q] = openers[q]
        /\ openers'[p].failures = openers[p].failures
        /\ openers'[p].at = place /\ openers'[p].spec = n
    BY <2>1, <2>2, <2>3 DEF ProvTyped, Openers
  <2>5. openers' \in [Stores -> Openers]
    <3> DEFINE o == [openers[p] EXCEPT !.at = place, !.spec = n, !.tries = 0, !.seen = v]
    <3>1. o \in Openers
      BY <1>1, <2>1, <2>3 DEF Openers
    <3>2. openers' = [openers EXCEPT ![p] = o]
      BY <2>2 DEF ProvTyped
    <3> HIDE DEF o
    <3> QED  BY <3>1, <3>2 DEF ProvTyped
  <2> QED  BY <1>3, <2>4, <2>5 DEF n
<1> QED  BY <1>2, <1>3

\* A changed table keeps what it had, and the others are as they were.
LEMMA ChangedTables ==
    ASSUME ProvTyped, NEW p \in Stores,
           NEW new \in SpecTables, Changed(p, new),
           Of(p).columns \subseteq new.columns, Of(p).cdf => new.cdf,
           new.index = Of(p).index, new.version = Of(p).version
    PROVE  /\ tables' \in [Specs -> SpecTables]
           /\ tables'[openers[p].spec].columns = new.columns
           /\ tables'[openers[p].spec].cdf = new.cdf
           /\ \A again : Grown(tables, tables', again)
<1> DEFINE s == openers[p].spec
           t == [columns |-> new.columns, cdf |-> new.cdf, index |-> new.index,
                 version |-> new.version + 1]
<1>1. s \in Specs /\ Of(p) = tables[s]
  BY DEF ProvTyped, Openers, Of
<1>2. t \in SpecTables
  BY DEF SpecTables
<1>3. tables' = [tables EXCEPT ![s] = t]
  <2>1. [new EXCEPT !.version = @ + 1] = t
    BY DEF SpecTables
  <2> QED  BY <2>1 DEF Changed
<1> HIDE DEF t, s
<1>4. tables' \in [Specs -> SpecTables] /\ tables'[s] = t
      /\ \A r \in Specs \ {s} : tables'[r] = tables[r]
  BY <1>1, <1>2, <1>3 DEF ProvTyped
<1>5. t.columns = new.columns /\ t.cdf = new.cdf /\ t.index = new.index
  BY DEF t
<1>6. ASSUME NEW again, NEW r \in Specs
      PROVE  /\ tables[r].columns \subseteq tables'[r].columns
             /\ tables[r].cdf => tables'[r].cdf
             /\ ~again /\ tables[r].index => tables'[r].index
  <2>1. CASE r = s
    BY <1>1, <1>4, <1>5, <2>1
  <2>2. CASE r # s
    BY <1>4, <2>2
  <2> QED  BY <2>1, <2>2
<1> QED  BY <1>4, <1>5, <1>6 DEF Grown, s

LEMMA ProvisionInit_Inv == ProvisionInit => ProvInv
<1> SUFFICES ASSUME ProvisionInit PROVE ProvInv
  OBVIOUS
<1>1. tables \in [Specs -> SpecTables]
  <2>1. {Table({}, FALSE), Table({"first"}, FALSE), Table({"first"}, TRUE)} \subseteq SpecTables
    BY DEF Table, SpecTables, Columns
  <2> QED  BY <2>1 DEF ProvisionInit
<1>2. ProvTyped
  <2>1. openers \in [Stores -> Openers]
    BY ClosedIsOpener DEF ProvisionInit
  <2>2. provisionFaults \in 0..MaxProvisionFaults
    BY ProvisionAssumption DEF ProvisionInit
  <2> QED  BY <1>1, <2>1, <2>2 DEF ProvisionInit, ProvTyped
<1>3. Knows(Closed, tables, rebuilt)
  BY DEF Knows, Closed, Opening
<1> QED  BY <1>2, <1>3 DEF ProvisionInit, ProvInv, MarkerIsEarned

LEMMA PlaceTypes ==
    /\ Opening \subseteq OpenPlaces
    /\ {"off", "check", "drop", "enable", "mark", "ready", "failed", "create", "look", "add",
        "cdf", "alter"} = OpenPlaces
  BY DEF OpenPlaces, Opening

\* What p's place says, drawn from the invariant.
LEMMA PlaceFacts ==
    ASSUME ProvInv, NEW p \in Stores
    PROVE  /\ ProvTyped /\ openers[p] \in Openers /\ openers[p].spec \in Specs
           /\ tables[openers[p].spec] \in SpecTables
           /\ openers[p].missing \subseteq Columns /\ openers[p].failures \in BOOLEAN
           /\ Knows(openers[p], tables, rebuilt)
  BY DEF ProvInv, ProvTyped, Openers

\* The end of a step that opens: the place is one of the opening, of a table
\* all before which are migrated, or past the last of them.
LEMMA OpenInit_Inv ==
    ASSUME ProvInv, NEW p \in Stores, Open(p) \/ Rebuild(p) \/ Die(p)
    PROVE  ProvInv'
<1>1. ProvTyped /\ rebuilt \in BOOLEAN /\ marked \in BOOLEAN
  BY DEF ProvInv, ProvTyped
<1>2. /\ tables' = tables /\ marked' = marked
      /\ rebuilt' \in BOOLEAN /\ (rebuilt => rebuilt')
      /\ provisionFaults' \in 0..MaxProvisionFaults
  <2>1. tables' = tables /\ marked' = marked
    BY DEF Open, Rebuild, Die
  <2>2. rebuilt' \in BOOLEAN /\ (rebuilt => rebuilt')
    BY <1>1 DEF Open, Rebuild, Die
  <2>3. provisionFaults' = provisionFaults \/ (Die(p) /\ provisionFaults < MaxProvisionFaults
                                               /\ provisionFaults' = provisionFaults + 1)
    BY DEF Open, Rebuild, Die
  <2>4. provisionFaults' \in 0..MaxProvisionFaults
    BY <1>1, <2>3, ProvisionAssumption DEF ProvTyped
  <2> QED  BY <2>1, <2>2, <2>4
<1>3. /\ openers' \in [Stores -> Openers]
      /\ \A q \in Stores \ {p} : openers'[q] = openers[q]
      /\ Knows(openers'[p], tables, rebuilt')
  <2>1. CASE Open(p)
    <3> DEFINE v == tables[1].version
               o == [Closed EXCEPT !.at = "create", !.seen = v]
    <3>1. v \in Nat /\ "create" \in OpenPlaces
      BY <1>1, SpecsType, PlaceTypes DEF ProvTyped, SpecTables
    <3>2. openers' = [openers EXCEPT ![p] = o]
      BY <2>1 DEF Open
    <3>3. o \in Openers /\ o.at = "create" /\ o.spec = 1
      BY <3>1, ClosedIsOpener DEF Openers, Closed
    <3> HIDE DEF o
    <3>4. Knows(o, tables, rebuilt')
      BY <3>3, SpecsType, ProvisionAssumption DEF Knows, Opening, Specs
    <3> QED  BY <1>1, <3>2, <3>3, <3>4 DEF ProvTyped
  <2>2. CASE Rebuild(p)
    <3> DEFINE o == [Closed EXCEPT !.at = "drop"]
    <3>1. "drop" \in OpenPlaces /\ rebuilt'
      BY <2>2, PlaceTypes DEF Rebuild
    <3>2. openers' = [openers EXCEPT ![p] = o]
      BY <2>2 DEF Rebuild
    <3>3. o \in Openers /\ o.at = "drop" /\ o.spec = 1
      BY <3>1, ClosedIsOpener DEF Openers, Closed
    <3> HIDE DEF o
    <3>4. Knows(o, tables, rebuilt')
      BY <3>1, <3>3 DEF Knows, Opening
    <3> QED  BY <1>1, <3>2, <3>3, <3>4 DEF ProvTyped
  <2>3. CASE Die(p)
    <3>1. openers' = [openers EXCEPT ![p] = Closed]
      BY <2>3 DEF Die
    <3>2. Knows(Closed, tables, rebuilt')
      BY DEF Knows, Closed, Opening
    <3> QED  BY <1>1, <3>1, <3>2, ClosedIsOpener DEF ProvTyped
  <2> QED  BY <2>1, <2>2, <2>3
<1>4. OneOpener(p)
  BY <1>1, <1>2, <1>3, GrownRefl DEF OneOpener, ProvTyped
<1> QED  BY <1>4, OneOpener_Inv

LEMMA Create_Inv ==
    ASSUME ProvInv, NEW p \in Stores, Create(p)
    PROVE  ProvInv'
<1> DEFINE s == openers[p].spec
<1>1. /\ ProvTyped /\ s \in Specs /\ tables[s] \in SpecTables
      /\ \A r \in Specs : r < s => Migrated(tables[r])
  BY PlaceFacts DEF Create, At, Knows, Opening
<1>2. /\ tables' \in [Specs -> SpecTables]
      /\ \A again : Grown(tables, tables', again)
  <2>1. CASE Of(p).columns = {}
    <3> DEFINE new == [Of(p) EXCEPT !.columns = Columns, !.cdf = TRUE]
    <3>1. /\ new \in SpecTables /\ Changed(p, new)
          /\ Of(p).columns \subseteq new.columns /\ (Of(p).cdf => new.cdf)
          /\ new.index = Of(p).index /\ new.version = Of(p).version
      BY <1>1, <2>1 DEF Create, Of, SpecTables
    <3> HIDE DEF new
    <3> QED  BY <1>1, <3>1, ChangedTables
  <2>2. CASE Of(p).columns # {}
    BY <1>1, <2>2, GrownRefl DEF Create, ProvTyped
  <2> QED  BY <2>1, <2>2
<1>3. /\ openers' \in [Stores -> Openers]
      /\ \A q \in Stores \ {p} : openers'[q] = openers[q]
      /\ openers'[p].at = "look" /\ openers'[p].spec = s
  <2>1. "look" \in OpenPlaces /\ Goto(p, "look")
    BY PlaceTypes DEF Create
  <2> QED  BY <1>1, <1>2, <2>1, GotoOpener
<1>4. /\ marked' = marked /\ rebuilt' = rebuilt /\ provisionFaults' = provisionFaults
  BY DEF Create
<1>5. Knows(openers'[p], tables', rebuilt')
  <2>1. Grown(tables, tables', rebuilt') /\ s \in Nat
    BY <1>1, <1>2, SpecsType
  <2>2. \A r \in Specs : tables'[r].columns \subseteq Columns
    BY <1>2 DEF SpecTables
  <2>3. \A r \in Specs : r < s => Migrated(tables'[r])
    BY <1>1, <2>1, <2>2 DEF Grown, Migrated
  <2> QED  BY <1>3, <2>3 DEF Knows
<1>6. OneOpener(p)
  BY <1>1, <1>2, <1>3, <1>4, <1>5 DEF OneOpener, ProvTyped
<1> QED  BY <1>6, OneOpener_Inv

LEMMA Look_Inv ==
    ASSUME ProvInv, NEW p \in Stores, Look(p)
    PROVE  ProvInv'
<1> DEFINE s == openers[p].spec
           m == Missing(p)
           place == IF m = {} THEN "cdf" ELSE "add"
           v == Of(p).version
<1>1. /\ ProvTyped /\ s \in Specs /\ tables[s] \in SpecTables /\ Of(p) = tables[s]
      /\ \A r \in Specs : r < s => Migrated(tables[r])
  BY PlaceFacts DEF Look, At, Knows, Opening, Of
<1>2. /\ m \subseteq Columns /\ Columns \subseteq m \cup tables[s].columns
      /\ (m = {} => tables[s].columns = Columns) /\ place \in OpenPlaces /\ v \in Nat
  BY <1>1, PlaceTypes DEF Missing, SpecTables
<1>3. /\ openers' = [openers EXCEPT ![p].at = place, ![p].missing = m, ![p].seen = v]
      /\ tables' = tables /\ marked' = marked /\ rebuilt' = rebuilt
      /\ provisionFaults' = provisionFaults
  BY DEF Look
<1>4. place \in {"cdf", "add"} /\ (place = "cdf" <=> m = {})
  OBVIOUS
<1> HIDE DEF m, v, place
<1>5. /\ openers' \in [Stores -> Openers]
      /\ \A q \in Stores \ {p} : openers'[q] = openers[q]
      /\ openers'[p].at = place /\ openers'[p].spec = s /\ openers'[p].missing = m
  <2> DEFINE o == [openers[p] EXCEPT !.at = place, !.missing = m, !.seen = v]
  <2>1. /\ openers[p] \in Openers /\ openers \in [Stores -> Openers]
    BY <1>1 DEF ProvTyped
  <2>2. o \in Openers /\ o.at = place /\ o.spec = s /\ o.missing = m
    BY <1>2, <2>1 DEF Openers
  <2>3. openers' = [openers EXCEPT ![p] = o]
    BY <1>3, <2>1
  <2> HIDE DEF o
  <2> QED  BY <2>1, <2>2, <2>3
<1>6. Knows(openers'[p], tables', rebuilt')
  BY <1>1, <1>2, <1>3, <1>4, <1>5 DEF Knows, Opening
<1>7. OneOpener(p)
  BY <1>1, <1>3, <1>5, <1>6, GrownRefl DEF OneOpener, ProvTyped
<1> QED  BY <1>7, OneOpener_Inv

LEMMA Add_Inv ==
    ASSUME ProvInv, NEW p \in Stores, Add(p)
    PROVE  ProvInv'
<1> DEFINE s == openers[p].spec
           m == openers[p].missing
<1>1. /\ ProvTyped /\ s \in Specs /\ tables[s] \in SpecTables /\ Of(p) = tables[s]
      /\ \A r \in Specs : r < s => Migrated(tables[r])
      /\ Columns \subseteq m \cup tables[s].columns /\ m \subseteq Columns
  BY PlaceFacts DEF Add, At, Knows, Opening, Of
<1>2. /\ marked' = marked /\ rebuilt' = rebuilt /\ provisionFaults' = provisionFaults
  BY DEF Add
<1>3. CASE m \cap Of(p).columns = {}
  <2> DEFINE new == [Of(p) EXCEPT !.columns = @ \cup m]
  <2>1. /\ new \in SpecTables /\ Changed(p, new) /\ Goto(p, "cdf")
        /\ new.columns = Columns
        /\ Of(p).columns \subseteq new.columns /\ (Of(p).cdf => new.cdf)
        /\ new.index = Of(p).index /\ new.version = Of(p).version
    BY <1>1, <1>3 DEF Add, SpecTables
  <2> HIDE DEF new
  <2>2. /\ tables' \in [Specs -> SpecTables] /\ tables'[s].columns = Columns
        /\ \A again : Grown(tables, tables', again)
    BY <1>1, <2>1, ChangedTables
  <2>3. /\ openers' \in [Stores -> Openers]
        /\ \A q \in Stores \ {p} : openers'[q] = openers[q]
        /\ openers'[p].at = "cdf" /\ openers'[p].spec = s
    BY <1>1, <2>1, <2>2, GotoOpener, PlaceTypes
  <2>4. \A r \in Specs : r < s => Migrated(tables'[r])
    <3>1. Grown(tables, tables', rebuilt')
      BY <2>2
    <3>2. \A r \in Specs : tables'[r].columns \subseteq Columns
      BY <2>2 DEF SpecTables
    <3> QED  BY <1>1, <3>1, <3>2 DEF Grown, Migrated
  <2>5. Knows(openers'[p], tables', rebuilt')
    BY <2>2, <2>3, <2>4 DEF Knows
  <2>6. OneOpener(p)
    BY <1>1, <1>2, <2>2, <2>3, <2>5 DEF OneOpener, ProvTyped
  <2> QED  BY <2>6, OneOpener_Inv
<1>4. CASE m \cap Of(p).columns # {}
  <2>1. tables' = tables /\ Goto(p, "failed")
    BY <1>4 DEF Add
  <2>2. /\ openers' \in [Stores -> Openers]
        /\ \A q \in Stores \ {p} : openers'[q] = openers[q]
        /\ openers'[p].at = "failed"
    BY <1>1, <2>1, GotoOpener, PlaceTypes DEF ProvTyped
  <2>3. Knows(openers'[p], tables', rebuilt')
    BY <2>2 DEF Knows, Opening
  <2>4. OneOpener(p)
    BY <1>1, <1>2, <2>1, <2>2, <2>3, GrownRefl DEF OneOpener, ProvTyped
  <2> QED  BY <2>4, OneOpener_Inv
<1> QED  BY <1>3, <1>4

\* A table that is done: the next one is created, or all are there.
LEMMA TableDone_Inv ==
    ASSUME ProvInv, NEW p \in Stores, NextTable(p, "create", "check"),
           tables' \in [Specs -> SpecTables], \A again : Grown(tables, tables', again),
           \A r \in Specs : r <= openers[p].spec => Migrated(tables'[r]),
           marked' = marked, rebuilt' = rebuilt, provisionFaults' = provisionFaults
    PROVE  ProvInv'
<1>1. ProvTyped /\ openers[p].spec \in Specs
  BY PlaceFacts
<1>2. "create" \in OpenPlaces /\ "check" \in OpenPlaces
  BY PlaceTypes
<1>3. /\ openers' \in [Stores -> Openers]
      /\ \A q \in Stores \ {p} : openers'[q] = openers[q]
      /\ \/ /\ openers[p].spec = SpecCount
            /\ openers'[p].at = "check" /\ openers'[p].spec = 1
         \/ /\ openers[p].spec # SpecCount
            /\ openers'[p].at = "create" /\ openers'[p].spec = openers[p].spec + 1
  BY <1>1, <1>2, NextTableOpener
<1>4. Knows(openers'[p], tables', rebuilt')
  <2>1. CASE openers[p].spec = SpecCount
    <3>1. \A r \in Specs : r <= SpecCount
      BY ProvisionAssumption DEF Specs
    <3>2. \A r \in Specs : Migrated(tables'[r])
      BY <2>1, <3>1
    <3> QED  BY <1>3, <2>1, <3>2 DEF Knows, Opening
  <2>2. CASE openers[p].spec # SpecCount
    <3>1. \A r \in Specs : r < openers[p].spec + 1 => r <= openers[p].spec
      BY <1>1, ProvisionAssumption DEF Specs
    <3> QED  BY <1>3, <2>2, <3>1 DEF Knows, Opening
  <2> QED  BY <2>1, <2>2
<1>5. OneOpener(p)
  BY <1>1, <1>3, <1>4 DEF OneOpener, ProvTyped
<1> QED  BY <1>5, OneOpener_Inv

LEMMA ReadCdf_Inv ==
    ASSUME ProvInv, NEW p \in Stores, ReadCdf(p)
    PROVE  ProvInv'
<1> DEFINE s == openers[p].spec
<1>1. /\ ProvTyped /\ s \in Specs /\ tables[s] \in SpecTables /\ Of(p) = tables[s]
      /\ \A r \in Specs : r < s => Migrated(tables[r])
      /\ tables[s].columns = Columns
  BY PlaceFacts DEF ReadCdf, At, Knows, Opening, Of
<1>2. /\ tables' = tables /\ marked' = marked /\ rebuilt' = rebuilt
      /\ provisionFaults' = provisionFaults
  BY DEF ReadCdf
<1>3. tables' \in [Specs -> SpecTables] /\ \A again : Grown(tables, tables', again)
  BY <1>1, <1>2, GrownRefl DEF ProvTyped
<1>4. CASE Of(p).cdf
  <2>1. NextTable(p, "create", "check")
    BY <1>4 DEF ReadCdf
  <2>2. \A r \in Specs : r <= s => r < s \/ r = s
    BY <1>1, ProvisionAssumption DEF Specs
  <2>3. \A r \in Specs : r <= s => Migrated(tables'[r])
    BY <1>1, <1>2, <1>4, <2>2 DEF Migrated
  <2> QED  BY <1>2, <1>3, <2>1, <2>3, TableDone_Inv
<1>5. CASE ~Of(p).cdf
  <2>1. Goto(p, "alter") /\ "alter" \in OpenPlaces
    BY <1>5, PlaceTypes DEF ReadCdf
  <2>2. /\ openers' \in [Stores -> Openers]
        /\ \A q \in Stores \ {p} : openers'[q] = openers[q]
        /\ openers'[p].at = "alter" /\ openers'[p].spec = s
    BY <1>1, <1>3, <2>1, GotoOpener
  <2>3. Knows(openers'[p], tables', rebuilt')
    BY <1>1, <1>2, <2>2 DEF Knows
  <2>4. OneOpener(p)
    BY <1>1, <1>2, <1>3, <2>2, <2>3 DEF OneOpener, ProvTyped
  <2> QED  BY <2>4, OneOpener_Inv
<1> QED  BY <1>4, <1>5

LEMMA AlterCdf_Inv ==
    ASSUME ProvInv, NEW p \in Stores, AlterCdf(p)
    PROVE  ProvInv'
<1> DEFINE s   == openers[p].spec
           new == [Of(p) EXCEPT !.cdf = TRUE]
<1>1. /\ ProvTyped /\ s \in Specs /\ tables[s] \in SpecTables /\ Of(p) = tables[s]
      /\ \A r \in Specs : r < s => Migrated(tables[r])
      /\ tables[s].columns = Columns
  BY PlaceFacts DEF AlterCdf, At, Knows, Opening, Of
<1>2. /\ new \in SpecTables /\ Changed(p, new) /\ new.columns = Columns /\ new.cdf = TRUE
      /\ Of(p).columns \subseteq new.columns /\ (Of(p).cdf => new.cdf)
      /\ new.index = Of(p).index /\ new.version = Of(p).version
  BY <1>1 DEF AlterCdf, SpecTables
<1> HIDE DEF new
<1>3. /\ tables' \in [Specs -> SpecTables]
      /\ tables'[s].columns = Columns /\ tables'[s].cdf = TRUE
      /\ \A again : Grown(tables, tables', again)
  BY <1>1, <1>2, ChangedTables
<1>4. \A r \in Specs : r <= s => Migrated(tables'[r])
  <2>1. \A r \in Specs : r <= s => r < s \/ r = s
    BY <1>1, ProvisionAssumption DEF Specs
  <2>2. Grown(tables, tables', rebuilt')
    BY <1>3
  <2>3. \A r \in Specs : tables'[r].columns \subseteq Columns
    BY <1>3 DEF SpecTables
  <2>4. ASSUME NEW r \in Specs, r < s PROVE Migrated(tables'[r])
    <3>1. Migrated(tables[r])
      BY <1>1, <2>4
    <3>2. tables[r].columns \subseteq tables'[r].columns /\ (tables[r].cdf => tables'[r].cdf)
      BY <2>2 DEF Grown
    <3> QED  BY <2>3, <3>1, <3>2 DEF Migrated
  <2>5. Migrated(tables'[s])
    BY <1>3 DEF Migrated
  <2> QED  BY <2>1, <2>4, <2>5
<1> QED  BY <1>3, <1>4, TableDone_Inv DEF AlterCdf

LEMMA StatementRefused_Inv ==
    ASSUME ProvInv, NEW p \in Stores, StatementRefused(p)
    PROVE  ProvInv'
<1> DEFINE old == openers[p]
           o   == openers'[p]
           v   == Of(p).version
<1>1. /\ ProvTyped /\ old \in Openers /\ v \in Nat /\ Knows(old, tables, rebuilt)
      /\ old.spec \in Specs
  BY PlaceFacts DEF Of, SpecTables
<1>2. /\ tables' = tables /\ marked' = marked /\ rebuilt' = rebuilt
      /\ provisionFaults' = provisionFaults
  BY DEF StatementRefused
<1>3. /\ openers' \in [Stores -> Openers]
      /\ \A q \in Stores \ {p} : openers'[q] = openers[q]
      /\ o.spec = old.spec /\ o.missing = old.missing
      /\ o.failures = old.failures /\ o.at \in {old.at, "failed"}
  <2>1. CASE old.tries = MaxDdlRetries
    <3>1. openers' = [openers EXCEPT ![p].at = "failed"]
      BY <2>1 DEF StatementRefused
    <3> QED  BY <1>1, <3>1, PlaceTypes DEF ProvTyped, Openers
  <2>2. CASE old.tries # MaxDdlRetries
    <3> DEFINE t == openers[p].tries + 1
    <3>1. openers' = [openers EXCEPT ![p].tries = t, ![p].seen = v]
      BY <2>2 DEF StatementRefused
    <3>2. t \in 0..MaxDdlRetries
      BY <1>1, <2>2, ProvisionAssumption DEF Openers
    <3> HIDE DEF t, v
    <3> QED  BY <1>1, <3>1, <3>2 DEF ProvTyped, Openers
  <2> QED  BY <2>1, <2>2
<1> HIDE DEF o
<1>4. Knows(o, tables, rebuilt)
  BY <1>1, <1>3 DEF Knows, Opening
<1>5. OneOpener(p)
  BY <1>1, <1>2, <1>3, <1>4, GrownRefl DEF OneOpener, ProvTyped, o
<1> QED  BY <1>5, OneOpener_Inv

LEMMA Check_Inv ==
    ASSUME ProvInv, NEW p \in Stores, Check(p)
    PROVE  ProvInv'
<1> DEFINE place == IF marked THEN "ready" ELSE "enable"
<1>1. ProvTyped /\ openers[p].spec = 1
  BY PlaceFacts DEF Check, At, Knows
<1>2. /\ openers' = [openers EXCEPT ![p].at = place]
      /\ tables' = tables /\ marked' = marked /\ rebuilt' = rebuilt
      /\ provisionFaults' = provisionFaults /\ place \in OpenPlaces
      /\ place \in {"ready", "enable"}
  BY PlaceTypes DEF Check
<1> HIDE DEF place
<1>3. /\ openers' \in [Stores -> Openers]
      /\ \A q \in Stores \ {p} : openers'[q] = openers[q]
      /\ openers'[p].at = place /\ openers'[p].spec = 1
  BY <1>1, <1>2 DEF ProvTyped, Openers
<1>4. Knows(openers'[p], tables', rebuilt')
  BY <1>2, <1>3, ProvisionAssumption DEF Knows, Opening, Specs
<1>5. OneOpener(p)
  BY <1>1, <1>2, <1>3, <1>4, GrownRefl DEF OneOpener, ProvTyped
<1> QED  BY <1>5, OneOpener_Inv

LEMMA Mark_Inv ==
    ASSUME ProvInv, NEW p \in Stores, Mark(p)
    PROVE  ProvInv'
<1>1. ProvTyped /\ (~rebuilt => \A s \in Specs : tables[s].index)
  BY PlaceFacts DEF Mark, At, Knows
<1>2. /\ openers' = [openers EXCEPT ![p].at = "ready"] /\ marked' = TRUE
      /\ tables' = tables /\ rebuilt' = rebuilt /\ provisionFaults' = provisionFaults
      /\ "ready" \in OpenPlaces
  BY PlaceTypes DEF Mark
<1>3. /\ openers' \in [Stores -> Openers]
      /\ \A q \in Stores \ {p} : openers'[q] = openers[q] /\ openers'[p].at = "ready"
  BY <1>1, <1>2 DEF ProvTyped, Openers
<1>4. openers'[p].at = "ready"
  BY <1>1, <1>2 DEF ProvTyped, Openers
<1>5. Knows(openers'[p], tables', rebuilt')
  BY <1>4 DEF Knows, Opening
<1>6. OneOpener(p)
  BY <1>1, <1>2, <1>3, <1>5, GrownRefl DEF OneOpener, ProvTyped
<1> QED  BY <1>6, OneOpener_Inv

LEMMA Drop_Inv ==
    ASSUME ProvInv, NEW p \in Stores, Drop(p)
    PROVE  ProvInv'
<1> DEFINE s == openers[p].spec
<1>1. ProvTyped /\ rebuilt /\ s \in Specs
  BY PlaceFacts DEF Drop, At, Knows
<1>2. /\ tables' = [tables EXCEPT ![s].index = FALSE]
      /\ marked' = marked /\ rebuilt' = rebuilt /\ provisionFaults' = provisionFaults
      /\ NextTable(p, "drop", "enable") /\ "drop" \in OpenPlaces /\ "enable" \in OpenPlaces
  BY PlaceTypes DEF Drop
<1>3. /\ tables' \in [Specs -> SpecTables]
      /\ \A r \in Specs : /\ tables'[r].columns = tables[r].columns
                          /\ tables'[r].cdf = tables[r].cdf
  BY <1>1, <1>2 DEF ProvTyped, SpecTables
<1>4. /\ openers' \in [Stores -> Openers]
      /\ \A q \in Stores \ {p} : openers'[q] = openers[q]
      /\ openers'[p].at \in {"drop", "enable"}
  <2>1. /\ openers' \in [Stores -> Openers]
        /\ \A q \in Stores \ {p} : openers'[q] = openers[q]
        /\ openers'[p].at = "enable" \/ openers'[p].at = "drop"
    <3>1. ProvTyped /\ tables' \in [Specs -> SpecTables] /\ NextTable(p, "drop", "enable")
          /\ "drop" \in OpenPlaces /\ "enable" \in OpenPlaces
      BY <1>1, <1>2, <1>3
    <3> QED  BY <3>1, NextTableOpener
  <2> QED  BY <2>1
<1>5. Knows(openers'[p], tables', rebuilt')
  BY <1>1, <1>2, <1>4 DEF Knows, Opening
<1>6. OneOpener(p)
  BY <1>1, <1>2, <1>3, <1>4, <1>5 DEF OneOpener, ProvTyped, Grown
<1> QED  BY <1>6, OneOpener_Inv

LEMMA Enable_Inv ==
    ASSUME ProvInv, NEW p \in Stores, Enable(p)
    PROVE  ProvInv'
<1> DEFINE s    == openers[p].spec
           old  == openers[p]
           past == AfterEnable(old.failures)
<1>1. /\ ProvTyped /\ s \in Specs /\ old \in Openers /\ old.failures \in BOOLEAN
      /\ ~rebuilt /\ ~old.failures => \A r \in Specs : r < s => tables[r].index
  BY PlaceFacts DEF Enable, At, Knows
<1>2. marked' = marked /\ rebuilt' = rebuilt
  BY DEF Enable
<1>3. /\ past \in {"ready", "mark"} /\ past \in OpenPlaces
      /\ past = "mark" => ~old.failures
      /\ AfterEnable(TRUE) = "ready" /\ {"ready", "enable"} \subseteq OpenPlaces
  BY <1>1, PlaceTypes DEF AfterEnable
<1>4. \A r \in Specs : (r <= SpecCount /\ (r < s + 1 => r < s \/ r = s) /\ ~(r < 1))
  BY <1>1, ProvisionAssumption DEF Specs
<1>5. CASE /\ tables' = [tables EXCEPT ![s].index = TRUE]
           /\ NextTable(p, "enable", past)
           /\ UNCHANGED provisionFaults
  <2> HIDE DEF past
  <2>1. /\ tables' \in [Specs -> SpecTables] /\ tables'[s].index
        /\ \A r \in Specs \ {s} : tables'[r] = tables[r]
        /\ tables'[s].columns = tables[s].columns /\ tables'[s].cdf = tables[s].cdf
    BY <1>1, <1>5 DEF ProvTyped, SpecTables
  <2>2. Grown(tables, tables', rebuilt')
    BY <2>1 DEF Grown
  <2>3. /\ openers' \in [Stores -> Openers]
        /\ \A q \in Stores \ {p} : openers'[q] = openers[q]
        /\ openers'[p].failures = old.failures
        /\ \/ s = SpecCount /\ openers'[p].at = past /\ openers'[p].spec = 1
           \/ s # SpecCount /\ openers'[p].at = "enable" /\ openers'[p].spec = s + 1
    <3>1. ProvTyped /\ NextTable(p, "enable", past) /\ past \in OpenPlaces
      BY <1>1, <1>3, <1>5
    <3>2. "enable" \in OpenPlaces /\ tables' \in [Specs -> SpecTables]
      BY <1>3, <2>1
    <3> QED  BY <3>1, <3>2, NextTableOpener
  <2>4. ~rebuilt /\ ~old.failures => \A r \in Specs : r < s + 1 => tables'[r].index
    BY <1>1, <1>4, <2>1
  <2>5. Knows(openers'[p], tables', rebuilt')
    <3>1. CASE s = SpecCount
      <4>1. \A r \in Specs : r < s + 1
        BY <1>1, <3>1, SpecsType, ProvisionAssumption DEF Specs
      <4> QED  BY <1>2, <1>3, <2>3, <2>4, <3>1, <4>1 DEF Knows, Opening
    <3>2. CASE s # SpecCount
      BY <1>2, <2>3, <2>4, <3>2 DEF Knows, Opening
    <3> QED  BY <3>1, <3>2
  <2>6. OneOpener(p)
    BY <1>1, <1>2, <1>5, <2>1, <2>2, <2>3, <2>5 DEF OneOpener, ProvTyped
  <2> QED  BY <2>6, OneOpener_Inv
<1>6. CASE /\ provisionFaults < MaxProvisionFaults
           /\ provisionFaults' = provisionFaults + 1
           /\ UNCHANGED tables
           /\ IF s = SpecCount
              THEN openers' = [openers EXCEPT ![p].at = AfterEnable(TRUE), ![p].spec = 1,
                                              ![p].failures = TRUE]
              ELSE openers' = [openers EXCEPT ![p].spec = @ + 1, ![p].failures = TRUE]
  <2> DEFINE o == openers'[p]
  <2>1. /\ openers' \in [Stores -> Openers]
        /\ \A q \in Stores \ {p} : openers'[q] = openers[q]
        /\ o.at \in {"ready", "enable"} /\ o.failures
    <3>1. CASE s = SpecCount
      <4>1. openers' = [openers EXCEPT ![p].at = "ready", ![p].spec = 1, ![p].failures = TRUE]
        BY <1>3, <1>6, <3>1
      <4> QED  BY <1>1, <1>3, <4>1, SpecsType DEF ProvTyped, Openers
    <3>2. CASE s # SpecCount
      <4> DEFINE n == s + 1
      <4>1. openers' = [openers EXCEPT ![p].spec = n, ![p].failures = TRUE]
        BY <1>6, <3>2
      <4>2. n \in Specs
        BY <1>1, <3>2, ProvisionAssumption DEF Specs
      <4>3. old.at = "enable"
        BY DEF Enable, At
      <4> HIDE DEF n
      <4> QED  BY <1>1, <4>1, <4>2, <4>3 DEF ProvTyped, Openers
    <3> QED  BY <3>1, <3>2
  <2>4. Knows(o, tables', rebuilt')
    BY <2>1 DEF Knows, Opening
  <2>5. tables' = tables /\ provisionFaults' \in 0..MaxProvisionFaults
    BY <1>1, <1>6, ProvisionAssumption DEF ProvTyped
  <2>6. OneOpener(p)
    BY <1>1, <1>2, <2>1, <2>4, <2>5, GrownRefl DEF OneOpener, ProvTyped, o
  <2> QED  BY <2>6, OneOpener_Inv
<1> QED  BY <1>5, <1>6 DEF Enable

LEMMA ProvisionNext_Inv == ProvInv /\ [ProvisionNext]_provVars => ProvInv'
<1> SUFFICES ASSUME ProvInv, [ProvisionNext]_provVars PROVE ProvInv'
  OBVIOUS
<1>1. CASE UNCHANGED provVars
  BY <1>1 DEF provVars, ProvInv, ProvTyped, MarkerIsEarned
<1>2. CASE ProvisionNext
  BY <1>2, OpenInit_Inv, Create_Inv, Look_Inv, Add_Inv, ReadCdf_Inv, AlterCdf_Inv,
     StatementRefused_Inv, Check_Inv, Enable_Inv, Mark_Inv, Drop_Inv
  DEF ProvisionNext
<1> QED  BY <1>1, <1>2

(* A process that gets past ensure_tables finds every table of its version, and
   the marker stands for the indexes of all of them until they are rebuilt,
   however many processes open the store together, whatever version they found,
   and wherever one of them died or was refused. *)
THEOREM OpenedIsAlwaysProvisioned == ProvisionSpec => []OpenedIsProvisioned
<1>1. ProvInv => OpenedIsProvisioned
  BY DEF ProvInv, OpenedIsProvisioned, OpenedMeansMigrated, Knows, Migrated, At
<1> QED  BY <1>1, ProvisionInit_Inv, ProvisionNext_Inv, PTL DEF ProvisionSpec

(* ConversionRun                                                           *)

Launches == [at : {"new", "next", "load", "translate", "upload", "ended", "dead"},
             selected : Seq(Rows), todo : Seq(Rows), exit : {0, 1}, run : Nat]

RunRecords == [sweep : Sweeps, row : Rows, todo : SUBSET (ConvScripts \cup {Verdicts})]

ConversionTyped ==
    /\ rowStatus \in [Rows -> {"Pending", "In Progress", "Completed", "Failed"}]
    /\ sweep \in [Sweeps -> Launches]
    /\ runs \in Seq(RunRecords)

\* A run of row r by launch s that uploaded all it had to.
DeliveredBy(s, r, rs) ==
    \E k \in DOMAIN rs : rs[k].sweep = s /\ rs[k].row = r /\ rs[k].todo = {}

Taken(o) == Len(o.selected) - Len(o.todo)

\* What launch s still has to do is the rest of what it selected, and as long as
\* its exit code is 0 it has delivered all that came before.
OnItsWay(o, s, rs) ==
    /\ Len(o.todo) <= Len(o.selected)
    /\ \A i \in 1..Len(o.todo) : o.todo[i] = o.selected[Taken(o) + i]
    /\ \A i \in 1..Taken(o) : DeliveredBy(s, o.selected[i], rs)

\* While a row is worked on it is the head of the list, and from the moment it
\* is loaded the run the launch points at is its own run of that row.
StandsWell(o, s, rs) ==
    /\ o.at \in {"load", "translate", "upload"} => o.todo # << >>
    /\ o.at \in {"translate", "upload"} =>
          o.run \in DOMAIN rs /\ rs[o.run].sweep = s /\ rs[o.run].row = Head(o.todo)
    /\ o.at = "ended" /\ o.exit = 0 => o.todo = << >>
    /\ o.exit = 0 => OnItsWay(o, s, rs)

\* A row is marked done by the run that delivered it, and by no other.
DoneIsDelivered(status, rs) ==
    \A r \in Rows : status[r] = "Completed" => \E s \in Sweeps : DeliveredBy(s, r, rs)

ConvInv ==
    /\ ConversionTyped
    /\ \A s \in Sweeps : StandsWell(sweep[s], s, runs)
    /\ DoneIsDelivered(rowStatus, runs)

\* Runs are added, and uploads made; what was delivered stays so.
RunsGrow(rs, rs2) ==
    /\ DOMAIN rs \subseteq DOMAIN rs2
    /\ \A k \in DOMAIN rs : /\ rs2[k].sweep = rs[k].sweep /\ rs2[k].row = rs[k].row
                            /\ rs[k].todo = {} => rs2[k].todo = {}

LEMMA DeliveryStays ==
    ASSUME NEW rs, NEW rs2, RunsGrow(rs, rs2), NEW s, NEW r, DeliveredBy(s, r, rs)
    PROVE  DeliveredBy(s, r, rs2)
  BY DEF RunsGrow, DeliveredBy

LEMMA OnItsWayStays ==
    ASSUME NEW rs, NEW rs2, RunsGrow(rs, rs2), NEW s, NEW o, OnItsWay(o, s, rs)
    PROVE  OnItsWay(o, s, rs2)
  BY DeliveryStays DEF OnItsWay

LEMMA StandsWellStays ==
    ASSUME NEW rs, NEW rs2, RunsGrow(rs, rs2), NEW s, NEW o, StandsWell(o, s, rs)
    PROVE  StandsWell(o, s, rs2)
<1>1. o.exit = 0 => OnItsWay(o, s, rs2)
  BY OnItsWayStays DEF StandsWell
<1>2. o.run \in DOMAIN rs => /\ o.run \in DOMAIN rs2
                             /\ rs2[o.run].sweep = rs[o.run].sweep
                             /\ rs2[o.run].row = rs[o.run].row
  BY DEF RunsGrow
<1> QED  BY <1>1, <1>2 DEF StandsWell

\* What a step of launch s has to show: the others did not move, the runs only
\* grew, and a row it marked done is delivered.
OneLaunch(s) ==
    /\ sweep' \in [Sweeps -> Launches]
    /\ \A t \in Sweeps \ {s} : sweep'[t] = sweep[t]
    /\ runs' \in Seq(RunRecords) /\ RunsGrow(runs, runs')
    /\ StandsWell(sweep'[s], s, runs')
    /\ rowStatus' \in [Rows -> {"Pending", "In Progress", "Completed", "Failed"}]
    /\ \A r \in Rows : rowStatus'[r] = "Completed" =>
          rowStatus[r] = "Completed" \/ DeliveredBy(s, r, runs')

LEMMA OneLaunch_Inv ==
    ASSUME ConvInv, NEW s \in Sweeps, OneLaunch(s)
    PROVE  ConvInv'
<1>1. ConversionTyped'
  BY DEF OneLaunch, ConversionTyped
<1>2. \A t \in Sweeps : StandsWell(sweep'[t], t, runs')
  <2>1. RunsGrow(runs, runs')
    BY DEF OneLaunch
  <2>2. ASSUME NEW t \in Sweeps \ {s} PROVE StandsWell(sweep'[t], t, runs')
    <3>1. StandsWell(sweep[t], t, runs) /\ sweep'[t] = sweep[t]
      BY DEF ConvInv, OneLaunch
    <3> QED  BY <2>1, <3>1, StandsWellStays
  <2> QED  BY <2>2 DEF OneLaunch
<1>3. DoneIsDelivered(rowStatus', runs')
  <2>1. RunsGrow(runs, runs')
    BY DEF OneLaunch
  <2>2. ASSUME NEW r \in Rows, rowStatus[r] = "Completed"
        PROVE  \E t \in Sweeps : DeliveredBy(t, r, runs')
    <3>1. PICK t \in Sweeps : DeliveredBy(t, r, runs)
      BY <2>2 DEF ConvInv, DoneIsDelivered
    <3>2. DeliveredBy(t, r, runs')
      BY <2>1, <3>1, DeliveryStays
    <3> QED  BY <3>2
  <2> QED  BY <2>2 DEF OneLaunch, DoneIsDelivered
<1> QED  BY <1>1, <1>2, <1>3 DEF ConvInv

LEMMA ConversionInit_Inv == ConversionInit => ConvInv
<1> SUFFICES ASSUME ConversionInit PROVE ConvInv
  OBVIOUS
<1>1. NotStarted \in Launches /\ << >> \in Seq(RunRecords)
  BY DEF NotStarted, Launches
<1>2. ConversionTyped
  BY <1>1 DEF ConversionInit, ConversionTyped
<1>3. \A s \in Sweeps : StandsWell(NotStarted, s, << >>)
  BY DEF StandsWell, OnItsWay, Taken, NotStarted
<1> QED  BY <1>2, <1>3 DEF ConversionInit, ConvInv, DoneIsDelivered

\* What the invariant says of one launch.
LEMMA LaunchFacts ==
    ASSUME ConvInv, NEW s \in Sweeps
    PROVE  /\ ConversionTyped /\ sweep[s] \in Launches /\ StandsWell(sweep[s], s, runs)
           /\ sweep[s].todo \in Seq(Rows) /\ sweep[s].selected \in Seq(Rows)
           /\ RunsGrow(runs, runs)
  BY DEF ConvInv, ConversionTyped, Launches, RunsGrow

\* A launch that moves on with the same row, and the same runs.
LEMMA Advances_Launch ==
    ASSUME ConvInv, NEW s \in Sweeps, NEW step, Advances(s, step), runs' = runs,
           step \in {"load", "upload", "ended", "dead"},
           step = "load" => sweep[s].todo # << >>,
           step = "upload" => sweep[s].at = "translate",
           step = "ended" => sweep[s].todo = << >>
    PROVE  /\ sweep' \in [Sweeps -> Launches]
           /\ \A t \in Sweeps \ {s} : sweep'[t] = sweep[t]
           /\ StandsWell(sweep'[s], s, runs')
<1>1. ConversionTyped /\ sweep[s] \in Launches /\ StandsWell(sweep[s], s, runs)
  BY LaunchFacts
<1>2. sweep' = [sweep EXCEPT ![s].at = step]
  BY DEF Advances
<1>3. /\ sweep' \in [Sweeps -> Launches]
      /\ \A t \in Sweeps \ {s} : sweep'[t] = sweep[t]
      /\ sweep'[s].at = step /\ sweep'[s].todo = sweep[s].todo
      /\ sweep'[s].selected = sweep[s].selected /\ sweep'[s].exit = sweep[s].exit
      /\ sweep'[s].run = sweep[s].run
  BY <1>1, <1>2 DEF ConversionTyped, Launches
<1>4. OnItsWay(sweep[s], s, runs) => OnItsWay(sweep'[s], s, runs)
  BY <1>3 DEF OnItsWay, Taken
<1> QED  BY <1>1, <1>3, <1>4 DEF StandsWell

\* The row fails: the exit code says so from here on.
LEMMA RowFails_Launch ==
    ASSUME ConvInv, NEW s \in Sweeps, RowFails(s), sweep[s].todo # << >>
    PROVE  /\ sweep' \in [Sweeps -> Launches]
           /\ \A t \in Sweeps \ {s} : sweep'[t] = sweep[t]
           /\ \A rs : StandsWell(sweep'[s], s, rs)
<1>1. ConversionTyped /\ sweep[s].todo \in Seq(Rows)
  BY LaunchFacts
<1>2. Tail(sweep[s].todo) \in Seq(Rows)
  BY <1>1, HeadTailProperties
<1>3. /\ sweep' \in [Sweeps -> Launches]
      /\ \A t \in Sweeps \ {s} : sweep'[t] = sweep[t]
      /\ sweep'[s].at = "next" /\ sweep'[s].exit = 1
  <2> DEFINE l == [sweep[s] EXCEPT !.at = "next", !.todo = Tail(sweep[s].todo), !.exit = 1]
  <2>1. sweep \in [Sweeps -> Launches] /\ sweep[s] \in Launches
    BY <1>1 DEF ConversionTyped
  <2>2. l \in Launches /\ l.at = "next" /\ l.exit = 1
    BY <1>2, <2>1 DEF Launches
  <2>3. sweep' = [sweep EXCEPT ![s] = l]
    BY <2>1 DEF RowFails
  <2> HIDE DEF l
  <2> QED  BY <2>1, <2>2, <2>3
<1> QED  BY <1>3 DEF StandsWell

LEMMA StatusWritten ==
    ASSUME ConversionTyped, NEW r \in Rows,
           NEW status \in {"Pending", "In Progress", "Completed", "Failed"},
           SetStatus(r, status)
    PROVE  /\ rowStatus' \in [Rows -> {"Pending", "In Progress", "Completed", "Failed"}]
           /\ \A q \in Rows : rowStatus'[q] = "Completed" =>
                 rowStatus[q] = "Completed" \/ (q = r /\ status = "Completed")
  BY DEF SetStatus, ConversionTyped

\* What is read from the request list is a sequence of its rows.
LEMMA RowsAreRows ==
    ASSUME NEW S \in SUBSET Rows, NEW rows \in SetToSeqs(S)
    PROVE  rows \in Seq(Rows)
<1> DEFINE n == Cardinality(S)
<1>1. n \in Nat
  <2>1. IsFiniteSet(Rows)
    <3>1. 1 \in Int /\ MaxConvRows \in Int
      BY ConversionAssumption
    <3> QED  BY <3>1, FS_Interval DEF Rows
  <2>2. IsFiniteSet(S)
    BY <2>1, FS_Subset
  <2> QED  BY <2>2, FS_CardinalityType
<1>2. rows \in [1..n -> S]
  BY DEF SetToSeqs
<1> HIDE DEF n
<1>3. rows \in [1..n -> Rows]
  BY <1>2
<1> QED  BY <1>1, <1>3, SeqDef

LEMMA StartSweep_Inv ==
    ASSUME ConvInv, NEW s \in Sweeps, StartSweep(s)
    PROVE  ConvInv'
<1>1. /\ ConversionTyped /\ runs' = runs /\ rowStatus' = rowStatus /\ RunsGrow(runs, runs)
      /\ sweep[s] \in Launches
  BY LaunchFacts DEF StartSweep
<1> DEFINE pending == {r \in Rows : Outstanding(r)}
<1>2. PICK rows \in SetToSeqs(pending) :
        \/ sweep' = [sweep EXCEPT ![s] = [NotStarted EXCEPT
                          !.at = "next", !.selected = rows, !.todo = rows]]
        \/ sweep' = [sweep EXCEPT ![s].at = "ended", ![s].exit = 1]
  BY DEF StartSweep
<1>3. rows \in Seq(Rows)
  BY RowsAreRows
<1> HIDE DEF pending
<1>4. /\ sweep' \in [Sweeps -> Launches]
      /\ \A t \in Sweeps \ {s} : sweep'[t] = sweep[t]
      /\ StandsWell(sweep'[s], s, runs)
  <2>1. CASE sweep' = [sweep EXCEPT ![s] = [NotStarted EXCEPT
                          !.at = "next", !.selected = rows, !.todo = rows]]
    <3> DEFINE o == [NotStarted EXCEPT !.at = "next", !.selected = rows, !.todo = rows]
    <3>1. sweep' = [sweep EXCEPT ![s] = o]
      BY <2>1
    <3>2. NotStarted \in Launches
      BY DEF NotStarted, Launches
    <3>3. o \in Launches /\ o.at = "next" /\ o.selected = rows /\ o.todo = rows
      BY <1>3, <3>2 DEF Launches
    <3> HIDE DEF o
    <3>4. StandsWell(o, s, runs)
      <4>1. Len(rows) \in Nat
        BY <1>3, LenProperties
      <4>2. Taken(o) = 0
        BY <3>3, <4>1 DEF Taken
      <4>3. OnItsWay(o, s, runs)
        BY <3>3, <4>1, <4>2 DEF OnItsWay
      <4> QED  BY <3>3, <4>3 DEF StandsWell
    <3> QED  BY <1>1, <3>1, <3>3, <3>4 DEF ConversionTyped
  <2>2. CASE sweep' = [sweep EXCEPT ![s].at = "ended", ![s].exit = 1]
    <3>1. /\ sweep' \in [Sweeps -> Launches]
          /\ \A t \in Sweeps \ {s} : sweep'[t] = sweep[t]
          /\ sweep'[s].at = "ended" /\ sweep'[s].exit = 1
      BY <1>1, <2>2 DEF ConversionTyped, Launches
    <3> QED  BY <3>1 DEF StandsWell
  <2> QED  BY <1>2, <2>1, <2>2
<1>5. OneLaunch(s)
  BY <1>1, <1>4 DEF OneLaunch, ConversionTyped
<1> QED  BY <1>5, OneLaunch_Inv

\* The steps after which a launch is at another place of the same row, or has
\* given it up, with the runs as they were.
LEMMA SameRuns_Inv ==
    ASSUME ConvInv, NEW s \in Sweeps,
           TakeRow(s) \/ LoadFails(s) \/ Translate(s) \/ UploadFails(s) \/ EndSweep(s)
              \/ SweepDies(s)
    PROVE  ConvInv'
<1>1. /\ ConversionTyped /\ RunsGrow(runs, runs) /\ sweep[s] \in Launches
      /\ StandsWell(sweep[s], s, runs) /\ sweep[s].todo \in Seq(Rows)
  BY LaunchFacts
<1>2. runs' = runs
  BY DEF TakeRow, LoadFails, Translate, UploadFails, EndSweep, SweepDies
<1>3. \/ \E step \in {"load", "upload", "ended", "dead"} :
            /\ Advances(s, step)
            /\ step = "load" => sweep[s].todo # << >>
            /\ step = "upload" => sweep[s].at = "translate"
            /\ step = "ended" => sweep[s].todo = << >>
      \/ RowFails(s) /\ sweep[s].todo # << >>
  <2>1. CASE TakeRow(s)
    BY <2>1 DEF TakeRow
  <2>2. CASE LoadFails(s) \/ UploadFails(s)
    BY <1>1, <2>2 DEF LoadFails, UploadFails, StandsWell
  <2>3. CASE Translate(s)
    BY <1>1, <2>3 DEF Translate, StandsWell
  <2>4. CASE EndSweep(s) \/ SweepDies(s)
    BY <2>4 DEF EndSweep, SweepDies
  <2> QED  BY <2>1, <2>2, <2>3, <2>4
<1>4. /\ sweep' \in [Sweeps -> Launches]
      /\ \A t \in Sweeps \ {s} : sweep'[t] = sweep[t]
      /\ StandsWell(sweep'[s], s, runs')
  BY <1>2, <1>3, Advances_Launch, RowFails_Launch
<1>5. /\ rowStatus' \in [Rows -> {"Pending", "In Progress", "Completed", "Failed"}]
      /\ \A r \in Rows : rowStatus'[r] = "Completed" => rowStatus[r] = "Completed"
  <2>1. CASE rowStatus' = rowStatus
    BY <1>1, <2>1 DEF ConversionTyped
  <2>2. CASE sweep[s].todo # << >> /\ SetStatus(RowOf(s), "Failed")
    <3>1. RowOf(s) \in Rows
      BY <1>1, <2>2, HeadTailProperties DEF RowOf
    <3> QED  BY <1>1, <2>2, <3>1, StatusWritten
  <2>3. Translate(s) => \/ rowStatus' = rowStatus
                        \/ sweep[s].todo # << >> /\ SetStatus(RowOf(s), "Failed")
    BY <1>1 DEF Translate, StandsWell
  <2>4. UploadFails(s) => sweep[s].todo # << >> /\ SetStatus(RowOf(s), "Failed")
    BY <1>1 DEF UploadFails, StandsWell
  <2>5. TakeRow(s) \/ LoadFails(s) \/ EndSweep(s) \/ SweepDies(s) => rowStatus' = rowStatus
    BY DEF TakeRow, LoadFails, EndSweep, SweepDies
  <2> QED  BY <2>1, <2>2, <2>3, <2>4, <2>5
<1>6. OneLaunch(s)
  BY <1>1, <1>2, <1>4, <1>5 DEF OneLaunch, ConversionTyped
<1> QED  BY <1>6, OneLaunch_Inv

LEMMA LoadSources_Inv ==
    ASSUME ConvInv, NEW s \in Sweeps, LoadSources(s)
    PROVE  ConvInv'
<1>1. /\ ConversionTyped /\ sweep[s] \in Launches /\ StandsWell(sweep[s], s, runs)
      /\ sweep[s].todo \in Seq(Rows) /\ sweep[s].todo # << >> /\ RowOf(s) \in Rows
      /\ runs \in Seq(RunRecords)
  BY LaunchFacts, HeadTailProperties DEF LoadSources, StandsWell, RowOf, ConversionTyped
<1>2. PICK loaded \in (SUBSET ConvScripts) \ {{}}, written \in BOOLEAN :
        /\ runs' = Append(runs, [sweep |-> s, row |-> RowOf(s),
                                 todo |-> loaded \cup (IF RowOf(s) \in validated
                                                       THEN {Verdicts} ELSE {})])
        /\ rowStatus' = IF written THEN [rowStatus EXCEPT ![RowOf(s)] = "In Progress"]
                        ELSE rowStatus
  BY DEF LoadSources
<1> DEFINE all == loaded \cup (IF RowOf(s) \in validated THEN {Verdicts} ELSE {})
           e   == [sweep |-> s, row |-> RowOf(s), todo |-> all]
           n   == Len(runs) + 1
<1>3. all \in SUBSET (ConvScripts \cup {Verdicts})
  OBVIOUS
<1>4. e \in RunRecords /\ e.sweep = s /\ e.row = RowOf(s) /\ runs' = Append(runs, e)
  BY <1>1, <1>2, <1>3 DEF RunRecords
<1> HIDE DEF e, all
<1>5. /\ runs' \in Seq(RunRecords) /\ Len(runs') = n /\ n \in Nat
      /\ DOMAIN runs' = 1..n /\ DOMAIN runs = 1..Len(runs) /\ Len(runs) \in Nat
      /\ \A k \in 1..Len(runs) : runs'[k] = runs[k]
      /\ runs'[n] = e
  BY <1>1, <1>4, AppendProperties, LenProperties
<1>6. RunsGrow(runs, runs') /\ n \in DOMAIN runs'
  BY <1>5 DEF RunsGrow
<1>7. sweep' = [sweep EXCEPT ![s].at = "translate", ![s].run = n]
  BY <1>5 DEF LoadSources
<1> HIDE DEF n
<1>8. /\ sweep' \in [Sweeps -> Launches]
      /\ \A t \in Sweeps \ {s} : sweep'[t] = sweep[t]
      /\ sweep'[s].at = "translate" /\ sweep'[s].run = n
      /\ sweep'[s].todo = sweep[s].todo /\ sweep'[s].selected = sweep[s].selected
      /\ sweep'[s].exit = sweep[s].exit
  BY <1>1, <1>5, <1>7 DEF ConversionTyped, Launches
<1>9. StandsWell(sweep'[s], s, runs')
  <2>1. OnItsWay(sweep[s], s, runs) => OnItsWay(sweep[s], s, runs')
    BY <1>6, OnItsWayStays
  <2>2. OnItsWay(sweep[s], s, runs') => OnItsWay(sweep'[s], s, runs')
    BY <1>8 DEF OnItsWay, Taken
  <2> QED  BY <1>1, <1>4, <1>5, <1>6, <1>8, <2>1, <2>2 DEF StandsWell, RowOf
<1>10. /\ rowStatus' \in [Rows -> {"Pending", "In Progress", "Completed", "Failed"}]
       /\ \A r \in Rows : rowStatus'[r] = "Completed" => rowStatus[r] = "Completed"
  <2>1. CASE written
    <3>1. rowStatus' = [rowStatus EXCEPT ![RowOf(s)] = "In Progress"]
      BY <1>2, <2>1
    <3> QED  BY <1>1, <3>1 DEF ConversionTyped
  <2>2. CASE ~written
    BY <1>1, <1>2, <2>2 DEF ConversionTyped
  <2> QED  BY <2>1, <2>2
<1>11. OneLaunch(s)
  BY <1>5, <1>6, <1>8, <1>9, <1>10 DEF OneLaunch
<1> QED  BY <1>11, OneLaunch_Inv

LEMMA UploadOne_Inv ==
    ASSUME ConvInv, NEW s \in Sweeps, UploadOne(s)
    PROVE  ConvInv'
<1> DEFINE j == sweep[s].run
<1>1. /\ ConversionTyped /\ StandsWell(sweep[s], s, runs) /\ j \in DOMAIN runs
      /\ runs \in Seq(RunRecords)
  BY LaunchFacts DEF UploadOne, StandsWell, ConversionTyped
<1>2. sweep' = sweep /\ rowStatus' = rowStatus
  BY DEF UploadOne
<1>3. PICK f \in Left(s) : runs' = [runs EXCEPT ![j].todo = @ \ {f}]
  BY DEF UploadOne
<1>4. DOMAIN runs = 1..Len(runs) /\ Len(runs) \in Nat /\ \A k \in DOMAIN runs : runs[k] \in RunRecords
  BY <1>1, ElementOfSeq, LenProperties
<1> DEFINE e == [runs[j] EXCEPT !.todo = @ \ {f}]
<1>5. /\ e \in RunRecords /\ e.sweep = runs[j].sweep /\ e.row = runs[j].row
      /\ runs[j].todo = {} => e.todo = {}
  BY <1>1, <1>4 DEF RunRecords
<1>6. runs' = [runs EXCEPT ![j] = e]
  BY <1>1, <1>3
<1> HIDE DEF e
<1>7. runs' \in Seq(RunRecords)
  BY <1>1, <1>5, <1>6, ExceptSeq
<1>8. RunsGrow(runs, runs')
  BY <1>1, <1>5, <1>6 DEF RunsGrow
<1>9. StandsWell(sweep'[s], s, runs')
  BY <1>1, <1>2, <1>8, StandsWellStays
<1>10. OneLaunch(s)
  BY <1>1, <1>2, <1>7, <1>8, <1>9 DEF OneLaunch, ConversionTyped
<1> QED  BY <1>10, OneLaunch_Inv

\* The row is delivered by this launch, and drops from what is left.
LEMMA CloseRow_Inv ==
    ASSUME ConvInv, NEW s \in Sweeps, CloseRow(s)
    PROVE  ConvInv'
<1> DEFINE old == sweep[s]
           new == sweep'[s]
           r   == RowOf(s)
<1>1. /\ ConversionTyped /\ StandsWell(old, s, runs) /\ RunsGrow(runs, runs)
      /\ old \in Launches /\ old.todo \in Seq(Rows) /\ old.selected \in Seq(Rows)
      /\ old.at = "upload" /\ old.todo # << >> /\ runs' = runs
  BY LaunchFacts DEF CloseRow, StandsWell
<1>2. /\ Tail(old.todo) \in Seq(Rows) /\ r \in Rows /\ r = old.todo[1]
      /\ Len(old.todo) \in Nat /\ Len(old.todo) >= 1 /\ Len(old.selected) \in Nat
      /\ Len(Tail(old.todo)) = Len(old.todo) - 1
      /\ \A i \in 1..(Len(old.todo) - 1) : Tail(old.todo)[i] = old.todo[i + 1]
  BY <1>1, HeadTailProperties, LenProperties, EmptySeq DEF RowOf
<1>3. DeliveredBy(s, r, runs)
  BY <1>1 DEF CloseRow, Left, StandsWell, DeliveredBy, RowOf
<1>4. /\ sweep' \in [Sweeps -> Launches]
      /\ \A t \in Sweeps \ {s} : sweep'[t] = sweep[t]
      /\ new.at = "next" /\ new.todo = Tail(old.todo) /\ new.selected = old.selected
      /\ new.exit = old.exit
  BY <1>1, <1>2 DEF CloseRow, ConversionTyped, Launches
<1> HIDE DEF r
<1>5. ASSUME new.exit = 0 PROVE OnItsWay(new, s, runs)
  <2>1. OnItsWay(old, s, runs)
    BY <1>1, <1>4, <1>5 DEF StandsWell
  <2> DEFINE n == Taken(old)
  <2>2. n \in Nat /\ Taken(new) = n + 1 /\ Len(new.todo) <= Len(new.selected)
    <3>1. Len(old.todo) <= Len(old.selected)
      BY <2>1 DEF OnItsWay
    <3>2. Len(new.todo) = Len(old.todo) - 1 /\ Len(new.selected) = Len(old.selected)
      BY <1>2, <1>4
    <3> QED  BY <1>2, <3>1, <3>2 DEF Taken
  <2>3. \A i \in 1..Len(old.todo) : old.todo[i] = old.selected[n + i]
    BY <2>1 DEF OnItsWay
  <2>4. \A i \in 1..n : DeliveredBy(s, old.selected[i], runs)
    BY <2>1 DEF OnItsWay
  <2> HIDE DEF n
  <2>5. ASSUME NEW i \in 1..Len(new.todo)
        PROVE  new.todo[i] = new.selected[Taken(new) + i]
    <3>1. i + 1 \in 1..Len(old.todo) /\ new.todo[i] = old.todo[i + 1]
      BY <1>2, <1>4
    <3>2. n + (i + 1) = (n + 1) + i
      BY <2>2
    <3> QED  BY <1>4, <2>2, <2>3, <3>1, <3>2
  <2>6. DeliveredBy(s, old.selected[n + 1], runs)
    <3>1. 1 \in 1..Len(old.todo)
      BY <1>2
    <3> QED  BY <1>2, <1>3, <2>3, <3>1
  <2>7. \A i \in 1..(n + 1) : i \in 1..n \/ i = n + 1
    BY <2>2
  <2> QED  BY <1>4, <2>2, <2>4, <2>5, <2>6, <2>7 DEF OnItsWay
<1>6. StandsWell(new, s, runs)
  BY <1>4, <1>5 DEF StandsWell
<1>7. /\ rowStatus' \in [Rows -> {"Pending", "In Progress", "Completed", "Failed"}]
      /\ \A q \in Rows : rowStatus'[q] = "Completed" => rowStatus[q] = "Completed" \/ q = r
  <2>1. SetStatus(r, "Completed")
    BY DEF CloseRow, r
  <2> QED  BY <1>1, <1>2, <2>1, StatusWritten
<1>8. OneLaunch(s)
  BY <1>1, <1>3, <1>4, <1>6, <1>7 DEF OneLaunch, ConversionTyped
<1> QED  BY <1>8, OneLaunch_Inv

LEMMA ConversionNext_Inv == ConvInv /\ [ConversionNext]_convVars => ConvInv'
<1> SUFFICES ASSUME ConvInv, [ConversionNext]_convVars PROVE ConvInv'
  OBVIOUS
<1>1. CASE UNCHANGED convVars
  BY <1>1 DEF convVars, ConvInv, ConversionTyped
<1>2. CASE ConversionNext
  BY <1>2, StartSweep_Inv, SameRuns_Inv, LoadSources_Inv, UploadOne_Inv, CloseRow_Inv
  DEF ConversionNext
<1> QED  BY <1>1, <1>2

(* No row of the request list is lost to a sweep that died or failed or could
   not write its status, and a sweep that exits with 0 delivered every row it
   selected, with any number of sweeps over any list side by side. *)
THEOREM RowsAreAlwaysAccountedFor == ConversionSpec => []RowsAreAccountedFor
<1>1. ConvInv => UnconvertedIsOutstanding
  BY DEF ConvInv, DoneIsDelivered, DeliveredBy, UnconvertedIsOutstanding, Delivered,
     Outstanding
<1>2. ConvInv => ExitTells
  <2> SUFFICES ASSUME ConvInv, NEW s \in Sweeps, sweep[s].at = "ended", sweep[s].exit = 0,
                      NEW i \in DOMAIN sweep[s].selected
               PROVE  DeliveredBy(s, sweep[s].selected[i], runs)
    BY DEF ExitTells, DeliveredBy, Delivered
  <2>1. /\ StandsWell(sweep[s], s, runs) /\ sweep[s].selected \in Seq(Rows)
        /\ sweep[s].todo = << >>
    BY LaunchFacts DEF StandsWell
  <2>2. Taken(sweep[s]) = Len(sweep[s].selected) /\ i \in 1..Len(sweep[s].selected)
    BY <2>1, LenProperties, EmptySeq DEF Taken
  <2> QED  BY <2>1, <2>2 DEF StandsWell, OnItsWay
<1>3. ConvInv => RowsAreAccountedFor
  BY <1>1, <1>2 DEF RowsAreAccountedFor
<1> QED  BY <1>3, ConversionInit_Inv, ConversionNext_Inv, PTL DEF ConversionSpec

(* Credentials                                                             *)

Errands == [use : Uses \cup {"none"},
            phase : {"idle", "token", "send", "read", "done", "failed"},
            identity : Identities \cup {"none"}, life : Nat, logins : Nat,
            retried : BOOLEAN, excused : BOOLEAN, waited : BOOLEAN]

ClientStates == [made : BOOLEAN, stale : BOOLEAN, life : Nat]

CredTyped ==
    /\ setting \in [azure : BOOLEAN, arm : BOOLEAN, scope : BOOLEAN]
    /\ clients \in [Identities -> ClientStates]
    /\ session \in [built : BOOLEAN, trust : Nat, life : Nat]
    /\ errand \in Errands /\ (errand.phase # "idle" => errand.use # "none")

\* Each slot of the two principals of the scope holds its own, or nothing.
PrincipalsApart ==
    /\ principals \in [{"default", "sharepoint"} -> {"none", "arm", "workspace", "sharepoint"}]
    /\ principals["default"] # "sharepoint"
    /\ principals["sharepoint"] \in {"none", "sharepoint"}

\* It outlives the minute the request it is taken for may still last.
Outlasts(life, waited) == life >= (IF waited THEN 1 ELSE 2)

\* A token is sent while it is alive, and after the one login that answers a
\* refusal the session is, unless somebody interfered.
AliveWhenUsed ==
    /\ errand.phase = "send" => Outlasts(errand.life, errand.waited)
    /\ errand.phase = "read" /\ errand.retried /\ ~errand.excused =>
          Outlasts(session.life, errand.waited)

CredInv == CredTyped /\ PrincipalsApart /\ RightIdentity /\ FailsForAReason /\ AliveWhenUsed

LEMMA CredInit_Inv == CredInit => CredInv
<1> SUFFICES ASSUME CredInit PROVE CredInv
  OBVIOUS
<1>1. /\ NoErrand \in Errands /\ NoErrand.phase = "idle" /\ NoErrand.identity = "none"
      /\ ~NoErrand.retried
  BY DEF NoErrand, Errands
<1>2. CredTyped
  BY <1>1 DEF CredInit, CredTyped, ClientStates
<1>3. PrincipalsApart
  BY DEF CredInit, PrincipalsApart
<1> QED  BY <1>1, <1>2, <1>3 DEF CredInit, CredInv, RightIdentity, FailsForAReason, AliveWhenUsed

\* Only Graph is reached as the principal of SharePoint, and always if a scope
\* is configured.
LEMMA IdentityFits ==
    ASSUME CredTyped, PrincipalsApart, NEW use \in Uses
    PROVE  /\ IdentityFor(use) \in Identities
           /\ IdentityFor(use) = "sharepoint" => use = "graph"
           /\ use = "graph" /\ setting.scope => IdentityFor(use) = "sharepoint"
           /\ KeysFor(use) = "default" => IdentityFor(use) \in {"arm", "workspace"}
           /\ KeysFor(use) = "sharepoint" => IdentityFor(use) = "sharepoint"
           /\ KeysFor(use) \in {"default", "sharepoint", "none"}
<1>1. /\ setting.azure \in BOOLEAN /\ setting.arm \in BOOLEAN /\ setting.scope \in BOOLEAN
  BY DEF CredTyped
<1>2. /\ KeysFor(use) \in {"default", "sharepoint", "none"}
      /\ KeysFor(use) = "sharepoint" <=> use = "graph" /\ setting.scope
  BY <1>1 DEF KeysFor, Uses
<1>3. FirstPrincipal("sharepoint") = "sharepoint" /\ FirstPrincipal("default") \in {"arm", "workspace"}
  BY <1>1 DEF FirstPrincipal
<1>4. /\ ServicePrincipal("sharepoint") = "sharepoint"
      /\ ServicePrincipal("default") \in {"arm", "workspace"}
  BY <1>3 DEF ServicePrincipal, PrincipalsApart
<1> QED  BY <1>2, <1>4 DEF IdentityFor, Identities

LEMMA Begin_Inv ==
    ASSUME CredInv, NEW use \in Uses, Begin(use)
    PROVE  CredInv'
<1> DEFINE place == IF use # "vault" \/ ~session.built \/ session.trust = 0 THEN "token" ELSE "read"
<1>1. /\ errand' = [NoErrand EXCEPT !.use = use, !.phase = place]
      /\ place \in {"token", "read"}
      /\ UNCHANGED <<setting, principals, clients, session>>
  BY DEF Begin
<1> HIDE DEF place
<1>2. /\ errand' \in Errands /\ errand'.phase = place /\ errand'.identity = "none"
      /\ ~errand'.retried /\ errand'.use = use /\ use # "none"
  BY <1>1 DEF NoErrand, Errands, Uses
<1>3. CredTyped' /\ PrincipalsApart'
  BY <1>1, <1>2 DEF CredInv, CredTyped, PrincipalsApart
<1> QED  BY <1>1, <1>2, <1>3 DEF CredInv, RightIdentity, FailsForAReason, AliveWhenUsed

\* What is cached is trusted to the skew, and what is acquired lives longer.
LEMMA GetToken_Inv ==
    ASSUME CredInv, GetToken, \A life \in TokenLives : life > Skew
    PROVE  CredInv'
<1> DEFINE use == errand.use
           who == IdentityFor(use)
<1>1. CredTyped /\ PrincipalsApart /\ errand \in Errands /\ errand.phase = "token"
  BY DEF CredInv, CredTyped, GetToken
<1>2. PICK life \in (IF Cached(who) THEN {clients[who].life} ELSE TokenLives) :
        /\ clients' = [clients EXCEPT ![who] = [@ EXCEPT !.made = TRUE, !.life = life]]
        /\ errand' = [errand EXCEPT !.phase = "send", !.identity = who, !.life = life,
                                    !.waited = FALSE]
        /\ Remember(use, who) /\ UNCHANGED <<setting, session>>
  BY DEF GetToken
<1>3. /\ use \in Uses /\ who \in Identities
      /\ who = "sharepoint" => use = "graph"
      /\ use = "graph" /\ setting.scope => who = "sharepoint"
  BY <1>1, IdentityFits DEF CredTyped, Errands
<1>4. life \in Nat /\ life >= 2
  <2>1. CASE Cached(who)
    <3>1. life = clients[who].life /\ clients[who].life \in Nat
      BY <1>1, <1>2, <1>3, <2>1 DEF CredTyped, ClientStates
    <3> QED  BY <2>1, <3>1 DEF Cached, Skew
  <2>2. CASE ~Cached(who)
    <3>1. life \in TokenLives
      BY <1>2, <2>2
    <3> QED  BY <3>1, CredAssumption DEF Skew
  <2> QED  BY <2>1, <2>2
<1>5. /\ errand' \in Errands /\ errand'.phase = "send" /\ errand'.identity = who
      /\ errand'.life = life /\ errand'.waited = FALSE /\ errand'.use = use
  BY <1>1, <1>2, <1>3, <1>4 DEF Errands
<1>6. clients' \in [Identities -> ClientStates]
  <2> DEFINE c == [clients[who] EXCEPT !.made = TRUE, !.life = life]
  <2>1. c \in ClientStates
    BY <1>1, <1>3, <1>4 DEF CredTyped, ClientStates
  <2>2. clients' = [clients EXCEPT ![who] = c]
    BY <1>2
  <2> HIDE DEF c
  <2> QED  BY <1>1, <2>1, <2>2 DEF CredTyped
<1>7. PrincipalsApart'
  <2>1. CASE KeysFor(use) = "none"
    BY <1>1, <1>2, <2>1 DEF Remember, PrincipalsApart
  <2>2. CASE KeysFor(use) # "none"
    <3>1. principals' = [principals EXCEPT ![KeysFor(use)] = who]
      BY <1>2, <2>2 DEF Remember
    <3>2. \/ KeysFor(use) = "default" /\ who \in {"arm", "workspace"}
          \/ KeysFor(use) = "sharepoint" /\ who = "sharepoint"
      BY <1>1, <1>3, <2>2, IdentityFits
    <3> QED  BY <1>1, <3>1, <3>2 DEF PrincipalsApart
  <2> QED  BY <2>1, <2>2
<1> HIDE DEF use, who
<1>8. CredTyped'
  BY <1>1, <1>2, <1>3, <1>5, <1>6 DEF CredTyped, Uses
<1>9. RightIdentity' /\ FailsForAReason' /\ AliveWhenUsed'
  BY <1>2, <1>3, <1>4, <1>5 DEF RightIdentity, FailsForAReason, AliveWhenUsed, Outlasts
<1> QED  BY <1>7, <1>8, <1>9 DEF CredInv

\* A login: the session it opens outlasts the next minute, unless the lease is
\* no longer than the skew.
LEMMA Login_Inv ==
    ASSUME CredInv, Login
    PROVE  CredInv'
<1>1. CredTyped /\ PrincipalsApart /\ errand \in Errands /\ errand.phase = "send"
  BY DEF CredInv, CredTyped, Login
<1>2. PICK lease \in Leases :
        /\ session' = [built |-> TRUE, trust |-> Trusted(lease), life |-> lease]
        /\ errand' = [errand EXCEPT !.phase = AfterLogin(lease), !.logins = @ + 1,
                                    !.waited = FALSE, !.excused = @ \/ lease <= Skew]
        /\ UNCHANGED <<setting, principals, clients>>
  BY DEF Login
<1>3. lease \in Nat /\ lease >= 1 /\ Trusted(lease) \in Nat
  BY CredAssumption DEF Trusted, Skew
<1>4. session' \in [built : BOOLEAN, trust : Nat, life : Nat] /\ session'.life = lease
  BY <1>2, <1>3
<1> DEFINE place == AfterLogin(lease)
           n     == errand.logins + 1
           ex    == errand.excused \/ lease <= Skew
<1>5. /\ place \in {"token", "read"} /\ n \in Nat /\ ex \in BOOLEAN
      /\ ~ex => lease >= 2
  BY <1>1, <1>3 DEF AfterLogin, Errands, Skew
<1>6. errand' = [errand EXCEPT !.phase = place, !.logins = n, !.waited = FALSE, !.excused = ex]
  BY <1>2
<1> HIDE DEF place, n, ex
<1>7. /\ errand' \in Errands /\ errand'.phase = place /\ errand'.identity = errand.identity
      /\ errand'.waited = FALSE /\ errand'.excused = ex /\ errand'.use = errand.use
  BY <1>1, <1>5, <1>6 DEF Errands
<1>8. CredTyped' /\ PrincipalsApart'
  BY <1>1, <1>2, <1>4, <1>7 DEF CredTyped, PrincipalsApart
<1>9. RightIdentity' /\ FailsForAReason' /\ AliveWhenUsed'
  BY <1>2, <1>3, <1>4, <1>5, <1>7
  DEF CredInv, RightIdentity, FailsForAReason, AliveWhenUsed, Outlasts
<1> QED  BY <1>8, <1>9 DEF CredInv

\* Where an errand ends, one way or the other.
LEMMA ErrandEnds_Inv ==
    ASSUME CredInv,
           TokenRefused \/ Request \/ LoginRefused \/ ReadRefused \/ ReadAnswered \/ Finish
              \/ ServerFails
    PROVE  CredInv'
<1>1. /\ CredTyped /\ PrincipalsApart /\ RightIdentity /\ AliveWhenUsed /\ errand \in Errands
      /\ errand.life \in Nat /\ session.life \in Nat
      /\ (errand.phase # "idle" => errand.use # "none")
  BY DEF CredInv, CredTyped, Errands
<1>2. UNCHANGED <<setting, principals, clients, session>>
  BY DEF TokenRefused, Request, LoginRefused, ReadRefused, ReadAnswered, Finish, ServerFails
<1>3. /\ errand' \in Errands /\ errand'.identity \in {errand.identity, "none"}
      /\ errand'.use = errand.use \/ (errand'.identity = "none" /\ errand'.phase = "idle")
      /\ errand'.phase \in {"idle", "token", "done", "failed"}
      /\ errand'.phase = "failed" => errand'.excused
      /\ errand.phase # "idle"
  <2>1. CASE TokenRefused \/ ServerFails
    <3>1. errand' = [errand EXCEPT !.phase = "failed", !.excused = TRUE]
          /\ errand.phase # "idle"
      BY <2>1 DEF TokenRefused, ServerFails
    <3> QED  BY <1>1, <3>1 DEF Errands
  <2>2. CASE Request \/ LoginRefused
    <3>1. errand.life > 0
      BY <1>1, <2>2 DEF AliveWhenUsed, Outlasts, Request, LoginRefused
    <3>2. errand' = [errand EXCEPT !.phase = "done"] /\ errand.phase # "idle"
      BY <2>2, <3>1 DEF Request, LoginRefused
    <3> QED  BY <1>1, <3>2 DEF Errands
  <2>3. CASE ReadRefused
    <3> DEFINE place == IF errand.retried THEN "failed" ELSE "token"
    <3>1. /\ errand' = [errand EXCEPT !.phase = place, !.retried = TRUE, !.waited = FALSE]
          /\ place \in {"failed", "token"} /\ errand.phase # "idle"
      BY <2>3 DEF ReadRefused
    <3>2. place = "failed" => errand.excused
      <4>1. errand.phase = "read" /\ session.life = 0
        BY <2>3 DEF ReadRefused
      <4> QED  BY <1>1, <4>1 DEF AliveWhenUsed, Outlasts
    <3> HIDE DEF place
    <3> QED  BY <1>1, <3>1, <3>2 DEF Errands
  <2>4. CASE ReadAnswered
    <3>1. errand' = [errand EXCEPT !.phase = "done"] /\ errand.phase # "idle"
      BY <2>4 DEF ReadAnswered
    <3> QED  BY <1>1, <3>1 DEF Errands
  <2>5. CASE Finish
    BY <2>5 DEF Finish, NoErrand, Errands
  <2> QED  BY <2>1, <2>2, <2>3, <2>4, <2>5
<1>4. CredTyped' /\ PrincipalsApart'
  BY <1>1, <1>2, <1>3 DEF CredTyped, PrincipalsApart
<1>5. RightIdentity' /\ FailsForAReason' /\ AliveWhenUsed'
  BY <1>1, <1>2, <1>3 DEF RightIdentity, FailsForAReason, AliveWhenUsed
<1> QED  BY <1>4, <1>5 DEF CredInv

\* A minute passes: a request that was waited for is not waited for again.
LEMMA Tick_Inv ==
    ASSUME CredInv, Tick
    PROVE  CredInv'
<1>1. /\ CredTyped /\ PrincipalsApart /\ RightIdentity /\ AliveWhenUsed /\ FailsForAReason
      /\ errand \in Errands /\ errand.life \in Nat /\ errand.waited \in BOOLEAN
      /\ session \in [built : BOOLEAN, trust : Nat, life : Nat]
      /\ clients \in [Identities -> ClientStates]
  BY DEF CredInv, CredTyped, Errands
<1> DEFINE under == errand.phase \in {"token", "send", "read"}
           left  == OneLess(errand.life)
<1>2. /\ under => ~errand.waited
      /\ clients' = [i \in Identities |-> [clients[i] EXCEPT !.life = OneLess(@)]]
      /\ session' = [session EXCEPT !.trust = OneLess(@), !.life = OneLess(@)]
      /\ errand' = [errand EXCEPT !.waited = under, !.life = left]
      /\ UNCHANGED <<setting, principals>>
  BY DEF Tick
<1>3. \A n \in Nat : OneLess(n) \in Nat /\ (n >= 2 => OneLess(n) >= 1)
  BY DEF OneLess
<1>4. under \in BOOLEAN /\ left \in Nat
  BY <1>1, <1>3
<1>5. under <=> errand.phase \in {"token", "send", "read"}
  OBVIOUS
<1>6. left = OneLess(errand.life)
  OBVIOUS
<1> HIDE DEF under, left
<1>7. /\ errand' \in Errands /\ errand'.phase = errand.phase /\ errand'.use = errand.use
      /\ errand'.identity = errand.identity /\ errand'.life = left
      /\ errand'.retried = errand.retried /\ errand'.excused = errand.excused
      /\ errand'.waited = under
  BY <1>1, <1>2, <1>4 DEF Errands
<1>8. /\ session' \in [built : BOOLEAN, trust : Nat, life : Nat]
      /\ session'.life = OneLess(session.life)
  <2> DEFINE a == OneLess(session.trust)
             b == OneLess(session.life)
  <2>1. a \in Nat /\ b \in Nat
    BY <1>1, <1>3
  <2>2. session' = [session EXCEPT !.trust = a, !.life = b]
    BY <1>2
  <2> HIDE DEF a, b
  <2> QED  BY <1>1, <2>1, <2>2 DEF b
<1>9. clients' \in [Identities -> ClientStates]
  BY <1>1, <1>2, <1>3 DEF ClientStates
<1>10. CredTyped' /\ PrincipalsApart'
  BY <1>1, <1>2, <1>7, <1>8, <1>9 DEF CredTyped, PrincipalsApart
<1>11. RightIdentity' /\ FailsForAReason'
  BY <1>1, <1>2, <1>7 DEF RightIdentity, FailsForAReason
<1>12. AliveWhenUsed'
  <2>1. ASSUME errand.phase = "send" PROVE left >= 1 /\ under
    BY <1>1, <1>2, <1>3, <1>5, <1>6, <2>1 DEF AliveWhenUsed, Outlasts
  <2>2. ASSUME errand.phase = "read", errand.retried, ~errand.excused
        PROVE  session'.life >= 1 /\ under
    <3>1. under /\ ~errand.waited
      BY <1>2, <1>5, <2>2
    <3>2. session.life >= 2 /\ session.life \in Nat
      BY <1>1, <2>2, <3>1 DEF AliveWhenUsed, Outlasts
    <3> QED  BY <1>3, <1>8, <3>1, <3>2
  <2> QED  BY <1>7, <2>1, <2>2 DEF AliveWhenUsed, Outlasts
<1> QED  BY <1>10, <1>11, <1>12 DEF CredInv

LEMMA Upset_Inv ==
    ASSUME CredInv, Rotate \/ Revoke
    PROVE  CredInv'
<1>1. /\ CredTyped /\ PrincipalsApart /\ RightIdentity /\ AliveWhenUsed /\ FailsForAReason
      /\ errand \in Errands /\ errand.excused \in BOOLEAN /\ errand.retried \in BOOLEAN
      /\ (errand.phase # "idle" => errand.use # "none")
  BY DEF CredInv, CredTyped, Errands
<1>2. CASE Rotate
  <2>1. UNCHANGED <<setting, principals, session, errand>>
    BY <1>2 DEF Rotate
  <2>2. clients' \in [Identities -> ClientStates]
    BY <1>1, <1>2 DEF Rotate, CredTyped, ClientStates
  <2>3. CredTyped' /\ PrincipalsApart'
    BY <1>1, <2>1, <2>2 DEF CredTyped, PrincipalsApart
  <2> QED  BY <1>1, <2>1, <2>3
           DEF CredInv, RightIdentity, FailsForAReason, AliveWhenUsed
<1>3. CASE Revoke
  <2> DEFINE ex == errand.excused \/ errand.retried
  <2>1. /\ errand' = [errand EXCEPT !.excused = ex] /\ ex \in BOOLEAN
        /\ (errand.excused => ex) /\ (errand.retried => ex)
    BY <1>1, <1>3 DEF Revoke
  <2> HIDE DEF ex
  <2>2. /\ errand' \in Errands /\ errand'.phase = errand.phase /\ errand'.use = errand.use
        /\ errand'.identity = errand.identity /\ errand'.life = errand.life
        /\ errand'.retried = errand.retried /\ errand'.waited = errand.waited
        /\ errand'.excused = ex
    BY <1>1, <2>1 DEF Errands
  <2>3. /\ UNCHANGED <<setting, principals, clients>>
        /\ session' \in [built : BOOLEAN, trust : Nat, life : Nat]
    BY <1>1, <1>3 DEF Revoke, CredTyped
  <2>4. CredTyped' /\ PrincipalsApart'
    BY <1>1, <2>2, <2>3 DEF CredTyped, PrincipalsApart
  <2>5. RightIdentity' /\ FailsForAReason' /\ AliveWhenUsed'
    BY <1>1, <2>1, <2>2, <2>3 DEF RightIdentity, FailsForAReason, AliveWhenUsed
  <2> QED  BY <2>4, <2>5 DEF CredInv
<1> QED  BY <1>2, <1>3

(* With Entra tokens that live longer than the skew they are trusted by, an
   errand runs as the identity it should and fails only for what no login can
   cure, whatever the lives of tokens and leases, in whatever order errands,
   rotations and revocations come. *)
THEOREM ErrandsAreAlwaysServed ==
    ASSUME \A life \in TokenLives : life > Skew
    PROVE  CredSpec => []ErrandsAreServed
<1>1. CredInv /\ [CredNext]_credVars => CredInv'
  <2> SUFFICES ASSUME CredInv, [CredNext]_credVars PROVE CredInv'
    OBVIOUS
  <2>1. CASE UNCHANGED credVars
    BY <2>1 DEF credVars, CredInv, CredTyped, PrincipalsApart, RightIdentity,
       FailsForAReason, AliveWhenUsed
  <2>2. CASE CredNext
    BY <2>2, Begin_Inv, GetToken_Inv, Login_Inv, ErrandEnds_Inv, Tick_Inv, Upset_Inv
    DEF CredNext
  <2> QED  BY <2>1, <2>2
<1>2. CredInv => ErrandsAreServed
  BY DEF CredInv, ErrandsAreServed
<1> QED  BY <1>1, <1>2, CredInit_Inv, PTL DEF CredSpec

-----------------------------------------------------------------------------
(* SharePoint                                                              *)

Paths == Seq(Nat)

GraphRequests ==
    {r \in [do : {"drive", "mkdir", "put", "get", "page", "patch"}, path : Paths,
            arg : Nat \cup {"replace", "fail"}] :
        /\ r.do \in {"put", "get"} => r.path \in FilePaths
        /\ r.do = "page" => r.arg \in Nat
        /\ r.do = "patch" => r.arg \in ItemColumns}

GraphRuns == Seq(Seq(GraphRequests) \ {<< >>})

Resting == {"idle", "done", "failed"}
Working == {"next", "loop", "new loop", "take loop", "pool", "new pool", "take pool", "queued", "running"}
Closing == {"shut", "drain", "close loop"}

SPCalls == [op : Operations \cup {"none"}, runs : GraphRuns, at : Resting \cup Working \cup Closing,
            loop : Nat, pool : Nat, seen : SUBSET (Nat \cup Callers), rowsThen : Nat,
            cause : {"none", "graph", "clash", "exists", "absent"}, col : ItemColumns,
            wasWarm : BOOLEAN]

SPTyped ==
    /\ folders \subseteq Paths
    /\ files \in [FilePaths -> Callers \cup {0}] /\ columns \in [ItemColumns -> Callers \cup {0}]
    /\ listRows \in Nat /\ loop \in Nat /\ pool \in Nat
    /\ IsFiniteSet(closedLoops) /\ IsFiniteSet(shutPools)
    /\ closedLoops \subseteq Nat /\ shutPools \subseteq Nat
    /\ driveKnown \in BOOLEAN /\ warm \in BOOLEAN /\ mix \in SUBSET Operations
    /\ asked \in [Callers -> SPCalls]

-----------------------------------------------------------------------------
(* What the remaining runs of an upload make, and that each finds made what *)
(* it needs.                                                               *)

Makes(run, p) == \E j \in 1..Len(run) : run[j].do = "mkdir" /\ run[j].path = p
Puts(run, p)  == \E j \in 1..Len(run) : run[j].do = "put" /\ run[j].path = p

MadeBefore(ahead, i) == {p \in Paths : \E k \in 1..(i - 1) : Makes(ahead[k], p)}
MadeBy(ahead) == {p \in Paths : \E k \in 1..Len(ahead) : Makes(ahead[k], p)}
PutBy(ahead)  == {p \in Paths : \E k \in 1..Len(ahead) : Puts(ahead[k], p)}

Stands(r, F) ==
    /\ r.do \in {"drive", "mkdir", "put"}
    /\ r.do = "mkdir" => r.arg = "replace" /\ (Len(r.path) = 1 \/ Up(r.path) \in F)
    /\ r.do = "put" => Up(r.path) \in F

RunStands(run, F) == \A j \in 1..Len(run) : Stands(run[j], F)

Grounded(ahead, F) == \A i \in 1..Len(ahead) : RunStands(ahead[i], F \cup MadeBefore(ahead, i))

LEMMA RunStandsMore ==
    ASSUME NEW run, NEW F, NEW G, F \subseteq G, RunStands(run, F)
    PROVE  RunStands(run, G)
BY DEF RunStands, Stands

LEMMA GroundedMore ==
    ASSUME NEW ahead, NEW F, NEW G, F \subseteq G, Grounded(ahead, F)
    PROVE  Grounded(ahead, G)
<1> SUFFICES ASSUME NEW i \in 1..Len(ahead) PROVE RunStands(ahead[i], G \cup MadeBefore(ahead, i))
  BY DEF Grounded
<1>1. RunStands(ahead[i], F \cup MadeBefore(ahead, i))
  BY DEF Grounded
<1>2. F \cup MadeBefore(ahead, i) \subseteq G \cup MadeBefore(ahead, i)
  OBVIOUS
<1> QED  BY <1>1, <1>2, RunStandsMore

LEMMA JoinedRuns ==
    ASSUME NEW a \in GraphRuns, NEW b \in GraphRuns
    PROVE  /\ a \o b \in GraphRuns
           /\ MadeBy(a \o b) = MadeBy(a) \cup MadeBy(b)
           /\ PutBy(a \o b) = PutBy(a) \cup PutBy(b)
           /\ \A F : Grounded(a, F) /\ Grounded(b, F \cup MadeBy(a)) => Grounded(a \o b, F)
<1> DEFINE ab == a \o b
<1>1. /\ Len(a) \in Nat /\ Len(b) \in Nat
      /\ ab \in GraphRuns /\ Len(ab) = Len(a) + Len(b)
      /\ \A i \in 1..(Len(a) + Len(b)) : ab[i] = IF i <= Len(a) THEN a[i] ELSE b[i - Len(a)]
  BY ConcatProperties, LenProperties DEF GraphRuns
<1> HIDE DEF ab
<1>2. ASSUME NEW k \in 1..Len(a) PROVE k \in 1..Len(ab) /\ ab[k] = a[k]
  BY <1>1
<1>3. ASSUME NEW k \in 1..Len(b) PROVE Len(a) + k \in 1..Len(ab) /\ ab[Len(a) + k] = b[k]
  <2>1. Len(a) + k \in 1..(Len(a) + Len(b)) /\ ~(Len(a) + k <= Len(a)) /\ (Len(a) + k) - Len(a) = k
    BY <1>1
  <2> QED  BY <1>1, <2>1
<1>4. ASSUME NEW k \in 1..Len(ab), ~(k <= Len(a))
      PROVE  k - Len(a) \in 1..Len(b) /\ ab[k] = b[k - Len(a)]
  BY <1>1, <1>4
<1>5. ASSUME NEW k \in 1..Len(ab), k <= Len(a) PROVE k \in 1..Len(a) /\ ab[k] = a[k]
  BY <1>1, <1>5
<1>6. MadeBy(ab) = MadeBy(a) \cup MadeBy(b)
  BY <1>2, <1>3, <1>4, <1>5 DEF MadeBy
<1>7. PutBy(ab) = PutBy(a) \cup PutBy(b)
  BY <1>2, <1>3, <1>4, <1>5 DEF PutBy
<1>8. ASSUME NEW F, Grounded(a, F), Grounded(b, F \cup MadeBy(a)), NEW i \in 1..Len(ab)
      PROVE  RunStands(ab[i], F \cup MadeBefore(ab, i))
  <2>1. CASE i <= Len(a)
    <3>1. RunStands(a[i], F \cup MadeBefore(a, i)) /\ ab[i] = a[i]
      BY <1>5, <1>8, <2>1 DEF Grounded
    <3>2. \A k \in 1..(i - 1) : ab[k] = a[k]
      BY <1>1, <2>1
    <3>3. MadeBefore(ab, i) = MadeBefore(a, i)
      BY <3>2 DEF MadeBefore
    <3> QED  BY <3>1, <3>3
  <2>2. CASE ~(i <= Len(a))
    <3> DEFINE j == i - Len(a)
    <3>1. j \in 1..Len(b) /\ ab[i] = b[j]
      BY <1>4, <2>2
    <3>2. RunStands(b[j], (F \cup MadeBy(a)) \cup MadeBefore(b, j))
      BY <1>8, <3>1 DEF Grounded
    <3>3. MadeBy(a) \subseteq MadeBefore(ab, i)
      <4>1. \A k \in 1..Len(a) : k \in 1..(i - 1) /\ ab[k] = a[k]
        BY <1>1, <2>2
      <4> QED  BY <4>1 DEF MadeBy, MadeBefore
    <3>4. MadeBefore(b, j) \subseteq MadeBefore(ab, i)
      <4>1. ASSUME NEW k \in 1..(j - 1)
            PROVE  Len(a) + k \in 1..(i - 1) /\ ab[Len(a) + k] = b[k]
        <5>1. k \in 1..Len(b) /\ Len(a) + k \in 1..(i - 1)
          BY <1>1, <2>2, <3>1
        <5> QED  BY <1>3, <5>1
      <4> HIDE DEF j
      <4> QED  BY <4>1 DEF MadeBefore
    <3>5. (F \cup MadeBy(a)) \cup MadeBefore(b, j) \subseteq F \cup MadeBefore(ab, i)
      BY <3>3, <3>4
    <3> HIDE DEF j
    <3> QED  BY <3>1, <3>2, <3>5, RunStandsMore
  <2> QED  BY <2>1, <2>2
<1> QED  BY <1>1, <1>6, <1>7, <1>8 DEF ab, Grounded

\* When the first run is gone and what it made is there.
LEMMA RunsShrink ==
    ASSUME NEW ahead \in GraphRuns, ahead # << >>, NEW F, NEW G, F \subseteq G, Grounded(ahead, F),
           \A p \in Paths : Makes(ahead[1], p) => p \in G
    PROVE  /\ Tail(ahead) \in GraphRuns /\ Grounded(Tail(ahead), G)
           /\ MadeBy(ahead) \subseteq MadeBy(Tail(ahead)) \cup G
           /\ \A p \in PutBy(ahead) : p \in PutBy(Tail(ahead)) \/ Puts(ahead[1], p)
<1> DEFINE t == Tail(ahead)
<1>1. /\ Len(ahead) \in Nat /\ Len(ahead) >= 1 /\ t \in GraphRuns
      /\ Len(t) = Len(ahead) - 1 /\ \A i \in 1..(Len(ahead) - 1) : t[i] = ahead[i + 1]
  BY HeadTailProperties, LenProperties, EmptySeq DEF GraphRuns
<1> HIDE DEF t
<1>2. ASSUME NEW k \in 1..Len(ahead), k # 1 PROVE k - 1 \in 1..Len(t) /\ t[k - 1] = ahead[k]
  <2>1. k - 1 \in 1..(Len(ahead) - 1) /\ (k - 1) + 1 = k
    BY <1>1, <1>2
  <2> QED  BY <1>1, <2>1
<1>3. MadeBy(ahead) \subseteq MadeBy(t) \cup G
  BY <1>2 DEF MadeBy
<1>4. \A p \in PutBy(ahead) : p \in PutBy(t) \/ Puts(ahead[1], p)
  BY <1>2 DEF PutBy
<1>5. ASSUME NEW i \in 1..Len(t) PROVE RunStands(t[i], G \cup MadeBefore(t, i))
  <2>1. i + 1 \in 1..Len(ahead) /\ t[i] = ahead[i + 1]
    BY <1>1
  <2>2. RunStands(ahead[i + 1], F \cup MadeBefore(ahead, i + 1))
    BY <2>1 DEF Grounded
  <2>3. ASSUME NEW p \in MadeBefore(ahead, i + 1) PROVE p \in G \cup MadeBefore(t, i)
    <3>1. PICK k \in 1..((i + 1) - 1) : Makes(ahead[k], p)
      BY <2>3 DEF MadeBefore
    <3>2. p \in Paths
      BY <2>3 DEF MadeBefore
    <3>3. CASE k = 1
      BY <3>1, <3>2, <3>3
    <3>4. CASE k # 1
      <4>1. k - 1 \in 1..(i - 1) /\ k \in 1..Len(ahead)
        BY <1>1, <3>1, <3>4
      <4>2. t[k - 1] = ahead[k]
        BY <1>2, <3>4, <4>1
      <4> QED  BY <3>1, <3>2, <4>1, <4>2 DEF MadeBefore
    <3> QED  BY <3>3, <3>4
  <2>4. F \cup MadeBefore(ahead, i + 1) \subseteq G \cup MadeBefore(t, i)
    BY <2>3
  <2> QED  BY <2>1, <2>2, <2>4, RunStandsMore
<1> QED  BY <1>1, <1>3, <1>4, <1>5 DEF t, Grounded

LEMMA OneRun ==
    ASSUME NEW run \in Seq(GraphRequests) \ {<< >>}
    PROVE  /\ <<run>> \in GraphRuns
           /\ MadeBy(<<run>>) = {p \in Paths : Makes(run, p)}
           /\ PutBy(<<run>>) = {p \in Paths : Puts(run, p)}
           /\ \A F : RunStands(run, F) => Grounded(<<run>>, F)
<1> DEFINE one == <<run>>
<1>1. one \in GraphRuns /\ Len(one) = 1 /\ one[1] = run
  BY DEF GraphRuns
<1> HIDE DEF one
<1>2. \A k \in 1..Len(one) : one[k] = run
  BY <1>1
<1>3. 1 \in 1..Len(one)
  BY <1>1
<1>4. MadeBy(one) = {p \in Paths : Makes(run, p)}
  BY <1>2, <1>3 DEF MadeBy
<1>5. PutBy(one) = {p \in Paths : Puts(run, p)}
  BY <1>2, <1>3 DEF PutBy
<1>6. ASSUME NEW F, RunStands(run, F) PROVE Grounded(one, F)
  <2>1. ASSUME NEW i \in 1..Len(one) PROVE RunStands(one[i], F \cup MadeBefore(one, i))
    <3>1. F \subseteq F \cup MadeBefore(one, i)
      OBVIOUS
    <3> QED  BY <1>2, <1>6, <3>1, RunStandsMore
  <2> QED  BY <2>1 DEF Grounded
<1> QED  BY <1>1, <1>4, <1>5, <1>6 DEF one

LEMMA DriveIsRequest == Drive \in GraphRequests /\ Drive.do = "drive"
BY DEF Drive, GraphRequest, GraphRequests, Paths

LEMMA FirstOf ==
    ASSUME NEW path \in Paths, NEW i \in 1..Len(path)
    PROVE  /\ SubSeq(path, 1, i) \in Paths /\ Len(SubSeq(path, 1, i)) = i
           /\ Up(SubSeq(path, 1, i)) = SubSeq(path, 1, i - 1)
           /\ i = 1 \/ i - 1 \in 1..Len(path)
<1>1. Len(path) \in Nat /\ \A k \in 1..Len(path) : path[k] \in Nat
  BY LenProperties DEF Paths
<1> DEFINE s == SubSeq(path, 1, i)
<1>2. \A k \in 1..i : path[k] \in Nat
  BY <1>1
<1>3. /\ s \in Seq(Nat) /\ Len(s) = IF 1 <= i THEN i - 1 + 1 ELSE 0
      /\ \A k \in 1..(i - 1 + 1) : s[k] = path[1 + k - 1]
  BY <1>1, <1>2, SubSeqProperties
<1>4. s \in Seq(Nat) /\ Len(s) = i /\ \A k \in 1..i : s[k] = path[k]
  BY <1>1, <1>3
<1> HIDE DEF s
<1>5. SubSeq(s, 1, i - 1) = SubSeq(path, 1, i - 1)
  <2> DEFINE u == SubSeq(s, 1, i - 1)
             v == SubSeq(path, 1, i - 1)
  <2>0. 1 \in Nat /\ i - 1 \in Nat
    BY <1>1
  <2>1. \A k \in 1..(i - 1) : s[k] \in Nat /\ path[k] \in Nat /\ s[k] = path[k]
    BY <1>1, <1>4
  <2>2. /\ u \in Seq(Nat) /\ Len(u) = IF 1 <= i - 1 THEN (i - 1) - 1 + 1 ELSE 0
        /\ \A k \in 1..((i - 1) - 1 + 1) : u[k] = s[1 + k - 1]
    BY <2>0, <2>1, SubSeqProperties
  <2>3. /\ v \in Seq(Nat) /\ Len(v) = IF 1 <= i - 1 THEN (i - 1) - 1 + 1 ELSE 0
        /\ \A k \in 1..((i - 1) - 1 + 1) : v[k] = path[1 + k - 1]
    BY <2>0, <2>1, SubSeqProperties
  <2>4. Len(u) = Len(v) /\ \A k \in 1..Len(u) : u[k] = v[k]
    <3> HIDE DEF u, v
    <3>1. Len(u) = i - 1 /\ Len(v) = i - 1
      BY <2>0, <2>2, <2>3
    <3>2. ASSUME NEW k \in 1..(i - 1) PROVE u[k] = v[k]
      <4>1. 1 + k - 1 = k /\ k \in 1..((i - 1) - 1 + 1)
        BY <2>0
      <4>2. u[k] = s[k] /\ v[k] = path[k]
        BY <2>2, <2>3, <4>1
      <4> QED  BY <2>1, <4>2
    <3> QED  BY <3>1, <3>2
  <2> HIDE DEF u, v
  <2>5. u = v
    BY <2>2, <2>3, <2>4, SeqEqual
  <2> QED  BY <2>5 DEF u, v
<1>6. i = 1 \/ i - 1 \in 1..Len(path)
  BY <1>1
<1> QED  BY <1>4, <1>5, <1>6 DEF s, Up, Paths

\* create_folder, from any library.
LEMMA CreateFolderIs ==
    ASSUME NEW path \in Paths
    PROVE  /\ CreateFolder(path) \in GraphRuns
           /\ MadeBy(CreateFolder(path)) = PathPrefixes(path) /\ PutBy(CreateFolder(path)) = {}
           /\ \A F : Grounded(CreateFolder(path), F)
<1> DEFINE cf == CreateFolder(path)
           mk(i) == GraphRequest("mkdir", SubSeq(path, 1, i), "replace")
<1>1. Len(path) \in Nat
  BY LenProperties DEF Paths
<1>2. ASSUME NEW i \in 1..Len(path)
      PROVE  /\ mk(i) \in GraphRequests /\ mk(i).do = "mkdir" /\ mk(i).arg = "replace"
             /\ mk(i).path = SubSeq(path, 1, i)
  BY FirstOf DEF GraphRequest, GraphRequests
<1>3. cf = [i \in 1..Len(path) |-> <<Drive, mk(i)>>]
  BY DEF CreateFolder, CreateDirectory
<1> HIDE DEF mk, cf
<1>4. ASSUME NEW i \in 1..Len(path)
      PROVE  /\ cf[i] = <<Drive, mk(i)>> /\ cf[i] \in Seq(GraphRequests) \ {<< >>}
             /\ Len(cf[i]) = 2 /\ cf[i][1] = Drive /\ cf[i][2] = mk(i)
  <2>1. cf[i] = <<Drive, mk(i)>>
    BY <1>3
  <2>2. <<Drive, mk(i)>> \in Seq(GraphRequests) \ {<< >>}
    BY <1>2, DriveIsRequest
  <2> QED  BY <2>1, <2>2
<1>5. cf \in GraphRuns /\ Len(cf) = Len(path)
  BY <1>1, <1>3, <1>4 DEF GraphRuns
<1>10. ASSUME NEW i \in 1..Len(path)
       PROVE  2 \in 1..Len(cf[i]) /\ \A j \in 1..Len(cf[i]) : j = 1 \/ j = 2
  <2>1. Len(cf[i]) = 2
    BY <1>4
  <2> QED  BY <2>1
<1>6. ASSUME NEW i \in 1..Len(path), NEW p
      PROVE  (Makes(cf[i], p) <=> p = SubSeq(path, 1, i)) /\ ~Puts(cf[i], p)
  <2>1. cf[i][1].do = "drive" /\ cf[i][2].do = "mkdir" /\ cf[i][2].path = SubSeq(path, 1, i)
    BY <1>2, <1>4, DriveIsRequest
  <2> QED  BY <1>10, <2>1 DEF Makes, Puts
<1>7. MadeBy(cf) = PathPrefixes(path)
  <2>1. ASSUME NEW p \in MadeBy(cf) PROVE p \in PathPrefixes(path)
    BY <1>5, <1>6, <2>1 DEF MadeBy, PathPrefixes
  <2>2. ASSUME NEW i \in 1..Len(path) PROVE SubSeq(path, 1, i) \in MadeBy(cf)
    <3>1. SubSeq(path, 1, i) \in Paths
      BY FirstOf
    <3> QED  BY <1>5, <1>6, <3>1 DEF MadeBy
  <2> QED  BY <2>1, <2>2 DEF PathPrefixes
<1>8. PutBy(cf) = {}
  BY <1>5, <1>6 DEF PutBy
<1>9. ASSUME NEW F PROVE Grounded(cf, F)
  <2>1. ASSUME NEW i \in 1..Len(path) PROVE RunStands(cf[i], F \cup MadeBefore(cf, i))
    <3>1. Len(SubSeq(path, 1, i)) = 1 \/ Up(SubSeq(path, 1, i)) \in MadeBefore(cf, i)
      <4>1. CASE i = 1
        BY <4>1, FirstOf
      <4>2. CASE i # 1
        <5>1. i - 1 \in 1..Len(path)
          BY <4>2, FirstOf
        <5>2. SubSeq(path, 1, i - 1) \in Paths /\ Makes(cf[i - 1], SubSeq(path, 1, i - 1))
          BY <1>6, <5>1, FirstOf
        <5>3. i - 1 \in 1..(i - 1)
          BY <1>1, <5>1
        <5> QED  BY <5>2, <5>3, FirstOf DEF MadeBefore
      <4> QED  BY <4>1, <4>2
    <3>3. Stands(Drive, F \cup MadeBefore(cf, i))
      BY DriveIsRequest DEF Stands
    <3>4. Stands(mk(i), F \cup MadeBefore(cf, i))
      BY <1>2, <3>1 DEF Stands
    <3> QED  BY <1>4, <1>10, <3>3, <3>4 DEF RunStands
  <2> QED  BY <1>5, <2>1 DEF Grounded
<1> QED  BY <1>5, <1>7, <1>8, <1>9 DEF cf

LEMMA WriteFileIs ==
    ASSUME NEW path \in FilePaths, path \in Paths
    PROVE  /\ WriteFile(path) \in GraphRuns
           /\ MadeBy(WriteFile(path)) = {} /\ PutBy(WriteFile(path)) = {path}
           /\ \A F : Up(path) \in F => Grounded(WriteFile(path), F)
<1> DEFINE put == GraphRequest("put", path, 0)
           a == <<Drive>>
           b == <<put>>
<1>1. put \in GraphRequests /\ put.do = "put" /\ put.path = path
  BY DEF GraphRequest, GraphRequests
<1> HIDE DEF put
<1>2. /\ a \in Seq(GraphRequests) \ {<< >>} /\ Len(a) = 1 /\ a[1] = Drive
      /\ b \in Seq(GraphRequests) \ {<< >>} /\ Len(b) = 1 /\ b[1] = put
  BY <1>1, DriveIsRequest
<1>3. WriteFile(path) = <<a>> \o <<b>>
  BY DEF WriteFile, put
<1> HIDE DEF a, b
<1>4. \A p : ~Makes(a, p) /\ ~Makes(b, p) /\ ~Puts(a, p) /\ (Puts(b, p) <=> p = path)
  <2>1. a[1].do = "drive" /\ b[1].do = "put" /\ b[1].path = path
    BY <1>1, <1>2, DriveIsRequest
  <2>2. \A j : (j \in 1..Len(a) <=> j = 1) /\ (j \in 1..Len(b) <=> j = 1)
    BY <1>2
  <2> QED  BY <2>1, <2>2 DEF Makes, Puts
<1>5. /\ <<a>> \in GraphRuns /\ MadeBy(<<a>>) = {} /\ PutBy(<<a>>) = {}
      /\ <<b>> \in GraphRuns /\ MadeBy(<<b>>) = {} /\ PutBy(<<b>>) = {path}
  BY <1>2, <1>4, OneRun
<1>6. ASSUME NEW F, Up(path) \in F PROVE Grounded(<<a>>, F) /\ Grounded(<<b>>, F)
  <2>1. \A j : (j \in 1..Len(a) <=> j = 1) /\ (j \in 1..Len(b) <=> j = 1)
    BY <1>2
  <2>2. RunStands(a, F) /\ RunStands(b, F)
    BY <1>1, <1>2, <1>6, <2>1, DriveIsRequest DEF RunStands, Stands
  <2> QED  BY <1>2, <2>2, OneRun
<1>7. ASSUME NEW F, Up(path) \in F PROVE Grounded(<<a>> \o <<b>>, F)
  <2>1. Grounded(<<b>>, F \cup MadeBy(<<a>>))
    BY <1>5, <1>6, <1>7
  <2> QED  BY <1>5, <1>6, <1>7, <2>1, JoinedRuns
<1> QED  BY <1>3, <1>5, <1>7, JoinedRuns

LEMMA UpOfAppend ==
    ASSUME NEW path \in Paths, NEW name \in Nat
    PROVE  Append(path, name) \in Paths /\ Up(Append(path, name)) = path
<1> DEFINE s == Append(path, name)
           u == SubSeq(s, 1, Len(path))
<1>1. /\ Len(path) \in Nat /\ \A k \in 1..Len(path) : path[k] \in Nat
      /\ s \in Seq(Nat) /\ Len(s) = Len(path) + 1 /\ \A k \in 1..Len(path) : s[k] = path[k]
  BY AppendProperties, LenProperties DEF Paths
<1>2. Up(s) = u
  <2>1. Len(s) - 1 = Len(path)
    BY <1>1
  <2> QED  BY <2>1 DEF Up
<1> HIDE DEF s
<1>3. \A k \in 1..Len(path) : s[k] \in Nat
  BY <1>1
<1>4. /\ u \in Seq(Nat) /\ Len(u) = IF 1 <= Len(path) THEN Len(path) - 1 + 1 ELSE 0
      /\ \A k \in 1..(Len(path) - 1 + 1) : u[k] = s[1 + k - 1]
  BY <1>1, <1>3, SubSeqProperties
<1> HIDE DEF u
<1>5. Len(u) = Len(path) /\ \A k \in 1..Len(u) : u[k] = path[k]
  BY <1>1, <1>4
<1>6. u = path
  BY <1>4, <1>5, SeqEqual DEF Paths
<1> QED  BY <1>1, <1>2, <1>6 DEF s, Paths

LEMMA PathIsPrefix ==
    ASSUME NEW path \in Paths, path # << >>
    PROVE  path \in PathPrefixes(path)
<1>1. Len(path) \in 1..Len(path)
  BY LenProperties, EmptySeq DEF Paths
<1>2. SubSeq(path, 1, Len(path)) = path
  BY SubSeqFull DEF Paths
<1> QED  BY <1>1, <1>2 DEF PathPrefixes

TopFile == Append(UploadFolder, LeafName)
Sub     == UploadFolder \o <<SubFolder>>
SubFile == Append(Sub, LeafName)

LEMMA UploadPaths ==
    /\ UploadFolder \in Paths /\ UploadFolder # << >> /\ Sub \in Paths /\ Sub # << >>
    /\ Sub # UploadFolder
    /\ TopFile \in Paths /\ Up(TopFile) = UploadFolder
    /\ SubFile \in Paths /\ Up(SubFile) = Sub
    /\ FilePaths = {TopFile, SubFile}
<1>1. /\ FolderDepth \in Nat /\ FolderDepth >= 1 /\ SubFolder \in Nat /\ LeafName \in Nat
  BY TransportAssumption DEF SubFolder, LeafName
<1>2. UploadFolder \in Seq(Nat) /\ Len(UploadFolder) = FolderDepth
  BY <1>1 DEF UploadFolder
<1>3. <<SubFolder>> \in Seq(Nat) /\ Len(<<SubFolder>>) = 1
  BY <1>1
<1>4. Sub \in Seq(Nat) /\ Len(Sub) = FolderDepth + 1
  BY <1>2, <1>3, ConcatProperties DEF Sub
<1>5. Len(<< >>) = 0
  OBVIOUS
<1>6. UploadFolder # << >> /\ Sub # << >> /\ Sub # UploadFolder
  <2>1. FolderDepth # 0 /\ FolderDepth + 1 # 0 /\ FolderDepth + 1 # FolderDepth
    BY <1>1
  <2> QED  BY <1>2, <1>4, <1>5, <2>1
<1>7. UploadFolder \o <<SubFolder, LeafName>> = SubFile
  <2>1. <<SubFolder, LeafName>> = <<SubFolder>> \o <<LeafName>>
    BY <1>1
  <2>2. SubFile = Sub \o <<LeafName>>
    BY <1>1, <1>4, AppendIsConcat DEF SubFile
  <2>3. <<LeafName>> \in Seq(Nat)
    BY <1>1
  <2>4. (UploadFolder \o <<SubFolder>>) \o <<LeafName>> = UploadFolder \o (<<SubFolder>> \o <<LeafName>>)
    BY <1>2, <1>3, <2>3, ConcatAssociative
  <2> QED  BY <2>1, <2>2, <2>4 DEF Sub
<1> QED  BY <1>1, <1>2, <1>4, <1>6, <1>7, UpOfAppend DEF Paths, TopFile, SubFile, FilePaths

\* The files an upload promises.
Targets(op) == IF op = "reports" THEN FilePaths ELSE {TopFile}

LEMMA IntoFolder ==
    ASSUME NEW folder \in Paths, folder # << >>, NEW file \in FilePaths, file \in Paths,
           Up(file) = folder
    PROVE  /\ CreateFolder(folder) \o WriteFile(file) \in GraphRuns
           /\ MadeBy(CreateFolder(folder) \o WriteFile(file)) = PathPrefixes(folder)
           /\ PutBy(CreateFolder(folder) \o WriteFile(file)) = {file}
           /\ \A F : Grounded(CreateFolder(folder) \o WriteFile(file), F)
<1> DEFINE a == CreateFolder(folder)
           b == WriteFile(file)
<1>1. /\ a \in GraphRuns /\ MadeBy(a) = PathPrefixes(folder) /\ PutBy(a) = {}
      /\ \A F : Grounded(a, F)
  BY CreateFolderIs
<1>2. /\ b \in GraphRuns /\ MadeBy(b) = {} /\ PutBy(b) = {file}
      /\ \A F : Up(file) \in F => Grounded(b, F)
  BY WriteFileIs
<1>3. folder \in MadeBy(a)
  BY <1>1, PathIsPrefix
<1> HIDE DEF a, b
<1>4. ASSUME NEW F PROVE Grounded(a \o b, F)
  <2>1. Grounded(b, F \cup MadeBy(a))
    BY <1>2, <1>3
  <2> QED  BY <1>1, <1>2, <2>1, JoinedRuns
<1>5. /\ a \o b \in GraphRuns /\ MadeBy(a \o b) = MadeBy(a) \cup MadeBy(b)
      /\ PutBy(a \o b) = PutBy(a) \cup PutBy(b)
  BY <1>1, <1>2, JoinedRuns
<1> QED  BY <1>1, <1>2, <1>4, <1>5 DEF a, b

LEMMA StagedRuns ==
    /\ FileRuns(1) = WriteFile(TopFile)
    /\ FileRuns(2) = CreateFolder(Sub) \o WriteFile(SubFile)
    /\ FileRuns(3) = << >>
<1>1. /\ Staged[1].there /\ Staged[1].inside /\ Staged[1].dirs = << >>
      /\ Staged[2].there /\ Staged[2].inside /\ Staged[2].dirs = <<SubFolder>>
      /\ ~Staged[3].there
  BY DEF Staged
<1>2. Destination(Staged[1]) = UploadFolder
  <2>1. UploadFolder \o << >> = UploadFolder
    BY UploadPaths, ConcatEmptySeq DEF Paths
  <2> QED  BY <1>1, <2>1 DEF Destination
<1>3. Destination(Staged[2]) = Sub
  BY <1>1 DEF Destination, Sub
<1>4. FileRuns(3) = << >>
  BY <1>1 DEF FileRuns
<1>5. FileRuns(1) = << >> \o WriteFile(TopFile)
  BY <1>1, <1>2 DEF FileRuns, TopFile
<1>6. << >> \o WriteFile(TopFile) = WriteFile(TopFile)
  BY UploadPaths, WriteFileIs, ConcatEmptySeq DEF GraphRuns
<1>7. \A j \in 1..(2 - 1) : j = 1
  OBVIOUS
<1>8. FileRuns(2) = CreateFolder(Sub) \o WriteFile(SubFile)
  BY <1>1, <1>2, <1>3, <1>7, UploadPaths DEF FileRuns, SubFile
<1> QED  BY <1>4, <1>5, <1>6, <1>8

LEMMA UploadsAreGrounded ==
    ASSUME NEW op \in {"upload", "reports"}, NEW col
    PROVE  /\ RunsOf(op, col) \in GraphRuns /\ \A F : Grounded(RunsOf(op, col), F)
           /\ PathPrefixes(UploadFolder) \subseteq MadeBy(RunsOf(op, col))
           /\ Targets(op) \subseteq PutBy(RunsOf(op, col))
<1>1. CASE op = "upload"
  <2> DEFINE u == CreateFolder(UploadFolder) \o WriteFile(TopFile)
  <2>1. RunsOf(op, col) = u
    BY <1>1 DEF RunsOf, UploadInto, TopFile
  <2>2. /\ u \in GraphRuns /\ MadeBy(u) = PathPrefixes(UploadFolder)
        /\ PutBy(u) = {TopFile} /\ \A F : Grounded(u, F)
    BY UploadPaths, IntoFolder
  <2> HIDE DEF u
  <2>3. Targets(op) = {TopFile}
    BY <1>1 DEF Targets
  <2> QED  BY <2>1, <2>2, <2>3
<1>2. CASE op = "reports"
  <2> DEFINE a == CreateFolder(UploadFolder)
             b == WriteFile(TopFile)
             c == CreateFolder(Sub) \o WriteFile(SubFile)
  <2>1. RunsOf(op, col) = ((a \o b) \o c) \o << >>
    BY <1>2, StagedRuns DEF RunsOf, UploadReports
  <2>2. /\ a \o b \in GraphRuns /\ MadeBy(a \o b) = PathPrefixes(UploadFolder)
        /\ PutBy(a \o b) = {TopFile} /\ \A F : Grounded(a \o b, F)
    BY UploadPaths, IntoFolder
  <2>3. c \in GraphRuns /\ PutBy(c) = {SubFile} /\ \A F : Grounded(c, F)
    BY UploadPaths, IntoFolder
  <2> DEFINE ab == a \o b
  <2> HIDE DEF a, b, c
  <2>4. /\ ab \o c \in GraphRuns /\ MadeBy(ab \o c) = MadeBy(ab) \cup MadeBy(c)
        /\ PutBy(ab \o c) = PutBy(ab) \cup PutBy(c)
        /\ \A F : Grounded(ab, F) /\ Grounded(c, F \cup MadeBy(ab)) => Grounded(ab \o c, F)
    <3>1. ab \in GraphRuns
      BY <2>2
    <3> HIDE DEF ab
    <3> QED  BY <2>3, <3>1, JoinedRuns
  <2>5. (ab \o c) \o << >> = ab \o c
    BY <2>4, ConcatEmptySeq DEF GraphRuns
  <2> QED  BY <1>2, <2>1, <2>2, <2>3, <2>4, <2>5, UploadPaths DEF Targets
<1> QED  BY <1>1, <1>2

LEMMA RunsAreTyped ==
    ASSUME NEW op \in Operations, NEW col \in ItemColumns
    PROVE  RunsOf(op, col) \in GraphRuns
<1> DEFINE dir == GraphRequest("mkdir", <<UploadFolder[1]>>, "fail")
           get == GraphRequest("get", TopFile, 0)
           page == GraphRequest("page", << >>, 1)
           patch == GraphRequest("patch", << >>, col)
<1>1. UploadFolder[1] \in Nat
  <2>1. 1 \in 1..Len(UploadFolder)
    BY UploadPaths, LenProperties, EmptySeq DEF Paths
  <2> QED  BY <2>1, UploadPaths, LenProperties DEF Paths
<1>2. dir \in GraphRequests
  BY <1>1 DEF GraphRequest, GraphRequests, Paths
<1>3. get \in GraphRequests
  BY UploadPaths DEF GraphRequest, GraphRequests
<1>4. page \in GraphRequests
  BY DEF GraphRequest, GraphRequests, Paths
<1>5. patch \in GraphRequests
  BY DEF GraphRequest, GraphRequests, Paths, ItemColumns
<1> HIDE DEF dir, get, page, patch
<1>6. CASE op \in {"upload", "reports"}
  BY <1>6, UploadsAreGrounded
<1>7. CASE op = "directory"
  <2>1. RunsOf(op, col) = << <<Drive, dir>> >>
    BY <1>7 DEF RunsOf, CreateDirectory, dir
  <2>2. <<Drive, dir>> \in Seq(GraphRequests) \ {<< >>}
    BY <1>2, DriveIsRequest
  <2> QED  BY <2>1, <2>2, OneRun
<1>8. CASE op = "read"
  <2>1. RunsOf(op, col) = << <<Drive>>, <<get>> >>
    BY <1>8 DEF RunsOf, ReadFile, TopFile, get
  <2>2. <<Drive>> \in Seq(GraphRequests) \ {<< >>} /\ <<get>> \in Seq(GraphRequests) \ {<< >>}
    BY <1>3, DriveIsRequest
  <2> DEFINE x == <<Drive>>
             y == <<get>>
  <2> HIDE DEF x, y
  <2>3. <<x, y>> \in GraphRuns
    BY <2>2 DEF GraphRuns, x, y
  <2> QED  BY <2>1, <2>3 DEF x, y
<1>9. CASE op = "items"
  <2>1. RunsOf(op, col) = << <<page>> >>
    BY <1>9 DEF RunsOf, ListItems, page
  <2>2. <<page>> \in Seq(GraphRequests) \ {<< >>}
    BY <1>4
  <2> QED  BY <2>1, <2>2, OneRun
<1>10. CASE op = "list"
  <2>1. RunsOf(op, col) = << <<Drive, page>> >>
    BY <1>10 DEF RunsOf, ListDirectory, page
  <2>2. <<Drive, page>> \in Seq(GraphRequests) \ {<< >>}
    BY <1>4, DriveIsRequest
  <2> QED  BY <2>1, <2>2, OneRun
<1>11. CASE op = "update"
  <2>1. RunsOf(op, col) = << <<patch>> >>
    BY <1>11 DEF RunsOf, UpdateListItem, patch
  <2>2. <<patch>> \in Seq(GraphRequests) \ {<< >>}
    BY <1>5
  <2> QED  BY <2>1, <2>2, OneRun
<1>12. CASE op = "close"
  BY <1>12 DEF RunsOf, GraphRuns
<1> QED  BY <1>6, <1>7, <1>8, <1>9, <1>10, <1>11, <1>12 DEF Operations

\* A number that is not used yet.
LEMMA NewestIsNew ==
    ASSUME NEW used, IsFiniteSet(used)
    PROVE  Newest(used) \in Nat \ {0} /\ Newest(used) \notin used
<1> DEFINE n == Cardinality(used) + 1
<1>1. Cardinality(used) \in Nat /\ n \in Nat /\ 1 \in Int /\ n \in Int
  BY FS_CardinalityType
<1>2. Cardinality(1..n) = n
  BY <1>1, FS_Interval
<1>3. ~(1..n \subseteq used)
  <2> SUFFICES ASSUME 1..n \in SUBSET used PROVE FALSE
    OBVIOUS
  <2>1. Cardinality(1..n) <= Cardinality(used)
    BY FS_Subset
  <2> HIDE DEF n
  <2>2. n <= Cardinality(used)
    BY <1>2, <2>1
  <2> QED  BY <1>1, <2>2 DEF n
<1>4. Newest(used) \in 1..n /\ Newest(used) \notin used
  BY <1>3 DEF Newest
<1> QED  BY <1>1, <1>4

LEMMA UsedAreFinite ==
    ASSUME SPTyped
    PROVE  IsFiniteSet(LoopsUsed \ {0}) /\ IsFiniteSet(PoolsUsed \ {0})
<1> DEFINE Ls == {asked[c].loop : c \in Callers}
           Ps == {asked[c].pool : c \in Callers}
           lf == [c \in Callers |-> asked[c].loop]
           pf == [c \in Callers |-> asked[c].pool]
<1>0. IsFiniteSet(Callers)
  BY TransportAssumption
<1>1. lf \in Surjection(Callers, Ls)
  BY DEF Surjection
<1>2. pf \in Surjection(Callers, Ps)
  BY DEF Surjection
<1>3. IsFiniteSet(Ls) /\ IsFiniteSet(Ps)
  <2> HIDE DEF lf, pf, Ls, Ps
  <2> QED  BY <1>0, <1>1, <1>2, FS_Surjection
<1> HIDE DEF Ls, Ps
<1>4. /\ IsFiniteSet({loop}) /\ IsFiniteSet({pool})
      /\ IsFiniteSet(closedLoops) /\ IsFiniteSet(shutPools)
  BY FS_Singleton DEF SPTyped
<1>5. /\ IsFiniteSet({loop} \cup closedLoops \cup Ls)
      /\ IsFiniteSet({pool} \cup shutPools \cup Ps)
  <2>1. IsFiniteSet({loop} \cup closedLoops) /\ IsFiniteSet({pool} \cup shutPools)
    BY <1>4, FS_Union
  <2> QED  BY <1>3, <2>1, FS_Union
<1>6. IsFiniteSet(LoopsUsed) /\ IsFiniteSet(PoolsUsed)
  BY <1>5 DEF LoopsUsed, PoolsUsed, Ls, Ps
<1> QED  BY <1>6, FS_RemoveElement

-----------------------------------------------------------------------------
(* The next request of an operation, and what is left when it is answered. *)

NextRequest(ahead) == Head(Head(ahead))
LeftOver(ahead)    == Tail(Head(ahead))
Onward(ahead)      == IF LeftOver(ahead) = << >> THEN Tail(ahead) ELSE <<LeftOver(ahead)>> \o Tail(ahead)

LEMMA RunsHaveHeads ==
    ASSUME NEW ahead \in GraphRuns, ahead # << >>
    PROVE  /\ Head(ahead) = ahead[1] /\ ahead[1] \in Seq(GraphRequests) \ {<< >>}
           /\ 1 \in 1..Len(ahead) /\ Len(ahead) \in Nat /\ Tail(ahead) \in GraphRuns
           /\ NextRequest(ahead) = ahead[1][1] /\ NextRequest(ahead) \in GraphRequests
           /\ Len(ahead[1]) \in Nat /\ 1 \in 1..Len(ahead[1])
           /\ LeftOver(ahead) \in Seq(GraphRequests)
           /\ Len(LeftOver(ahead)) = Len(ahead[1]) - 1
           /\ \A j \in 1..Len(LeftOver(ahead)) : LeftOver(ahead)[j] = ahead[1][j + 1]
<1>1. /\ Head(ahead) \in Seq(GraphRequests) \ {<< >>} /\ Len(ahead) \in Nat /\ Len(ahead) >= 1
      /\ Head(ahead) = ahead[1] /\ Tail(ahead) \in GraphRuns
  BY HeadTailProperties, LenProperties, EmptySeq DEF GraphRuns
<1> DEFINE run == ahead[1]
<1>2. run \in Seq(GraphRequests) \ {<< >>}
  BY <1>1
<1> HIDE DEF run
<1>3. /\ Head(run) \in GraphRequests /\ Len(run) \in Nat /\ Len(run) >= 1
      /\ Head(run) = run[1] /\ Tail(run) \in Seq(GraphRequests) /\ Len(Tail(run)) = Len(run) - 1
      /\ \A j \in 1..Len(Tail(run)) : Tail(run)[j] = run[j + 1]
  BY <1>2, HeadTailProperties, LenProperties, EmptySeq
<1>4. NextRequest(ahead) = Head(run) /\ LeftOver(ahead) = Tail(run)
  BY <1>1 DEF NextRequest, LeftOver, run
<1> QED  BY <1>1, <1>3, <1>4 DEF run

LEMMA RunMoves ==
    ASSUME NEW ahead \in GraphRuns, ahead # << >>, NEW F, NEW G, F \subseteq G, Grounded(ahead, F),
           NextRequest(ahead).do = "mkdir" => NextRequest(ahead).path \in G
    PROVE  /\ Stands(NextRequest(ahead), F)
           /\ Onward(ahead) \in GraphRuns /\ Grounded(Onward(ahead), G)
           /\ MadeBy(ahead) \subseteq MadeBy(Onward(ahead)) \cup G
           /\ \A p \in PutBy(ahead) :
                 \/ p \in PutBy(Onward(ahead))
                 \/ NextRequest(ahead).do = "put" /\ NextRequest(ahead).path = p
<1> DEFINE run == ahead[1]
           r == NextRequest(ahead)
           left == LeftOver(ahead)
<1>1. /\ run \in Seq(GraphRequests) \ {<< >>} /\ 1 \in 1..Len(ahead) /\ Len(ahead) \in Nat
      /\ Tail(ahead) \in GraphRuns /\ r = run[1] /\ Len(run) \in Nat /\ 1 \in 1..Len(run)
      /\ left \in Seq(GraphRequests) /\ Len(left) = Len(run) - 1
      /\ \A j \in 1..Len(left) : left[j] = run[j + 1]
  BY RunsHaveHeads
<1>2. RunStands(run, F)
  <2>1. RunStands(run, F \cup MadeBefore(ahead, 1))
    BY <1>1 DEF Grounded
  <2>2. MadeBefore(ahead, 1) = {}
    BY DEF MadeBefore
  <2> QED  BY <2>1, <2>2
<1>3. r.do = "mkdir" => r.path \in G
  OBVIOUS
<1> HIDE DEF run, r, left
<1>4. Stands(r, F)
  BY <1>1, <1>2 DEF RunStands
<1>5. RunStands(left, G)
  <2>1. ASSUME NEW j \in 1..Len(left) PROVE Stands(left[j], G)
    <3>1. j + 1 \in 1..Len(run) /\ left[j] = run[j + 1]
      BY <1>1
    <3>2. RunStands(run, G)
      BY <1>2, RunStandsMore
    <3> QED  BY <3>1, <3>2 DEF RunStands
  <2> QED  BY <2>1 DEF RunStands
<1>6. ASSUME NEW p
      PROVE  /\ Makes(run, p) => (Makes(left, p) \/ p \in G)
             /\ Puts(run, p) => (Puts(left, p) \/ (r.do = "put" /\ r.path = p))
  <2>1. ASSUME NEW j \in 1..Len(run), j # 1
        PROVE  j - 1 \in 1..Len(left) /\ left[j - 1] = run[j]
    <3>1. j - 1 \in 1..Len(left) /\ (j - 1) + 1 = j
      BY <1>1, <2>1
    <3> QED  BY <1>1, <3>1
  <2> QED  BY <1>1, <1>3, <2>1 DEF Makes, Puts
<1>7. CASE left = << >>
  <2>1. Len(left) = 0
    BY <1>7
  <2>2. ~(\E j \in 1..Len(left) : TRUE)
    BY <2>1
  <2>3. \A p : Makes(run, p) => p \in G
    BY <1>6, <2>2 DEF Makes
  <2>4. \A p : Puts(run, p) => r.do = "put" /\ r.path = p
    BY <1>6, <2>2 DEF Puts
  <2>5. /\ Tail(ahead) \in GraphRuns /\ Grounded(Tail(ahead), G)
        /\ MadeBy(ahead) \subseteq MadeBy(Tail(ahead)) \cup G
        /\ \A p \in PutBy(ahead) : p \in PutBy(Tail(ahead)) \/ Puts(ahead[1], p)
    BY <2>3, RunsShrink DEF run
  <2>6. Onward(ahead) = Tail(ahead)
    BY <1>7 DEF Onward, left
  <2> QED  BY <1>4, <2>4, <2>5, <2>6 DEF run, r
<1>8. CASE left # << >>
  <2> DEFINE one == <<left>>
  <2>1. /\ one \in GraphRuns /\ MadeBy(one) = {p \in Paths : Makes(left, p)}
        /\ PutBy(one) = {p \in Paths : Puts(left, p)} /\ Grounded(one, G)
    BY <1>1, <1>5, <1>8, OneRun
  <2>2. Onward(ahead) = one \o Tail(ahead)
    BY <1>8 DEF Onward, left
  <2> HIDE DEF one
  <2> DEFINE H == G \cup MadeBy(one)
  <2>3. \A p \in Paths : Makes(ahead[1], p) => p \in H
    BY <1>6, <2>1 DEF run
  <2>4. F \subseteq H
    OBVIOUS
  <2> HIDE DEF H
  <2>5. /\ Tail(ahead) \in GraphRuns /\ Grounded(Tail(ahead), H)
        /\ MadeBy(ahead) \subseteq MadeBy(Tail(ahead)) \cup H
        /\ \A p \in PutBy(ahead) : p \in PutBy(Tail(ahead)) \/ Puts(ahead[1], p)
    BY <2>3, <2>4, RunsShrink
  <2>6. /\ one \o Tail(ahead) \in GraphRuns
        /\ MadeBy(one \o Tail(ahead)) = MadeBy(one) \cup MadeBy(Tail(ahead))
        /\ PutBy(one \o Tail(ahead)) = PutBy(one) \cup PutBy(Tail(ahead))
        /\ Grounded(one \o Tail(ahead), G)
    BY <2>1, <2>5, JoinedRuns DEF H
  <2>7. MadeBy(ahead) \subseteq MadeBy(one \o Tail(ahead)) \cup G
    BY <2>5, <2>6 DEF H
  <2>8. ASSUME NEW p \in PutBy(ahead)
        PROVE  p \in PutBy(one \o Tail(ahead)) \/ (r.do = "put" /\ r.path = p)
    <3>1. p \in Paths
      BY DEF PutBy
    <3> QED  BY <1>6, <2>1, <2>5, <2>6, <3>1 DEF run
  <2> QED  BY <1>4, <2>2, <2>6, <2>7, <2>8 DEF r
<1> QED  BY <1>7, <1>8

Places == Resting \cup Working \cup Closing
Same(a, b) == /\ a.op = b.op /\ a.rowsThen = b.rowsThen /\ a.col = b.col /\ a.loop = b.loop
              /\ a.pool = b.pool /\ a.wasWarm = b.wasWarm

\* What a step of one caller does to its call, beside what it names.
LEMMA CallMoves ==
    ASSUME NEW a \in SPCalls, NEW x \in Places
    PROVE  /\ [a EXCEPT !.at = x] \in SPCalls /\ [a EXCEPT !.at = x].at = x
           /\ Same([a EXCEPT !.at = x], a) /\ [a EXCEPT !.at = x].runs = a.runs
           /\ [a EXCEPT !.at = x].seen = a.seen /\ [a EXCEPT !.at = x].cause = a.cause
BY DEF SPCalls, Places, Same

LEMMA CallFails ==
    ASSUME NEW a \in SPCalls, NEW x \in {"graph", "clash", "exists", "absent"}
    PROVE  /\ [a EXCEPT !.at = "failed", !.cause = x] \in SPCalls
           /\ [a EXCEPT !.at = "failed", !.cause = x].at = "failed"
           /\ [a EXCEPT !.at = "failed", !.cause = x].cause = x
           /\ [a EXCEPT !.at = "failed", !.cause = x].runs = a.runs
           /\ Same([a EXCEPT !.at = "failed", !.cause = x], a)
BY DEF SPCalls, Resting, Same

LEMMA CallSkips ==
    ASSUME NEW a \in SPCalls, a.runs # << >>
    PROVE  /\ [a EXCEPT !.runs = Tail(@)] \in SPCalls
           /\ [a EXCEPT !.runs = Tail(@)].runs = Tail(a.runs)
           /\ [a EXCEPT !.runs = Tail(@)].at = a.at
           /\ [a EXCEPT !.runs = Tail(@)].seen = a.seen
           /\ [a EXCEPT !.runs = Tail(@)].cause = a.cause
           /\ Same([a EXCEPT !.runs = Tail(@)], a)
<1>1. a.runs \in GraphRuns
  BY DEF SPCalls
<1>2. Tail(a.runs) \in GraphRuns
  BY <1>1, RunsHaveHeads
<1> QED  BY <1>2 DEF SPCalls, Same

\* The call a step leaves.
Touches(c, a) ==
    /\ a \in SPCalls /\ asked' \in [Callers -> SPCalls] /\ asked'[c] = a
    /\ \A d \in Callers \ {c} : asked'[d] = asked[d]

LEMMA TouchOne ==
    ASSUME SPTyped, NEW c \in Callers, NEW a \in SPCalls, asked' = [asked EXCEPT ![c] = a]
    PROVE  Touches(c, a)
BY DEF SPTyped, Touches

LEMMA MovesTouches ==
    ASSUME SPTyped, NEW c \in Callers, NEW x \in Places, Moves(c, x)
    PROVE  Touches(c, [asked[c] EXCEPT !.at = x])
<1>1. asked[c] \in SPCalls
  BY DEF SPTyped
<1>2. [asked[c] EXCEPT !.at = x] \in SPCalls
  BY <1>1, CallMoves
<1>3. asked' = [asked EXCEPT ![c] = [asked[c] EXCEPT !.at = x]]
  BY DEF Moves
<1> QED  BY <1>2, <1>3, TouchOne

LEMMA FailsTouches ==
    ASSUME SPTyped, NEW c \in Callers, NEW x \in {"graph", "clash", "exists", "absent"},
           OperationFails(c, x)
    PROVE  Touches(c, [asked[c] EXCEPT !.at = "failed", !.cause = x])
<1>1. asked[c] \in SPCalls
  BY DEF SPTyped
<1>2. [asked[c] EXCEPT !.at = "failed", !.cause = x] \in SPCalls
  BY <1>1, CallFails
<1>3. asked' = [asked EXCEPT ![c] = [asked[c] EXCEPT !.at = "failed", !.cause = x]]
  BY DEF OperationFails
<1> QED  BY <1>2, <1>3, TouchOne

\* What an answer leaves of the call.
CallAnswered(a, left, seen) ==
    [a EXCEPT !.seen = seen, !.runs = IF left = << >> THEN Tail(a.runs) ELSE <<left>> \o Tail(a.runs),
              !.at = IF left = << >> THEN "next" ELSE "running"]

IsAnswered(c, r, left, a) ==
    /\ left = NextPage(r) \o LeftOver(asked[c].runs)
    /\ Same(a, asked[c]) /\ a.cause = asked[c].cause
    /\ a.runs = IF left = << >> THEN Tail(asked[c].runs) ELSE <<left>> \o Tail(asked[c].runs)
    /\ a.at = IF left = << >> THEN "next" ELSE "running"
    /\ a.seen = asked[c].seen \cup SeenIn(r)

LEMMA AnswerTouches ==
    ASSUME SPTyped, NEW c \in Callers, asked[c].runs # << >>,
           GraphAnswered(c, NextRequest(asked[c].runs))
    PROVE  \E left \in Seq(GraphRequests), a \in SPCalls :
               Touches(c, a) /\ IsAnswered(c, NextRequest(asked[c].runs), left, a)
<1> DEFINE r    == NextRequest(asked[c].runs)
           left == NextPage(r) \o LeftOver(asked[c].runs)
           ans  == CallAnswered(asked[c], left, asked[c].seen \cup SeenIn(r))
<1>1. asked[c] \in SPCalls /\ asked[c].runs \in GraphRuns
  BY DEF SPTyped, SPCalls
<1>2. /\ r \in GraphRequests /\ LeftOver(asked[c].runs) \in Seq(GraphRequests)
      /\ Tail(asked[c].runs) \in GraphRuns
  BY <1>1, RunsHaveHeads
<1>3. NextPage(r) \in Seq(GraphRequests)
  <2> HIDE DEF r
  <2>1. CASE r.do = "page" /\ r.arg < listRows
    <3>1. [r EXCEPT !.arg = @ + 1] \in GraphRequests
      BY <1>2, <2>1 DEF GraphRequests
    <3> QED  BY <2>1, <3>1 DEF NextPage
  <2>2. CASE ~(r.do = "page" /\ r.arg < listRows)
    BY <2>2 DEF NextPage
  <2> QED  BY <2>1, <2>2
<1>4. left \in Seq(GraphRequests)
  BY <1>2, <1>3, ConcatProperties
<1>5. SeenIn(r) \in SUBSET (Nat \cup Callers)
  <2> HIDE DEF r
  <2>1. CASE r.do = "page"
    BY <1>2, <2>1 DEF SeenIn, GraphRequests
  <2>2. CASE r.do = "get"
    <3>1. r.path \in FilePaths
      BY <1>2, <2>2 DEF GraphRequests
    <3>2. files[r.path] \in Nat \cup Callers
      BY <3>1 DEF SPTyped
    <3> QED  BY <2>2, <3>2 DEF SeenIn
  <2>3. CASE r.do \notin {"page", "get"}
    BY <2>3 DEF SeenIn
  <2> QED  BY <2>1, <2>2, <2>3
<1>6. asked' = [asked EXCEPT ![c] = ans]
  BY DEF GraphAnswered, CallAnswered, LeftOver
<1> HIDE DEF r, left
<1> DEFINE on == IF left = << >> THEN Tail(asked[c].runs) ELSE <<left>> \o Tail(asked[c].runs)
<1>7. on \in GraphRuns
  <2>1. CASE left = << >>
    BY <1>2, <2>1
  <2>2. CASE left # << >>
    <3>1. <<left>> \in GraphRuns
      BY <1>4, <2>2, OneRun
    <3> QED  BY <1>2, <2>2, <3>1, JoinedRuns
  <2> QED  BY <2>1, <2>2
<1>8. /\ ans \in SPCalls /\ Same(ans, asked[c]) /\ ans.cause = asked[c].cause /\ ans.runs = on
      /\ ans.at = (IF left = << >> THEN "next" ELSE "running")
      /\ ans.seen = asked[c].seen \cup SeenIn(r)
  <2>1. ans = [asked[c] EXCEPT !.seen = asked[c].seen \cup SeenIn(r), !.runs = on,
                 !.at = IF left = << >> THEN "next" ELSE "running"]
    BY DEF CallAnswered
  <2>2. asked[c].seen \cup SeenIn(r) \in SUBSET (Nat \cup Callers)
    BY <1>1, <1>5 DEF SPCalls
  <2> HIDE DEF on, ans
  <2>3. /\ ans.runs = on /\ ans.seen = asked[c].seen \cup SeenIn(r)
        /\ ans.at = IF left = << >> THEN "next" ELSE "running"
    BY <1>1, <2>1 DEF SPCalls
  <2>4. ans.at \in Resting \cup Working \cup Closing
    BY <2>3 DEF Working
  <2> QED  BY <1>1, <1>7, <2>1, <2>2, <2>3, <2>4 DEF SPCalls, Same
<1>9. Touches(c, ans)
  <2> HIDE DEF ans
  <2> QED  BY <1>6, <1>8, TouchOne
<1>10. IsAnswered(c, r, left, ans)
  <2>1. left = NextPage(r) \o LeftOver(asked[c].runs)
    BY DEF left, r
  <2> HIDE DEF ans
  <2> QED  BY <1>8, <2>1 DEF IsAnswered
<1> HIDE DEF ans
<1> QED  BY <1>4, <1>8, <1>9, <1>10 DEF r

Busy == Working \cup {"done"}
Page(k)    == GraphRequest("page", << >>, k)
Patch(col) == GraphRequest("patch", << >>, col)

UploadFits(a, F, fs) ==
    a.op \in {"upload", "reports"} =>
        /\ a.at \in Busy => /\ Grounded(a.runs, F)
                            /\ PathPrefixes(UploadFolder) \subseteq F \cup MadeBy(a.runs)
                            /\ \A p \in Targets(a.op) : fs[p] # 0 \/ p \in PutBy(a.runs)
        /\ a.at = "failed" => a.cause \in {"graph", "clash"}

ListFits(a, rows) ==
    a.op \in {"items", "list"} /\ a.at \in Busy =>
        /\ a.rowsThen <= rows
        /\ \/ a.runs = << >> /\ 1..a.rowsThen \subseteq a.seen
           \/ a.runs = << <<Drive, Page(1)>> >>
           \/ \E k \in Nat \ {0} : a.runs = << <<Page(k)>> >> /\ 1..(k - 1) \subseteq a.seen

UpdateFits(a, cs) ==
    a.op = "update" /\ a.at \in Busy =>
        a.runs = << <<Patch(a.col)>> >> \/ (a.runs = << >> /\ cs[a.col] # 0)

CallFits(a, F, fs, cs, rows) ==
    /\ a.at \in Working \ {"next"} => a.runs # << >>
    /\ a.at = "done" => a.runs = << >>
    /\ a.at \in Closing => a.op = "close" /\ a.runs = << >>
    /\ UploadFits(a, F, fs) /\ ListFits(a, rows) /\ UpdateFits(a, cs)

Fits == \A c \in Callers : CallFits(asked[c], folders, files, columns, listRows)

\* What the library has is not taken away.
Grows ==
    /\ folders \subseteq folders' /\ listRows <= listRows' /\ listRows' \in Nat
    /\ \A p \in FilePaths : files[p] # 0 => files'[p] # 0
    /\ \A k \in ItemColumns : columns[k] # 0 => columns'[k] # 0

LEMMA TargetsAreFiles == \A op : Targets(op) \subseteq FilePaths
BY UploadPaths DEF Targets

LEMMA FitsInAGrownLibrary ==
    ASSUME SPTyped, Grows, NEW a \in SPCalls, CallFits(a, folders, files, columns, listRows)
    PROVE  CallFits(a, folders', files', columns', listRows')
<1>1. UploadFits(a, folders', files')
  BY GroundedMore, TargetsAreFiles DEF CallFits, UploadFits, Grows
<1>2. ListFits(a, listRows')
  <2>1. a.rowsThen \in Nat /\ listRows \in Nat
    BY DEF SPTyped, SPCalls
  <2> QED  BY <2>1 DEF CallFits, ListFits, Grows
<1>3. UpdateFits(a, columns')
  <2>1. a.col \in ItemColumns
    BY DEF SPCalls
  <2> QED  BY <2>1 DEF CallFits, UpdateFits, Grows
<1> QED  BY <1>1, <1>2, <1>3 DEF CallFits

\* A step that touches one call, and leaves it as it must be.
LEMMA FitsStep ==
    ASSUME SPTyped, Fits, Grows, NEW c \in Callers, NEW a, Touches(c, a),
           CallFits(a, folders', files', columns', listRows')
    PROVE  Fits'
<1>1. ASSUME NEW d \in Callers PROVE CallFits(asked'[d], folders', files', columns', listRows')
  <2>1. CASE d = c
    BY <2>1 DEF Touches
  <2>2. CASE d # c
    <3>1. asked'[d] = asked[d] /\ asked[d] \in SPCalls
      BY <2>2 DEF Touches, SPTyped
    <3>2. CallFits(asked[d], folders, files, columns, listRows)
      BY DEF Fits
    <3> QED  BY <3>1, <3>2, FitsInAGrownLibrary
  <2> QED  BY <2>1, <2>2
<1> QED  BY <1>1 DEF Fits

LEMMA GrowsUnchanged ==
    ASSUME SPTyped, UNCHANGED <<folders, files, columns, listRows>>
    PROVE  Grows
BY DEF SPTyped, Grows

\* From one place of its way to the next a call keeps its runs.
LEMMA FitsOnItsWay ==
    ASSUME SPTyped, Fits, Grows, NEW c \in Callers, NEW x \in Places, Moves(c, x),
           asked[c].at \in Working,
           x \in Working \ {"next"} => asked[c].runs # << >>,
           x \in Working \/ (x = "done" /\ asked[c].runs = << >>)
    PROVE  Fits'
<1> DEFINE a == [asked[c] EXCEPT !.at = x]
<1>1. Touches(c, a)
  BY MovesTouches
<1>2. /\ asked[c] \in SPCalls /\ CallFits(asked[c], folders, files, columns, listRows)
  BY DEF SPTyped, Fits
<1>3. CallFits(asked[c], folders', files', columns', listRows')
  BY <1>2, FitsInAGrownLibrary
<1>4. /\ a.at = x /\ Same(a, asked[c]) /\ a.runs = asked[c].runs /\ a.seen = asked[c].seen
      /\ a.cause = asked[c].cause
  BY <1>2, CallMoves
<1> HIDE DEF a
<1>5. asked[c].at \in Busy
  BY DEF Busy
<1>6. x \notin Closing /\ x # "failed"
  BY DEF Working, Closing
<1>7. UploadFits(a, folders', files')
  BY <1>3, <1>4, <1>5, <1>6 DEF CallFits, UploadFits, Same
<1>8. ListFits(a, listRows')
  BY <1>3, <1>4, <1>5, <1>6 DEF CallFits, ListFits, Same
<1>9. UpdateFits(a, columns')
  BY <1>3, <1>4, <1>5, <1>6 DEF CallFits, UpdateFits, Same
<1>10. x = "done" => x \notin Working
  BY DEF Working
<1>11. CallFits(a, folders', files', columns', listRows')
  BY <1>4, <1>6, <1>7, <1>8, <1>9, <1>10 DEF CallFits
<1> QED  BY <1>1, <1>11, FitsStep

LEMMA FitsWhenFailed ==
    ASSUME SPTyped, Fits, Grows, NEW c \in Callers,
           NEW x \in {"graph", "clash", "exists", "absent"}, OperationFails(c, x),
           asked[c].op \in {"upload", "reports"} => x \in {"graph", "clash"}
    PROVE  Fits'
<1> DEFINE a == [asked[c] EXCEPT !.at = "failed", !.cause = x]
<1>1. Touches(c, a)
  BY FailsTouches
<1>2. asked[c] \in SPCalls
  BY DEF SPTyped
<1>3. a.at = "failed" /\ a.cause = x /\ Same(a, asked[c])
  BY <1>2, CallFails
<1> HIDE DEF a
<1>4. CallFits(a, folders', files', columns', listRows')
  BY <1>3 DEF CallFits, UploadFits, ListFits, UpdateFits, Same, Busy, Working, Closing
<1> QED  BY <1>1, <1>4, FitsStep

\* An upload's next request is never refused, and brings it further.
LEMMA UploadAnswered ==
    ASSUME SPTyped, Fits, NEW c \in Callers, asked[c].at = "running",
           asked[c].op \in {"upload", "reports"}
    PROVE  LET r == NextRequest(asked[c].runs)
           IN  Stands(r, folders) /\ Refusal(r) = "none" /\ NextPage(r) = << >>
<1> DEFINE ahead == asked[c].runs
           r == NextRequest(ahead)
<1>1. /\ ahead \in GraphRuns /\ ahead # << >> /\ Grounded(ahead, folders)
  BY DEF SPTyped, SPCalls, Fits, CallFits, UploadFits, Busy, Working
<1>2. r \in GraphRequests
  BY <1>1, RunsHaveHeads
<1>3. Stands(r, folders)
  <2> DEFINE G == folders \cup {r.path}
  <2>1. folders \subseteq G /\ r.path \in G
    OBVIOUS
  <2> HIDE DEF G, ahead
  <2> QED  BY <1>1, <2>1, RunMoves
<1> HIDE DEF r, ahead
<1>4. Refusal(r) = "none" /\ NextPage(r) = << >>
  <2>1. CASE r.do = "drive"
    BY <2>1 DEF Refusal, NextPage
  <2>2. CASE r.do = "mkdir"
    BY <1>3, <2>2 DEF Refusal, NextPage, CanMake, Stands
  <2>3. CASE r.do = "put"
    BY <1>3, <2>3 DEF Refusal, NextPage, Stands
  <2> QED  BY <1>3, <2>1, <2>2, <2>3 DEF Stands
<1> QED  BY <1>3, <1>4 DEF r, ahead

\* What a request does keeps the library typed and takes nothing away.
LEMMA EffectGrows ==
    ASSUME SPTyped, NEW c \in Callers, NEW r \in GraphRequests, TakesEffect(c, r),
           UNCHANGED listRows
    PROVE  /\ Grows
           /\ folders' \subseteq Paths
           /\ files' \in [FilePaths -> Callers \cup {0}]
           /\ columns' \in [ItemColumns -> Callers \cup {0}]
           /\ r.do = "mkdir" => r.path \in folders'
           /\ r.do = "put" => files'[r.path] # 0
           /\ r.do = "patch" => columns'[r.arg] # 0
<1>1. c # 0
  BY TransportAssumption
<1>2. /\ r.path \in Paths /\ (r.do = "put" => r.path \in FilePaths)
      /\ r.do = "patch" => r.arg \in ItemColumns
  BY DEF GraphRequests
<1>3. folders' \subseteq Paths /\ folders \subseteq folders' /\ (r.do = "mkdir" => r.path \in folders')
  BY <1>2 DEF TakesEffect, SPTyped
<1>4. /\ files' \in [FilePaths -> Callers \cup {0}]
      /\ \A p \in FilePaths : files[p] # 0 => files'[p] # 0
      /\ r.do = "put" => files'[r.path] # 0
  BY <1>1, <1>2 DEF TakesEffect, SPTyped
<1>5. /\ columns' \in [ItemColumns -> Callers \cup {0}]
      /\ \A k \in ItemColumns : columns[k] # 0 => columns'[k] # 0
      /\ r.do = "patch" => columns'[r.arg] # 0
  BY <1>1, <1>2 DEF TakesEffect, SPTyped
<1> QED  BY <1>3, <1>4, <1>5 DEF Grows, SPTyped

LEMMA UploadSteps ==
    ASSUME SPTyped, Fits, Grows, NEW c \in Callers, asked[c].at = "running",
           asked[c].op \in {"upload", "reports"}, NEW left, NEW a,
           IsAnswered(c, NextRequest(asked[c].runs), left, a),
           NextRequest(asked[c].runs).do = "mkdir" => NextRequest(asked[c].runs).path \in folders',
           NextRequest(asked[c].runs).do = "put" => files'[NextRequest(asked[c].runs).path] # 0
    PROVE  UploadFits(a, folders', files')
<1> DEFINE ahead == asked[c].runs
           r == NextRequest(ahead)
<1>1. /\ ahead \in GraphRuns /\ ahead # << >> /\ Grounded(ahead, folders)
      /\ PathPrefixes(UploadFolder) \subseteq folders \cup MadeBy(ahead)
      /\ \A p \in Targets(asked[c].op) : files[p] # 0 \/ p \in PutBy(ahead)
  BY DEF SPTyped, SPCalls, Fits, CallFits, UploadFits, Busy, Working
<1>2. LeftOver(ahead) \in Seq(GraphRequests)
  BY <1>1, RunsHaveHeads
<1>3. left = LeftOver(ahead) /\ a.runs = Onward(ahead)
  <2>1. NextPage(r) = << >>
    BY UploadAnswered
  <2>2. left = LeftOver(ahead)
    BY <1>2, <2>1, ConcatEmptySeq DEF IsAnswered
  <2> QED  BY <2>2 DEF IsAnswered, Onward
<1>4. a.op = asked[c].op /\ a.at \in {"next", "running"}
  BY DEF IsAnswered, Same
<1> HIDE DEF ahead
<1>5. folders \subseteq folders' /\ (r.do = "mkdir" => r.path \in folders')
  BY DEF Grows, ahead
<1>6. /\ Grounded(Onward(ahead), folders')
      /\ MadeBy(ahead) \subseteq MadeBy(Onward(ahead)) \cup folders'
      /\ \A p \in PutBy(ahead) :
            p \in PutBy(Onward(ahead)) \/ (r.do = "put" /\ r.path = p)
  BY <1>1, <1>5, RunMoves
<1>7. PathPrefixes(UploadFolder) \subseteq folders' \cup MadeBy(a.runs)
  BY <1>1, <1>3, <1>5, <1>6
<1>8. ASSUME NEW p \in Targets(asked[c].op) PROVE files'[p] # 0 \/ p \in PutBy(a.runs)
  <2>1. p \in FilePaths
    BY TargetsAreFiles
  <2>2. r.do = "put" => files'[r.path] # 0
    BY DEF ahead
  <2> QED  BY <1>1, <1>3, <1>6, <2>1, <2>2 DEF Grows
<1> QED  BY <1>3, <1>4, <1>6, <1>7, <1>8 DEF UploadFits

\* A run of one request, and one of the drive before it.
LEMMA ShortRuns ==
    ASSUME NEW q
    PROVE  /\ NextRequest(<< <<q>> >>) = q /\ LeftOver(<< <<q>> >>) = << >> /\ Tail(<< <<q>> >>) = << >>
           /\ NextRequest(<< <<Drive, q>> >>) = Drive /\ LeftOver(<< <<Drive, q>> >>) = <<q>>
           /\ Tail(<< <<Drive, q>> >>) = << >>
           /\ << >> \o << >> = << >> /\ << >> \o <<q>> = <<q>> /\ <<q>> \o << >> = <<q>>
           /\ << <<q>> >> \o << >> = << <<q>> >> /\ <<q>> # << >>
BY DEF NextRequest, LeftOver

LEMMA PageIs ==
    ASSUME NEW k \in Nat
    PROVE  /\ Page(k).do = "page" /\ Page(k).arg = k
           /\ k < listRows => NextPage(Page(k)) = <<Page(k + 1)>>
           /\ ~(k < listRows) => NextPage(Page(k)) = << >>
           /\ SeenIn(Page(k)) = {k}
           /\ NextPage(Drive) = << >> /\ SeenIn(Drive) = {}
BY DEF Page, GraphRequest, NextPage, SeenIn, Drive

LEMMA ListSteps ==
    ASSUME SPTyped, Fits, NEW c \in Callers, asked[c].at = "running",
           asked[c].op \in {"items", "list"}, NEW left, NEW a,
           IsAnswered(c, NextRequest(asked[c].runs), left, a), UNCHANGED listRows
    PROVE  ListFits(a, listRows')
<1> DEFINE ahead == asked[c].runs
           r == NextRequest(ahead)
<1>1. /\ ahead # << >> /\ asked[c].rowsThen <= listRows
      /\ \/ ahead = << <<Drive, Page(1)>> >>
         \/ \E k \in Nat \ {0} : ahead = << <<Page(k)>> >> /\ 1..(k - 1) \subseteq asked[c].seen
      /\ asked[c].rowsThen \in Nat /\ listRows \in Nat
  BY DEF SPTyped, SPCalls, Fits, CallFits, ListFits, Busy, Working
<1>2. /\ a.op = asked[c].op /\ a.rowsThen = asked[c].rowsThen
      /\ a.seen = asked[c].seen \cup SeenIn(r) /\ left = NextPage(r) \o LeftOver(ahead)
      /\ a.runs = IF left = << >> THEN Tail(ahead) ELSE <<left>> \o Tail(ahead)
  BY DEF IsAnswered, Same
<1> HIDE DEF r, ahead
<1>3. CASE ahead = << <<Drive, Page(1)>> >>
  <2>1. r = Drive /\ LeftOver(ahead) = <<Page(1)>> /\ Tail(ahead) = << >>
    BY <1>3, ShortRuns DEF r
  <2>2. left = <<Page(1)>>
    BY <1>2, <2>1, PageIs, ShortRuns
  <2>3. a.runs = << <<Page(1)>> >>
    BY <1>2, <2>1, <2>2, ShortRuns
  <2>4. 1..(1 - 1) = {} /\ 1 \in Nat \ {0}
    OBVIOUS
  <2> QED  BY <1>1, <1>2, <2>3, <2>4 DEF ListFits
<1>4. ASSUME NEW k \in Nat \ {0}, ahead = << <<Page(k)>> >>, 1..(k - 1) \subseteq asked[c].seen
      PROVE  ListFits(a, listRows')
  <2>1. r = Page(k) /\ LeftOver(ahead) = << >> /\ Tail(ahead) = << >>
    BY <1>4, ShortRuns DEF r
  <2>2. a.seen = asked[c].seen \cup {k} /\ 1..k \subseteq a.seen
    <3>1. SeenIn(r) = {k}
      BY <2>1, PageIs
    <3>2. \A i \in 1..k : i = k \/ i \in 1..(k - 1)
      OBVIOUS
    <3> QED  BY <1>2, <1>4, <3>1, <3>2
  <2>3. CASE k < listRows
    <3>1. left = <<Page(k + 1)>>
      BY <1>2, <2>1, <2>3, PageIs, ShortRuns
    <3>2. a.runs = << <<Page(k + 1)>> >>
      BY <1>2, <2>1, <3>1, ShortRuns
    <3>3. k + 1 \in Nat \ {0} /\ (k + 1) - 1 = k
      OBVIOUS
    <3> QED  BY <1>1, <1>2, <2>2, <3>2, <3>3 DEF ListFits
  <2>4. CASE ~(k < listRows)
    <3>1. left = << >>
      BY <1>2, <2>1, <2>4, PageIs, ShortRuns
    <3>2. a.runs = << >>
      BY <1>2, <2>1, <3>1
    <3>3. 1..a.rowsThen \subseteq a.seen
      BY <1>1, <1>2, <2>2, <2>4
    <3> QED  BY <1>1, <1>2, <3>2, <3>3 DEF ListFits
  <2> QED  BY <2>3, <2>4
<1> QED  BY <1>1, <1>3, <1>4

LEMMA UpdateSteps ==
    ASSUME SPTyped, Fits, NEW c \in Callers, asked[c].at = "running",
           asked[c].op = "update", NEW left, NEW a,
           IsAnswered(c, NextRequest(asked[c].runs), left, a),
           NextRequest(asked[c].runs).do = "patch" => columns'[NextRequest(asked[c].runs).arg] # 0
    PROVE  UpdateFits(a, columns')
<1> DEFINE ahead == asked[c].runs
           r == NextRequest(ahead)
<1>1. ahead = << <<Patch(asked[c].col)>> >>
  BY DEF SPTyped, SPCalls, Fits, CallFits, UpdateFits, Busy, Working
<1>2. /\ a.op = asked[c].op /\ a.col = asked[c].col /\ left = NextPage(r) \o LeftOver(ahead)
      /\ a.runs = IF left = << >> THEN Tail(ahead) ELSE <<left>> \o Tail(ahead)
      /\ r.do = "patch" => columns'[r.arg] # 0
  BY DEF IsAnswered, Same
<1> HIDE DEF r, ahead
<1>3. r = Patch(asked[c].col) /\ LeftOver(ahead) = << >> /\ Tail(ahead) = << >>
  BY <1>1, ShortRuns DEF r
<1>4. r.do = "patch" /\ r.arg = asked[c].col
  BY <1>3 DEF Patch, GraphRequest
<1>5. NextPage(r) = << >>
  BY <1>4 DEF NextPage
<1>6. a.runs = << >>
  BY <1>2, <1>3, <1>5, ShortRuns
<1> QED  BY <1>2, <1>4, <1>6 DEF UpdateFits

LEMMA FitsWhenAnswered ==
    ASSUME SPTyped, Fits, NEW c \in Callers, asked[c].at = "running",
           TakesEffect(c, NextRequest(asked[c].runs)),
           GraphAnswered(c, NextRequest(asked[c].runs)), UNCHANGED listRows
    PROVE  Fits'
<1> DEFINE r == NextRequest(asked[c].runs)
<1>1. asked[c].runs \in GraphRuns /\ asked[c].runs # << >>
  BY DEF SPTyped, SPCalls, Fits, CallFits, Working
<1>2. r \in GraphRequests
  BY <1>1, RunsHaveHeads
<1>3. PICK left \in Seq(GraphRequests), a \in SPCalls : Touches(c, a) /\ IsAnswered(c, r, left, a)
  BY <1>1, AnswerTouches
<1>4. /\ Grows /\ (r.do = "mkdir" => r.path \in folders')
      /\ r.do = "put" => files'[r.path] # 0
      /\ r.do = "patch" => columns'[r.arg] # 0
  BY <1>2, EffectGrows
<1>5. /\ a.op = asked[c].op /\ a.at = (IF left = << >> THEN "next" ELSE "running")
      /\ a.runs = IF left = << >> THEN Tail(asked[c].runs) ELSE <<left>> \o Tail(asked[c].runs)
  BY <1>3 DEF IsAnswered, Same
<1>6. UploadFits(a, folders', files')
  <2>1. CASE a.op \in {"upload", "reports"}
    BY <1>3, <1>4, <1>5, <2>1, UploadSteps
  <2>2. CASE a.op \notin {"upload", "reports"}
    BY <2>2 DEF UploadFits
  <2> QED  BY <2>1, <2>2
<1>7. ListFits(a, listRows')
  <2>1. CASE a.op \in {"items", "list"}
    BY <1>3, <1>5, <2>1, ListSteps
  <2>2. CASE a.op \notin {"items", "list"}
    BY <2>2 DEF ListFits
  <2> QED  BY <2>1, <2>2
<1>8. UpdateFits(a, columns')
  <2>1. CASE a.op = "update"
    BY <1>3, <1>4, <1>5, <2>1, UpdateSteps
  <2>2. CASE a.op # "update"
    BY <2>2 DEF UpdateFits
  <2> QED  BY <2>1, <2>2
<1>9. a.at = "running" => a.runs # << >>
  <2> SUFFICES ASSUME a.at = "running" PROVE a.runs # << >>
    OBVIOUS
  <2>1. left # << >> /\ a.runs = <<left>> \o Tail(asked[c].runs)
    BY <1>5
  <2> DEFINE one == <<left>>
  <2>2. one \in GraphRuns /\ Tail(asked[c].runs) \in GraphRuns /\ Len(one) = 1
    BY <1>1, <1>3, <2>1, OneRun, RunsHaveHeads
  <2>3. a.runs = one \o Tail(asked[c].runs)
    BY <2>1
  <2> HIDE DEF one
  <2>4. Len(a.runs) = Len(one) + Len(Tail(asked[c].runs))
    BY <2>2, <2>3, ConcatProperties DEF GraphRuns
  <2>5. Len(Tail(asked[c].runs)) \in Nat
    BY <2>2, LenProperties DEF GraphRuns
  <2>6. Len(a.runs) # 0
    BY <2>2, <2>4, <2>5
  <2>7. Len(<< >>) = 0
    OBVIOUS
  <2> QED  BY <2>6, <2>7
<1>10. CallFits(a, folders', files', columns', listRows')
  BY <1>5, <1>6, <1>7, <1>8, <1>9 DEF CallFits, Working, Closing
<1> QED  BY <1>3, <1>4, <1>10, FitsStep

\* What a new operation has before it.
LEMMA RunsFit ==
    ASSUME SPTyped, NEW a \in SPCalls, a.op \in Operations, a.runs = RunsOf(a.op, a.col),
           a.rowsThen = listRows, a.at = (IF a.op = "close" THEN "shut" ELSE "next")
    PROVE  CallFits(a, folders, files, columns, listRows)
<1>1. a.col \in ItemColumns /\ listRows \in Nat /\ Page(1) = GraphRequest("page", << >>, 1)
  BY DEF SPCalls, SPTyped, Page
<1>2. UploadFits(a, folders, files)
  <2> SUFFICES ASSUME a.op \in {"upload", "reports"} PROVE UploadFits(a, folders, files)
    BY DEF UploadFits
  <2>1. a.at = "next"
    OBVIOUS
  <2>2. /\ Grounded(a.runs, folders) /\ PathPrefixes(UploadFolder) \subseteq MadeBy(a.runs)
        /\ Targets(a.op) \subseteq PutBy(a.runs)
    BY UploadsAreGrounded
  <2> QED  BY <2>1, <2>2 DEF UploadFits
<1>3. ListFits(a, listRows)
  <2>1. CASE a.op = "items"
    <3>1. a.runs = << <<Page(1)>> >>
      BY <1>1, <2>1 DEF RunsOf, ListItems
    <3>2. 1 \in Nat \ {0} /\ 1..(1 - 1) \subseteq a.seen
      OBVIOUS
    <3> QED  BY <1>1, <3>1, <3>2 DEF ListFits
  <2>2. CASE a.op = "list"
    <3>1. a.runs = << <<Drive, Page(1)>> >>
      BY <1>1, <2>2 DEF RunsOf, ListDirectory
    <3> QED  BY <1>1, <3>1 DEF ListFits
  <2>3. CASE a.op \notin {"items", "list"}
    BY <2>3 DEF ListFits
  <2> QED  BY <2>1, <2>2, <2>3
<1>4. UpdateFits(a, columns)
  <2>1. CASE a.op = "update"
    <3>1. a.runs = << <<Patch(a.col)>> >>
      BY <2>1 DEF RunsOf, UpdateListItem, Patch
    <3> QED  BY <3>1 DEF UpdateFits
  <2>2. CASE a.op # "update"
    BY <2>2 DEF UpdateFits
  <2> QED  BY <2>1, <2>2
<1>5. a.op = "close" => a.runs = << >>
  BY DEF RunsOf
<1> QED  BY <1>2, <1>3, <1>4, <1>5 DEF CallFits, Working, Closing

NewCall(op, col) ==
    [NoCall EXCEPT !.op = op, !.runs = RunsOf(op, col), !.col = col, !.rowsThen = listRows,
                   !.wasWarm = warm /\ op # "close",
                   !.at = IF op = "close" THEN "shut" ELSE "next"]

LEMMA BeginFits ==
    ASSUME SPTyped, Fits, NEW c \in Callers, BeginOperation(c)
    PROVE  /\ asked' \in [Callers -> SPCalls] /\ Fits' /\ warm' \in BOOLEAN
           /\ \E op \in mix, col \in ItemColumns :
                 /\ asked'[c] = NewCall(op, col) /\ NewCall(op, col) \in SPCalls
                 /\ \A d \in Callers \ {c} :
                       asked'[d] = [asked[d] EXCEPT !.wasWarm = @ /\ op # "close"]
                 /\ warm' = (warm /\ op # "close")
<1>1. PICK op \in mix, col \in ItemColumns :
          /\ asked' = [d \in Callers |->
                 IF d = c THEN NewCall(op, col)
                 ELSE [asked[d] EXCEPT !.wasWarm = @ /\ op # "close"]]
          /\ warm' = (warm /\ op # "close")
  BY DEF BeginOperation, NewCall
<1>2. op \in Operations
  BY DEF SPTyped
<1> DEFINE a == NewCall(op, col)
<1>3. /\ a \in SPCalls /\ a.op = op /\ a.col = col /\ a.runs = RunsOf(op, col)
      /\ a.rowsThen = listRows /\ a.at = IF op = "close" THEN "shut" ELSE "next"
  <2>1. RunsOf(op, col) \in GraphRuns
    BY <1>2, RunsAreTyped
  <2>2. listRows \in Nat /\ warm \in BOOLEAN
    BY DEF SPTyped
  <2> QED
    BY <1>2, <2>1, <2>2 DEF NewCall, NoCall, SPCalls, Resting, Working, Closing, ItemColumns
<1>4. CallFits(a, folders, files, columns, listRows)
  <2> HIDE DEF a
  <2> QED  BY <1>2, <1>3, RunsFit
<1>5. ASSUME NEW d \in Callers \ {c}
      PROVE  /\ asked'[d] = [asked[d] EXCEPT !.wasWarm = @ /\ op # "close"] /\ asked'[d] \in SPCalls
             /\ CallFits(asked'[d], folders, files, columns, listRows)
  <2>1. asked'[d] = [asked[d] EXCEPT !.wasWarm = @ /\ op # "close"]
    BY <1>1
  <2>2. asked[d] \in SPCalls
    BY DEF SPTyped
  <2>3. /\ asked'[d] \in SPCalls /\ asked'[d].op = asked[d].op /\ asked'[d].at = asked[d].at
        /\ asked'[d].runs = asked[d].runs /\ asked'[d].rowsThen = asked[d].rowsThen
        /\ asked'[d].seen = asked[d].seen /\ asked'[d].col = asked[d].col
        /\ asked'[d].cause = asked[d].cause
    BY <2>1, <2>2 DEF SPCalls
  <2>4. CallFits(asked[d], folders, files, columns, listRows)
    BY DEF Fits
  <2> QED  BY <2>1, <2>3, <2>4 DEF CallFits, UploadFits, ListFits, UpdateFits
<1>6. asked'[c] = a
  BY <1>1
<1> HIDE DEF a
<1>7. asked' \in [Callers -> SPCalls]
  BY <1>1, <1>3, <1>5, <1>6
<1>8. UNCHANGED <<folders, files, columns, listRows>>
  BY DEF BeginOperation, graphVars
<1>9. Fits'
  BY <1>4, <1>5, <1>6, <1>8 DEF Fits
<1> QED  BY <1>1, <1>3, <1>5, <1>6, <1>7, <1>9 DEF a, SPTyped

\* The drive is known: its run is not needed.
LEMMA SkipFits ==
    ASSUME SPTyped, Fits, UNCHANGED <<folders, files, columns, listRows>>, NEW c \in Callers,
           asked[c].at = "next", asked[c].runs # << >>, Head(asked[c].runs) = <<Drive>>,
           asked' = [asked EXCEPT ![c].runs = Tail(@)]
    PROVE  Fits' /\ Touches(c, [asked[c] EXCEPT !.runs = Tail(@)])
<1> DEFINE ahead == asked[c].runs
           a == [asked[c] EXCEPT !.runs = Tail(@)]
<1>1. /\ asked[c] \in SPCalls /\ ahead \in GraphRuns /\ ahead # << >>
      /\ CallFits(asked[c], folders, files, columns, listRows)
  BY DEF SPTyped, SPCalls, Fits
<1>2. /\ a \in SPCalls /\ a.runs = Tail(ahead) /\ a.at = "next" /\ a.seen = asked[c].seen
      /\ Same(a, asked[c])
  BY <1>1, CallSkips
<1>3. Touches(c, a)
  <2>1. asked' = [asked EXCEPT ![c] = a]
    OBVIOUS
  <2> QED  BY <1>2, <2>1, TouchOne
<1>4. Head(ahead) = ahead[1] /\ ahead[1] = <<Drive>>
  BY <1>1, RunsHaveHeads
<1> HIDE DEF a, ahead
<1>5. \A p : ~Makes(ahead[1], p) /\ ~Puts(ahead[1], p)
  <2> DEFINE one == <<Drive>>
  <2>1. Len(one) = 1 /\ one[1].do = "drive"
    BY DriveIsRequest
  <2> HIDE DEF one
  <2>2. \A j \in 1..Len(one) : j = 1
    BY <2>1
  <2> QED  BY <1>4, <2>1, <2>2 DEF Makes, Puts, one
<1>6. UploadFits(a, folders, files)
  <2> SUFFICES ASSUME a.op \in {"upload", "reports"} PROVE UploadFits(a, folders, files)
    BY DEF UploadFits
  <2>1. /\ Grounded(ahead, folders) /\ PathPrefixes(UploadFolder) \subseteq folders \cup MadeBy(ahead)
        /\ \A p \in Targets(a.op) : files[p] # 0 \/ p \in PutBy(ahead)
    BY <1>1, <1>2 DEF CallFits, UploadFits, Same, Busy, Working, ahead
  <2>2. /\ Grounded(Tail(ahead), folders) /\ MadeBy(ahead) \subseteq MadeBy(Tail(ahead)) \cup folders
        /\ \A p \in PutBy(ahead) : p \in PutBy(Tail(ahead)) \/ Puts(ahead[1], p)
    BY <1>1, <1>5, <2>1, RunsShrink
  <2>3. PathPrefixes(UploadFolder) \subseteq folders \cup MadeBy(a.runs)
    BY <1>2, <2>1, <2>2
  <2>4. \A p \in Targets(a.op) : files[p] # 0 \/ p \in PutBy(a.runs)
    BY <1>2, <1>5, <2>1, <2>2
  <2> QED  BY <1>2, <2>2, <2>3, <2>4 DEF UploadFits
<1>7. \A q : q.do # "drive" => ahead # << <<q>> >>
  BY <1>4, DriveIsRequest
<1>8. \A q : ahead # << <<Drive, q>> >>
  BY <1>4
<1>9. (\A k \in Nat : Page(k).do = "page") /\ \A k : Patch(k).do = "patch"
  BY DEF Page, Patch, GraphRequest
<1>10. ListFits(a, listRows)
  <2> SUFFICES ASSUME a.op \in {"items", "list"} PROVE FALSE
    BY DEF ListFits
  <2>1. ListFits(asked[c], listRows) /\ asked[c].op \in {"items", "list"} /\ asked[c].at \in Busy
    BY <1>1, <1>2 DEF CallFits, Same, Busy, Working
  <2> QED  BY <1>1, <1>7, <1>8, <1>9, <2>1 DEF ListFits, ahead
<1>11. UpdateFits(a, columns)
  <2> SUFFICES ASSUME a.op = "update" PROVE FALSE
    BY DEF UpdateFits
  <2>1. UpdateFits(asked[c], columns) /\ asked[c].op = "update" /\ asked[c].at \in Busy
    BY <1>1, <1>2 DEF CallFits, Same, Busy, Working
  <2> QED  BY <1>1, <1>7, <1>9, <2>1 DEF UpdateFits, ahead
<1>12. CallFits(a, folders', files', columns', listRows')
  BY <1>2, <1>6, <1>10, <1>11 DEF CallFits, Working, Closing
<1>13. Fits'
  BY <1>3, <1>12, GrowsUnchanged, FitsStep
<1> QED  BY <1>3, <1>13 DEF a

\* close has nothing to send.
LEMMA ClosingFits ==
    ASSUME SPTyped, Fits, UNCHANGED <<folders, files, columns, listRows>>, NEW c \in Callers,
           asked[c].at \in Closing, NEW a, Touches(c, a), a.op = asked[c].op, a.runs = asked[c].runs,
           a.at \in Closing \cup {"done", "failed"}
    PROVE  Fits'
<1>1. a.op = "close" /\ a.runs = << >>
  BY DEF Fits, CallFits
<1>2. CallFits(a, folders', files', columns', listRows')
  BY <1>1 DEF CallFits, UploadFits, ListFits, UpdateFits, Working, Closing
<1> QED  BY <1>2, GrowsUnchanged, FitsStep

LEMMA PlumbingFits ==
    ASSUME SPTyped, Fits, NEW c \in Callers, PlumbingStep(c)
    PROVE  Fits' /\ asked' \in [Callers -> SPCalls]
<1>1. UNCHANGED <<folders, files, columns, listRows>> /\ Grows
  <2>1. UNCHANGED <<folders, files, columns, listRows>>
    BY DEF PlumbingStep, NextRun, CheckLoop, MakeLoop, TakeLoop, CheckPool, MakePool, SubmitRun,
           StartRunning, CloseBegins, CloseDrained, CloseLoop, graphVars
  <2> QED  BY <2>1, GrowsUnchanged
<1>2. asked[c] \in SPCalls
  BY DEF SPTyped
<1>3. CallFits(asked[c], folders, files, columns, listRows)
  BY DEF Fits
<1>4. CASE NextRun(c)
  <2>1. CASE asked[c].runs = << >>
    <3>1. asked[c].at \in Working /\ "done" \in Places /\ Moves(c, "done")
      BY <1>4, <2>1 DEF NextRun, Working, Places, Resting
    <3>2. "done" \notin Working
      BY DEF Working
    <3> QED  BY <1>1, <2>1, <3>1, <3>2, FitsOnItsWay, MovesTouches DEF Touches
  <2>2. CASE asked[c].runs # << >> /\ Moves(c, "loop")
    <3>1. asked[c].at \in Working /\ "loop" \in Places /\ "loop" \in Working
      BY <1>4 DEF NextRun, Working, Places
    <3> QED  BY <1>1, <2>2, <3>1, FitsOnItsWay, MovesTouches DEF Touches
  <2>3. CASE /\ asked[c].runs # << >> /\ Head(asked[c].runs) = <<Drive>>
             /\ asked' = [asked EXCEPT ![c].runs = Tail(@)]
    <3>1. asked[c].at = "next"
      BY <1>4 DEF NextRun
    <3> QED  BY <1>1, <2>3, <3>1, SkipFits DEF Touches
  <2> QED  BY <1>4, <2>1, <2>2, <2>3 DEF NextRun
<1>5. ASSUME NEW x \in Working, Moves(c, x), asked[c].at \in Working \ {"next"}
      PROVE  Fits' /\ asked' \in [Callers -> SPCalls]
  <2>1. asked[c].runs # << >> /\ x \in Places
    BY <1>3, <1>5 DEF CallFits, Places
  <2> QED  BY <1>1, <1>5, <2>1, FitsOnItsWay, MovesTouches DEF Touches
<1>6. CASE CheckLoop(c) \/ MakeLoop(c) \/ CheckPool(c) \/ MakePool(c)
  BY <1>5, <1>6 DEF CheckLoop, MakeLoop, CheckPool, MakePool, Working
<1>7. ASSUME OperationFails(c, "clash") PROVE Fits' /\ asked' \in [Callers -> SPCalls]
  BY <1>1, <1>7, FitsWhenFailed, FailsTouches DEF Touches
\* A place on the way, with the loop or the worker taken.
<1>8. ASSUME NEW a \in SPCalls, asked' = [asked EXCEPT ![c] = a], asked[c].at \in Working \ {"next"},
             a.at \in Working \ {"next"}, a.op = asked[c].op, a.runs = asked[c].runs,
             a.seen = asked[c].seen, a.rowsThen = asked[c].rowsThen, a.col = asked[c].col
      PROVE  Fits' /\ asked' \in [Callers -> SPCalls]
  <2>1. Touches(c, a)
    BY <1>8, TouchOne
  <2>2. CallFits(a, folders', files', columns', listRows')
    BY <1>1, <1>3, <1>8 DEF CallFits, UploadFits, ListFits, UpdateFits, Busy, Working, Closing
  <2> QED  BY <1>1, <2>1, <2>2, FitsStep DEF Touches
<1>9. CASE TakeLoop(c)
  <2> DEFINE a == [asked[c] EXCEPT !.at = "pool", !.loop = loop]
  <2>1. /\ a \in SPCalls /\ a.at = "pool" /\ a.op = asked[c].op /\ a.runs = asked[c].runs
        /\ a.seen = asked[c].seen /\ a.rowsThen = asked[c].rowsThen /\ a.col = asked[c].col
    BY <1>2 DEF SPCalls, SPTyped, Working
  <2>2. asked' = [asked EXCEPT ![c] = a] /\ asked[c].at = "take loop"
    BY <1>9 DEF TakeLoop
  <2> HIDE DEF a
  <2> QED  BY <1>8, <2>1, <2>2 DEF Working
<1>10. CASE SubmitRun(c)
  <2> DEFINE a == [asked[c] EXCEPT !.at = "queued", !.pool = pool]
  <2>1. /\ a \in SPCalls /\ a.at = "queued" /\ a.op = asked[c].op /\ a.runs = asked[c].runs
        /\ a.seen = asked[c].seen /\ a.rowsThen = asked[c].rowsThen /\ a.col = asked[c].col
    BY <1>2 DEF SPCalls, SPTyped, Working
  <2>2. /\ asked[c].at = "take pool"
        /\ OperationFails(c, "clash") \/ asked' = [asked EXCEPT ![c] = a]
    BY <1>10 DEF SubmitRun
  <2> HIDE DEF a
  <2> QED  BY <1>7, <1>8, <2>1, <2>2 DEF Working
<1>11. CASE StartRunning(c)
  BY <1>5, <1>7, <1>11 DEF StartRunning, Working
<1>12. CASE CloseBegins(c)
  <2> DEFINE a == [asked[c] EXCEPT !.pool = pool, !.at = "drain"]
  <2>1. a \in SPCalls /\ a.at = "drain" /\ a.op = asked[c].op /\ a.runs = asked[c].runs
    BY <1>2 DEF SPCalls, SPTyped, Closing
  <2>2. asked' = [asked EXCEPT ![c] = a] /\ asked[c].at = "shut"
    BY <1>12 DEF CloseBegins
  <2> HIDE DEF a
  <2>3. Touches(c, a)
    BY <2>1, <2>2, TouchOne
  <2>4. Fits'
    BY <1>1, <2>1, <2>2, <2>3, ClosingFits DEF Closing
  <2> QED  BY <2>3, <2>4 DEF Touches
<1>13. ASSUME NEW x \in Closing \cup {"done"}, Moves(c, x), asked[c].at \in Closing
       PROVE  Fits' /\ asked' \in [Callers -> SPCalls]
  <2> DEFINE a == [asked[c] EXCEPT !.at = x]
  <2>0. x \in Places
    BY DEF Places, Resting
  <2>1. a.at = x /\ a.op = asked[c].op /\ a.runs = asked[c].runs /\ Touches(c, a)
    BY <1>2, <1>13, <2>0, CallMoves, MovesTouches DEF Same
  <2> HIDE DEF a
  <2>2. Fits'
    BY <1>1, <1>13, <2>1, ClosingFits
  <2> QED  BY <2>1, <2>2 DEF Touches
<1>14. CASE CloseDrained(c)
  BY <1>13, <1>14 DEF CloseDrained, Closing
<1>15. CASE CloseLoop(c)
  BY <1>7, <1>13, <1>15 DEF CloseLoop, Closing
<1> QED
  BY <1>4, <1>6, <1>9, <1>10, <1>11, <1>12, <1>14, <1>15 DEF PlumbingStep

\* The plumbing's own variables.
LEMMA PlumbingTyped ==
    ASSUME SPTyped, NEW c \in Callers, PlumbingStep(c)
    PROVE  /\ loop' \in Nat /\ pool' \in Nat /\ warm' \in BOOLEAN /\ UNCHANGED <<graphVars, driveKnown>>
           /\ IsFiniteSet(closedLoops') /\ IsFiniteSet(shutPools')
           /\ closedLoops' \subseteq Nat /\ shutPools' \subseteq Nat
<1>1. UNCHANGED <<graphVars, driveKnown>>
  BY DEF PlumbingStep, NextRun, CheckLoop, MakeLoop, TakeLoop, CheckPool, MakePool, SubmitRun,
         StartRunning, CloseBegins, CloseDrained, CloseLoop
<1>2. loop' \in Nat
  <2>1. CASE MakeLoop(c)
    BY <2>1, UsedAreFinite, NewestIsNew DEF MakeLoop
  <2>2. CASE loop' = loop \/ loop' = 0
    BY <2>2 DEF SPTyped
  <2> QED  BY <2>1, <2>2 DEF PlumbingStep, NextRun, CheckLoop, TakeLoop, CheckPool, MakePool,
         SubmitRun, StartRunning, CloseBegins, CloseDrained, CloseLoop, plumbing
<1>3. pool' \in Nat
  <2>1. CASE MakePool(c)
    BY <2>1, UsedAreFinite, NewestIsNew DEF MakePool
  <2>2. CASE pool' = pool \/ pool' = 0
    BY <2>2 DEF SPTyped
  <2> QED  BY <2>1, <2>2 DEF PlumbingStep, NextRun, CheckLoop, TakeLoop, CheckPool, MakeLoop,
         SubmitRun, StartRunning, CloseBegins, CloseDrained, CloseLoop, plumbing
<1>4. warm' \in BOOLEAN
  <2>1. UNCHANGED warm \/ Rests(c)
    BY DEF PlumbingStep, NextRun, CheckLoop, MakeLoop, TakeLoop, CheckPool, MakePool, SubmitRun,
           StartRunning, CloseBegins, CloseDrained, CloseLoop
  <2> QED  BY <2>1 DEF SPTyped, Rests
<1>5. IsFiniteSet(closedLoops') /\ closedLoops' \subseteq Nat
  <2>1. closedLoops' = closedLoops \/ closedLoops' = closedLoops \cup ({loop} \ {0})
    BY DEF PlumbingStep, NextRun, CheckLoop, MakeLoop, TakeLoop, CheckPool, MakePool, SubmitRun,
           StartRunning, CloseBegins, CloseDrained, CloseLoop, plumbing
  <2>2. IsFiniteSet({loop} \ {0})
    BY FS_Singleton, FS_RemoveElement
  <2>3. IsFiniteSet(closedLoops \cup ({loop} \ {0}))
    BY <2>2, FS_Union DEF SPTyped
  <2> QED  BY <2>1, <2>3 DEF SPTyped
<1>6. IsFiniteSet(shutPools') /\ shutPools' \subseteq Nat
  <2>1. shutPools' = shutPools \/ shutPools' = shutPools \cup ({pool} \ {0})
    BY DEF PlumbingStep, NextRun, CheckLoop, MakeLoop, TakeLoop, CheckPool, MakePool, SubmitRun,
           StartRunning, CloseBegins, CloseDrained, CloseLoop, plumbing
  <2>2. IsFiniteSet({pool} \ {0})
    BY FS_Singleton, FS_RemoveElement
  <2>3. IsFiniteSet(shutPools \cup ({pool} \ {0}))
    BY <2>2, FS_Union DEF SPTyped
  <2> QED  BY <2>1, <2>3 DEF SPTyped
<1> QED  BY <1>1, <1>2, <1>3, <1>4, <1>5, <1>6

Serving == {"next", "loop", "take loop", "pool", "take pool", "queued", "running"}
WithLoop == {"pool", "take pool", "queued", "running"}
WithPool == {"queued", "running"}

\* The loop at hand is open; a worker at hand that is shut has a close waiting for it.
Plumbed ==
    /\ loop # 0 => loop \notin closedLoops
    /\ pool # 0 /\ pool \in shutPools => \E d \in Callers : asked[d].at = "drain" /\ asked[d].pool = pool

\* A call of a warm client: it has the client's loop and worker.
IsServed(a) ==
    /\ a.at \in Resting \cup Serving
    /\ a.at \in WithLoop => a.loop = loop
    /\ a.at \in WithPool => a.pool = pool

WarmFits ==
    /\ warm => /\ loop # 0 /\ pool # 0 /\ \A d \in Callers : IsServed(asked[d])
               /\ \A d, e \in Callers : Running(d) /\ Running(e) => d = e
    /\ \A d \in Callers : asked[d].wasWarm => warm /\ asked[d].cause # "clash"

LEMMA PlumbedStays ==
    ASSUME Plumbed, NEW c \in Callers, NEW a, Touches(c, a), asked[c].at # "drain",
           UNCHANGED <<loop, pool, closedLoops, shutPools>>
    PROVE  Plumbed'
<1>1. ASSUME pool # 0, pool \in shutPools
      PROVE  \E d \in Callers : asked'[d].at = "drain" /\ asked'[d].pool = pool
  <2>1. PICK d \in Callers : asked[d].at = "drain" /\ asked[d].pool = pool
    BY <1>1 DEF Plumbed
  <2>2. d # c
    BY <2>1
  <2> QED  BY <2>1, <2>2 DEF Touches
<1> QED  BY <1>1 DEF Plumbed

LEMMA WarmOff ==
    ASSUME SPTyped, WarmFits, NEW c \in Callers, NEW a, Touches(c, a), ~warm, ~warm',
           a.wasWarm = asked[c].wasWarm
    PROVE  WarmFits'
<1>1. ASSUME NEW d \in Callers, asked'[d].wasWarm PROVE FALSE
  <2>1. asked[d].wasWarm
    BY <1>1 DEF Touches
  <2> QED  BY <2>1 DEF WarmFits
<1> QED  BY <1>1 DEF WarmFits

LEMMA WarmTouch ==
    ASSUME SPTyped, WarmFits, NEW c \in Callers, NEW a, Touches(c, a),
           UNCHANGED <<loop, pool, warm>>, a.wasWarm = asked[c].wasWarm,
           a.wasWarm => a.cause # "clash",
           warm => /\ IsServed(a)
                   /\ a.at = "running" => \A d \in Callers \ {c} : ~Running(d)
    PROVE  WarmFits'
<1>1. ASSUME NEW d \in Callers, asked'[d].wasWarm PROVE warm' /\ asked'[d].cause # "clash"
  <2>1. asked[d].wasWarm
    BY <1>1 DEF Touches
  <2> QED  BY <1>1, <2>1 DEF WarmFits, Touches
<1>2. ASSUME warm, NEW d \in Callers PROVE IsServed(asked[d])'
  <2>1. IsServed(asked'[d])
    BY <1>2 DEF WarmFits, Touches
  <2> QED  BY <2>1 DEF IsServed
<1>3. ASSUME warm, NEW d \in Callers, NEW e \in Callers,
             asked'[d].at = "running", asked'[e].at = "running"
      PROVE  d = e
  BY <1>3 DEF WarmFits, Touches, Running
<1>4. warm => loop' # 0 /\ pool' # 0
  BY DEF WarmFits
<1> QED  BY <1>1, <1>2, <1>3, <1>4 DEF WarmFits, Running

LEMMA WarmRests ==
    ASSUME SPTyped, WarmFits, NEW c \in Callers, NEW a, Touches(c, a), Rests(c),
           UNCHANGED <<loop, pool>>, a.wasWarm = asked[c].wasWarm,
           a.wasWarm => a.cause # "clash", a.at \in {"done", "failed"}
    PROVE  WarmFits'
<1>1. IsServed(a) /\ a.at # "running"
  BY DEF IsServed, Resting, WithLoop, WithPool
<1>2. CASE warm
  <2>1. warm'
    BY <1>2 DEF Rests
  <2> QED  BY <1>1, <1>2, <2>1, WarmTouch DEF SPTyped
<1>3. CASE ~warm /\ ~warm'
  BY <1>3, WarmOff
<1>4. CASE ~warm /\ warm'
  <2>1. loop # 0 /\ pool # 0 /\ \A d \in Callers \ {c} : asked[d].at \in {"idle", "done", "failed"}
    BY <1>4 DEF Rests, AtRest
  <2>2. ASSUME NEW d \in Callers PROVE asked'[d].at \in {"idle", "done", "failed"}
    BY <2>1 DEF Touches
  <2>3. ASSUME NEW d \in Callers PROVE IsServed(asked[d])' /\ ~Running(d)'
    <3>1. asked'[d].at \in {"idle", "done", "failed"}
      BY <2>2
    <3> QED  BY <3>1 DEF IsServed, Running, Resting, WithLoop, WithPool
  <2>4. ASSUME NEW d \in Callers, asked'[d].wasWarm PROVE FALSE
    <3>1. asked[d].wasWarm
      BY <2>4 DEF Touches
    <3> QED  BY <1>4, <3>1 DEF WarmFits
  <2> QED  BY <1>4, <2>1, <2>3, <2>4 DEF WarmFits
<1> QED  BY <1>2, <1>3, <1>4 DEF Rests, SPTyped

LEMMA PlumbingWarm ==
    ASSUME SPTyped, Plumbed, WarmFits, NEW c \in Callers, PlumbingStep(c)
    PROVE  Plumbed' /\ WarmFits'
<1>1. asked[c] \in SPCalls /\ (asked[c].wasWarm => asked[c].cause # "clash")
  BY DEF SPTyped, WarmFits
<1>2. warm => /\ loop # 0 /\ loop \notin closedLoops /\ pool # 0 /\ pool \notin shutPools
              /\ IsServed(asked[c])
  <2> SUFFICES ASSUME warm PROVE pool \notin shutPools
    BY DEF WarmFits, Plumbed
  <2> SUFFICES ASSUME pool \in shutPools PROVE FALSE
    OBVIOUS
  <2>1. PICK d \in Callers : asked[d].at = "drain"
    BY DEF WarmFits, Plumbed
  <2>2. IsServed(asked[d])
    BY DEF WarmFits
  <2> QED  BY <2>1, <2>2 DEF IsServed, Resting, Serving
\* A place on the way, with what is at hand.
<1>3. ASSUME NEW a \in SPCalls, Touches(c, a), UNCHANGED <<plumbing, warm>>,
             a.wasWarm = asked[c].wasWarm, a.cause = asked[c].cause, asked[c].at # "drain",
             warm => /\ IsServed(a)
                     /\ a.at = "running" => \A d \in Callers \ {c} : ~Running(d)
      PROVE  Plumbed' /\ WarmFits'
  BY <1>1, <1>3, PlumbedStays, WarmTouch DEF plumbing
<1>4. ASSUME OperationFails(c, "clash"), Rests(c), UNCHANGED plumbing, ~warm, asked[c].at # "drain"
      PROVE  Plumbed' /\ WarmFits'
  <2> DEFINE a == [asked[c] EXCEPT !.at = "failed", !.cause = "clash"]
  <2>1. Touches(c, a)
    BY <1>4, FailsTouches
  <2>2. a.at = "failed" /\ a.wasWarm = asked[c].wasWarm
    BY <1>1, CallFails DEF Same
  <2>3. ~asked[c].wasWarm
    BY <1>4 DEF WarmFits
  <2> HIDE DEF a
  <2> QED  BY <1>4, <2>1, <2>2, <2>3, PlumbedStays, WarmRests DEF plumbing
<1>5. ASSUME NEW x \in Places, Moves(c, x)
      PROVE  /\ Touches(c, [asked[c] EXCEPT !.at = x])
             /\ [asked[c] EXCEPT !.at = x] \in SPCalls
             /\ [asked[c] EXCEPT !.at = x].at = x
             /\ [asked[c] EXCEPT !.at = x].loop = asked[c].loop
             /\ [asked[c] EXCEPT !.at = x].pool = asked[c].pool
             /\ [asked[c] EXCEPT !.at = x].wasWarm = asked[c].wasWarm
             /\ [asked[c] EXCEPT !.at = x].cause = asked[c].cause
  BY <1>1, <1>5, CallMoves, MovesTouches DEF Same
<1>6. CASE NextRun(c)
  <2>1. asked[c].at = "next" /\ UNCHANGED plumbing
    BY <1>6 DEF NextRun
  <2>2. CASE Moves(c, "done") /\ Rests(c)
    <3> DEFINE a == [asked[c] EXCEPT !.at = "done"]
    <3>1. "done" \in Places
      BY DEF Places, Resting
    <3>2. /\ Touches(c, a) /\ a.at = "done" /\ a.wasWarm = asked[c].wasWarm
          /\ a.cause = asked[c].cause
      BY <1>5, <2>2, <3>1
    <3> HIDE DEF a
    <3> QED  BY <1>1, <2>1, <2>2, <3>2, PlumbedStays, WarmRests DEF plumbing
  <2>3. CASE /\ asked[c].runs # << >> /\ asked' = [asked EXCEPT ![c].runs = Tail(@)]
             /\ UNCHANGED warm
    <3> DEFINE a == [asked[c] EXCEPT !.runs = Tail(@)]
    <3>1. a \in SPCalls /\ a.at = "next" /\ a.wasWarm = asked[c].wasWarm /\ a.cause = asked[c].cause
      BY <1>1, <2>1, <2>3, CallSkips DEF Same
    <3>2. asked' = [asked EXCEPT ![c] = a]
      BY <2>3
    <3> HIDE DEF a
    <3>3. Touches(c, a)
      BY <3>1, <3>2, TouchOne
    <3>4. IsServed(a)
      BY <3>1 DEF IsServed, Serving, WithLoop, WithPool
    <3> QED  BY <1>3, <2>1, <2>3, <3>1, <3>3, <3>4
  <2>4. CASE Moves(c, "loop") /\ UNCHANGED warm
    <3> DEFINE a == [asked[c] EXCEPT !.at = "loop"]
    <3>1. "loop" \in Places
      BY DEF Places, Working
    <3>2. /\ Touches(c, a) /\ a \in SPCalls /\ a.at = "loop" /\ a.wasWarm = asked[c].wasWarm
          /\ a.cause = asked[c].cause
      BY <1>5, <2>4, <3>1
    <3> HIDE DEF a
    <3>3. IsServed(a)
      BY <3>2 DEF IsServed, Serving, WithLoop, WithPool
    <3> QED  BY <1>3, <2>1, <2>4, <3>2, <3>3
  <2> QED  BY <1>6, <2>2, <2>3, <2>4 DEF NextRun
<1>7. CASE CheckLoop(c)
  <2> DEFINE x == IF loop = 0 \/ loop \in closedLoops THEN "new loop" ELSE "take loop"
             a == [asked[c] EXCEPT !.at = x]
  <2>1. x \in Places /\ Moves(c, x) /\ asked[c].at = "loop" /\ UNCHANGED <<plumbing, warm>>
    BY <1>7 DEF CheckLoop, Places, Working
  <2>2. warm => x = "take loop"
    BY <1>2
  <2> HIDE DEF x
  <2>3. /\ Touches(c, a) /\ a \in SPCalls /\ a.at = x /\ a.wasWarm = asked[c].wasWarm
        /\ a.cause = asked[c].cause
    BY <1>5, <2>1
  <2> HIDE DEF a
  <2>4. warm => IsServed(a) /\ a.at # "running"
    BY <2>2, <2>3 DEF IsServed, Serving, WithLoop, WithPool
  <2> QED  BY <1>3, <2>1, <2>3, <2>4
<1>8. CASE MakeLoop(c)
  <2> DEFINE a == [asked[c] EXCEPT !.at = "take loop"]
  <2>1. asked[c].at = "new loop" /\ Moves(c, "take loop") /\ "take loop" \in Places
    BY <1>8 DEF MakeLoop, Places, Working
  <2>2. Touches(c, a) /\ a.wasWarm = asked[c].wasWarm
    BY <1>5, <2>1
  <2> HIDE DEF a
  <2>3. ~warm
    BY <1>2, <2>1 DEF IsServed, Resting, Serving
  <2>4. loop' \notin closedLoops
    <3>1. loop' \notin LoopsUsed \ {0} /\ loop' # 0
      BY <1>8, UsedAreFinite, NewestIsNew DEF MakeLoop
    <3> QED  BY <3>1 DEF LoopsUsed
  <2>5. UNCHANGED <<pool, closedLoops, shutPools, warm>>
    BY <1>8 DEF MakeLoop
  <2>6. Plumbed'
    <3>1. ASSUME pool # 0, pool \in shutPools
          PROVE  \E d \in Callers : asked'[d].at = "drain" /\ asked'[d].pool = pool
      BY <2>1, <2>2, <3>1 DEF Plumbed, Touches
    <3> QED  BY <2>4, <2>5, <3>1 DEF Plumbed
  <2> QED  BY <2>2, <2>3, <2>5, <2>6, WarmOff
<1>9. CASE TakeLoop(c)
  <2> DEFINE a == [asked[c] EXCEPT !.at = "pool", !.loop = loop]
  <2>1. /\ a \in SPCalls /\ a.at = "pool" /\ a.loop = loop /\ a.wasWarm = asked[c].wasWarm
        /\ a.cause = asked[c].cause
    BY <1>1 DEF SPCalls, SPTyped, Working
  <2>2. asked' = [asked EXCEPT ![c] = a] /\ asked[c].at = "take loop" /\ UNCHANGED <<plumbing, warm>>
    BY <1>9 DEF TakeLoop
  <2> HIDE DEF a
  <2>3. Touches(c, a)
    BY <2>1, <2>2, TouchOne
  <2>4. IsServed(a)
    BY <2>1 DEF IsServed, Serving, WithPool
  <2> QED  BY <1>3, <2>1, <2>2, <2>3, <2>4
<1>10. CASE CheckPool(c)
  <2> DEFINE x == IF pool = 0 THEN "new pool" ELSE "take pool"
             a == [asked[c] EXCEPT !.at = x]
  <2>1. x \in Places /\ Moves(c, x) /\ asked[c].at = "pool" /\ UNCHANGED <<plumbing, warm>>
    BY <1>10 DEF CheckPool, Places, Working
  <2>2. warm => x = "take pool"
    BY <1>2
  <2> HIDE DEF x
  <2>3. /\ Touches(c, a) /\ a \in SPCalls /\ a.at = x /\ a.wasWarm = asked[c].wasWarm
        /\ a.cause = asked[c].cause /\ a.loop = asked[c].loop
    BY <1>5, <2>1
  <2> HIDE DEF a
  <2>4. warm => IsServed(a) /\ a.at # "running"
    BY <1>2, <2>1, <2>2, <2>3 DEF IsServed, Serving, WithLoop, WithPool
  <2> QED  BY <1>3, <2>1, <2>3, <2>4
<1>11. CASE MakePool(c)
  <2> DEFINE a == [asked[c] EXCEPT !.at = "take pool"]
  <2>1. asked[c].at = "new pool" /\ Moves(c, "take pool") /\ "take pool" \in Places
    BY <1>11 DEF MakePool, Places, Working
  <2>2. Touches(c, a) /\ a.wasWarm = asked[c].wasWarm
    BY <1>5, <2>1
  <2> HIDE DEF a
  <2>3. ~warm
    BY <1>2, <2>1 DEF IsServed, Resting, Serving
  <2>4. pool' \notin shutPools
    <3>1. pool' \notin PoolsUsed \ {0} /\ pool' # 0
      BY <1>11, UsedAreFinite, NewestIsNew DEF MakePool
    <3> QED  BY <3>1 DEF PoolsUsed
  <2>5. UNCHANGED <<loop, closedLoops, shutPools, warm>>
    BY <1>11 DEF MakePool
  <2>6. Plumbed'
    BY <2>4, <2>5 DEF Plumbed
  <2> QED  BY <2>2, <2>3, <2>5, <2>6, WarmOff
<1>12. CASE SubmitRun(c)
  <2>1. asked[c].at = "take pool" /\ UNCHANGED plumbing
    BY <1>12 DEF SubmitRun
  <2>2. CASE pool = 0 \/ pool \in shutPools \/ asked[c].loop = 0
    <3>1. ~warm
      BY <1>2, <2>1, <2>2 DEF IsServed, WithLoop
    <3> QED  BY <1>4, <1>12, <2>1, <2>2, <3>1 DEF SubmitRun
  <2>3. CASE ~(pool = 0 \/ pool \in shutPools \/ asked[c].loop = 0)
    <3> DEFINE a == [asked[c] EXCEPT !.at = "queued", !.pool = pool]
    <3>1. /\ a \in SPCalls /\ a.at = "queued" /\ a.pool = pool /\ a.loop = asked[c].loop
          /\ a.wasWarm = asked[c].wasWarm /\ a.cause = asked[c].cause
      BY <1>1 DEF SPCalls, SPTyped, Working
    <3>2. asked' = [asked EXCEPT ![c] = a] /\ UNCHANGED warm
      BY <1>12, <2>3 DEF SubmitRun
    <3> HIDE DEF a
    <3>3. Touches(c, a)
      BY <3>1, <3>2, TouchOne
    <3>4. warm => IsServed(a)
      BY <1>2, <2>1, <3>1 DEF IsServed, Serving, WithLoop, WithPool
    <3> QED  BY <1>3, <2>1, <3>1, <3>2, <3>3, <3>4
  <2> QED  BY <2>2, <2>3
<1>13. CASE StartRunning(c)
  <2>1. asked[c].at = "queued" /\ UNCHANGED plumbing
    BY <1>13 DEF StartRunning
  <2>2. ASSUME warm, NEW d \in Callers PROVE ~Running(d)
    <3>1. IsServed(asked[d]) /\ asked[c].pool = pool
      BY <1>2, <2>1, <2>2 DEF WarmFits, IsServed, WithPool
    <3>2. Running(d) => d \in OnPool(asked[c].pool)
      BY <3>1 DEF Running, IsServed, WithPool, OnPool
    <3> QED  BY <1>13, <3>2 DEF StartRunning
  <2>3. warm => asked[c].loop \notin closedLoops
    BY <1>2, <2>1 DEF IsServed, WithLoop
  <2>4. CASE \/ asked[c].loop \in closedLoops
             \/ \E d \in Callers : Running(d) /\ asked[d].loop = asked[c].loop
    <3>1. ~warm
      BY <2>2, <2>3, <2>4
    <3> QED  BY <1>4, <1>13, <2>1, <2>4, <3>1 DEF StartRunning
  <2>5. CASE ~(\/ asked[c].loop \in closedLoops
               \/ \E d \in Callers : Running(d) /\ asked[d].loop = asked[c].loop)
    <3> DEFINE a == [asked[c] EXCEPT !.at = "running"]
    <3>1. "running" \in Places /\ Moves(c, "running") /\ UNCHANGED warm
      BY <1>13, <2>5 DEF StartRunning, Places, Working
    <3>2. /\ Touches(c, a) /\ a \in SPCalls /\ a.at = "running" /\ a.wasWarm = asked[c].wasWarm
          /\ a.cause = asked[c].cause /\ a.loop = asked[c].loop /\ a.pool = asked[c].pool
      BY <1>5, <3>1
    <3> HIDE DEF a
    <3>3. warm => IsServed(a)
      BY <1>2, <2>1, <3>2 DEF IsServed, Serving, WithLoop, WithPool
    <3> QED  BY <1>3, <2>1, <2>2, <3>1, <3>2, <3>3
  <2> QED  BY <2>4, <2>5
\* A close: the client is not warm.
<1>14. asked[c].at \in Closing => ~warm
  BY <1>2 DEF IsServed, Resting, Serving, Closing
<1>15. CASE CloseBegins(c)
  <2> DEFINE a == [asked[c] EXCEPT !.pool = pool, !.at = "drain"]
  <2>1. a \in SPCalls /\ a.at = "drain" /\ a.pool = pool /\ a.wasWarm = asked[c].wasWarm
    BY <1>1 DEF SPCalls, SPTyped, Closing
  <2>2. /\ asked' = [asked EXCEPT ![c] = a] /\ asked[c].at = "shut"
        /\ UNCHANGED <<loop, pool, closedLoops, warm>>
    BY <1>15 DEF CloseBegins
  <2> HIDE DEF a
  <2>3. Touches(c, a)
    BY <2>1, <2>2, TouchOne
  <2>4. asked'[c].at = "drain" /\ asked'[c].pool = pool'
    BY <2>1, <2>2, <2>3 DEF Touches
  <2>5. Plumbed'
    BY <2>2, <2>4 DEF Plumbed
  <2> QED  BY <1>14, <2>1, <2>2, <2>3, <2>5, WarmOff DEF Closing
<1>16. CASE CloseDrained(c)
  <2> DEFINE a == [asked[c] EXCEPT !.at = "close loop"]
  <2>1. /\ asked[c].at = "drain" /\ Moves(c, "close loop") /\ "close loop" \in Places
        /\ UNCHANGED <<loop, closedLoops, shutPools, warm>>
        /\ pool' = IF asked[c].pool = 0 THEN pool ELSE 0
    BY <1>16 DEF CloseDrained, Places, Closing
  <2>2. Touches(c, a) /\ a.wasWarm = asked[c].wasWarm
    BY <1>5, <2>1
  <2> HIDE DEF a
  <2>3. ASSUME pool' # 0, pool' \in shutPools
        PROVE  \E d \in Callers : asked'[d].at = "drain" /\ asked'[d].pool = pool'
    <3>1. pool' = pool /\ asked[c].pool = 0
      BY <2>1, <2>3
    <3>2. PICK d \in Callers : asked[d].at = "drain" /\ asked[d].pool = pool
      BY <2>3, <3>1 DEF Plumbed
    <3>3. d # c
      BY <2>3, <3>1, <3>2
    <3> QED  BY <2>2, <3>1, <3>2, <3>3 DEF Touches
  <2>4. Plumbed'
    BY <2>1, <2>3 DEF Plumbed
  <2> QED  BY <1>14, <2>1, <2>2, <2>4, WarmOff DEF Closing
<1>17. CASE CloseLoop(c)
  <2>1. asked[c].at = "close loop" /\ UNCHANGED <<pool, shutPools, warm>>
    BY <1>17 DEF CloseLoop
  <2>2. ~warm
    BY <1>14, <2>1 DEF Closing
  <2>3. ASSUME NEW a, Touches(c, a), a.wasWarm = asked[c].wasWarm,
               loop' = 0 \/ (loop' = loop /\ closedLoops' = closedLoops)
        PROVE  Plumbed' /\ WarmFits'
    <3>1. ASSUME pool # 0, pool \in shutPools
          PROVE  \E d \in Callers : asked'[d].at = "drain" /\ asked'[d].pool = pool
      BY <2>1, <2>3, <3>1 DEF Plumbed, Touches
    <3>2. Plumbed'
      BY <2>1, <2>3, <3>1 DEF Plumbed
    <3> QED  BY <2>1, <2>2, <2>3, <3>2, WarmOff
  <2>4. CASE OperationFails(c, "clash") /\ UNCHANGED <<loop, closedLoops>>
    <3> DEFINE a == [asked[c] EXCEPT !.at = "failed", !.cause = "clash"]
    <3>1. Touches(c, a) /\ a.wasWarm = asked[c].wasWarm
      BY <1>1, <2>4, CallFails, FailsTouches DEF Same
    <3> HIDE DEF a
    <3> QED  BY <2>3, <2>4, <3>1
  <2>5. CASE loop' = 0 /\ Moves(c, "done")
    <3> DEFINE a == [asked[c] EXCEPT !.at = "done"]
    <3>0. "done" \in Places
      BY DEF Places, Resting
    <3>1. Touches(c, a) /\ a.wasWarm = asked[c].wasWarm
      BY <1>5, <2>5, <3>0
    <3> HIDE DEF a
    <3> QED  BY <2>3, <2>5, <3>1
  <2> QED  BY <1>17, <2>4, <2>5 DEF CloseLoop
<1> QED
  BY <1>6, <1>7, <1>8, <1>9, <1>10, <1>11, <1>12, <1>13, <1>15, <1>16, <1>17 DEF PlumbingStep

SPInv == SPTyped /\ Fits /\ Plumbed /\ WarmFits

LEMMA SPInvInit == SPInit => SPInv
<1> SUFFICES ASSUME SPInit PROVE SPInv
  OBVIOUS
<1>1. NoCall \in SPCalls /\ NoCall.at = "idle" /\ NoCall.wasWarm = FALSE /\ NoCall.op = "none"
  BY DEF NoCall, SPCalls, GraphRuns, Resting, ItemColumns
<1>2. \A c \in Callers : asked[c] = NoCall
  BY DEF SPInit
<1>3. SPTyped
  <2>1. IsFiniteSet({})
    BY FS_EmptySet
  <2>2. mix \in SUBSET Operations
    BY TransportAssumption DEF SPInit
  <2> QED  BY <1>1, <2>1, <2>2 DEF SPInit, SPTyped
<1>4. Fits
  BY <1>1, <1>2 DEF Fits, CallFits, UploadFits, ListFits, UpdateFits, Busy, Working, Closing
<1>5. Plumbed
  BY DEF SPInit, Plumbed
<1>6. ASSUME NEW d \in Callers PROVE IsServed(asked[d]) /\ ~Running(d) /\ ~asked[d].wasWarm
  BY <1>1, <1>2 DEF IsServed, Running, Resting, WithLoop, WithPool
<1>7. WarmFits
  BY <1>6 DEF WarmFits, SPInit
<1> QED  BY <1>3, <1>4, <1>5, <1>7 DEF SPInv

LEMMA SPInvNext == SPInv /\ [SPNext]_spVars => SPInv'
<1> SUFFICES ASSUME SPInv, [SPNext]_spVars PROVE SPInv'
  OBVIOUS
<1>0. SPTyped /\ Fits /\ Plumbed /\ WarmFits
  BY DEF SPInv
<1>1. ASSUME NEW c \in Callers, mix' = mix, BeginOperation(c) PROVE SPInv'
  <2>1. UNCHANGED <<graphVars, plumbing, driveKnown>>
    BY <1>1 DEF BeginOperation
  <2>2. asked' \in [Callers -> SPCalls] /\ Fits' /\ warm' \in BOOLEAN
    BY <1>0, <1>1, BeginFits
  <2>3. PICK op \in mix, col \in ItemColumns :
            /\ asked'[c] = NewCall(op, col) /\ NewCall(op, col) \in SPCalls
            /\ \A d \in Callers \ {c} :
                  asked'[d] = [asked[d] EXCEPT !.wasWarm = @ /\ op # "close"]
            /\ warm' = (warm /\ op # "close")
    BY <1>0, <1>1, BeginFits
  <2>4. SPTyped'
    BY <1>0, <1>1, <2>1, <2>2 DEF SPTyped, graphVars, plumbing
  <2>5. /\ asked'[c].at = (IF op = "close" THEN "shut" ELSE "next") /\ asked'[c].cause = "none"
        /\ asked'[c].wasWarm = (warm /\ op # "close")
    BY <2>3 DEF NewCall, NoCall
  <2>6. ASSUME NEW d \in Callers \ {c}
        PROVE  /\ asked'[d].at = asked[d].at /\ asked'[d].loop = asked[d].loop
               /\ asked'[d].pool = asked[d].pool /\ asked'[d].cause = asked[d].cause
               /\ asked'[d].wasWarm = (asked[d].wasWarm /\ op # "close")
    <3>1. asked[d] \in SPCalls /\ asked'[d] = [asked[d] EXCEPT !.wasWarm = @ /\ op # "close"]
      BY <1>0, <2>3 DEF SPTyped
    <3> QED  BY <3>1 DEF SPCalls
  <2>7. asked[c].at \in {"idle", "done", "failed"}
    BY <1>1 DEF BeginOperation, AtRest
  <2>8. Plumbed'
    <3>1. ASSUME pool # 0, pool \in shutPools
          PROVE  \E d \in Callers : asked'[d].at = "drain" /\ asked'[d].pool = pool
      <4>1. PICK d \in Callers : asked[d].at = "drain" /\ asked[d].pool = pool
        BY <1>0, <3>1 DEF Plumbed
      <4>2. d \in Callers \ {c}
        BY <2>7, <4>1
      <4> QED  BY <2>6, <4>1, <4>2
    <3> QED  BY <1>0, <2>1, <3>1 DEF Plumbed, plumbing
  <2>9. ASSUME warm', NEW d \in Callers PROVE IsServed(asked[d])' /\ (Running(d)' => Running(d))
    <3>1. warm /\ op # "close"
      BY <2>3, <2>9
    <3>2. CASE d = c
      BY <2>5, <3>1, <3>2 DEF IsServed, Running, Serving, WithLoop, WithPool
    <3>3. CASE d # c
      <4>1. IsServed(asked[d])
        BY <1>0, <3>1 DEF WarmFits
      <4> QED  BY <2>1, <2>6, <3>3, <4>1 DEF IsServed, Running, plumbing
    <3> QED  BY <3>2, <3>3
  <2>10. warm' => loop' # 0 /\ pool' # 0 /\ \A d, e \in Callers : Running(d)' /\ Running(e)' => d = e
    BY <1>0, <2>1, <2>3, <2>9 DEF WarmFits, plumbing
  <2>11. ASSUME NEW d \in Callers, asked'[d].wasWarm PROVE warm' /\ asked'[d].cause # "clash"
    <3>1. CASE d = c
      BY <2>3, <2>5, <2>11, <3>1
    <3>2. CASE d # c
      BY <1>0, <2>3, <2>6, <2>11, <3>2 DEF WarmFits
    <3> QED  BY <3>1, <3>2
  <2>12. WarmFits'
    BY <2>9, <2>10, <2>11 DEF WarmFits
  <2> QED  BY <2>2, <2>4, <2>8, <2>12 DEF SPInv
<1>2. ASSUME NEW c \in Callers, mix' = mix, PlumbingStep(c) PROVE SPInv'
  <2>1. Fits' /\ asked' \in [Callers -> SPCalls]
    BY <1>0, <1>2, PlumbingFits
  <2>2. /\ loop' \in Nat /\ pool' \in Nat /\ warm' \in BOOLEAN /\ UNCHANGED <<graphVars, driveKnown>>
        /\ IsFiniteSet(closedLoops') /\ IsFiniteSet(shutPools')
        /\ closedLoops' \subseteq Nat /\ shutPools' \subseteq Nat
    BY <1>0, <1>2, PlumbingTyped
  <2>3. SPTyped'
    BY <1>0, <1>2, <2>1, <2>2 DEF SPTyped, graphVars
  <2>4. Plumbed' /\ WarmFits'
    BY <1>0, <1>2, PlumbingWarm
  <2> QED  BY <2>1, <2>3, <2>4 DEF SPInv
\* A request of an operation: what is sent is typed.
<1>3. ASSUME NEW c \in Callers, Running(c)
      PROVE  /\ asked[c] \in SPCalls /\ asked[c].runs \in GraphRuns /\ asked[c].runs # << >>
             /\ NextRequest(asked[c].runs) \in GraphRequests /\ asked[c].at = "running"
             /\ Head(Head(asked[c].runs)) = NextRequest(asked[c].runs)
  <2>1. asked[c] \in SPCalls /\ asked[c].runs \in GraphRuns /\ asked[c].runs # << >>
    BY <1>0, <1>3 DEF SPTyped, SPCalls, Fits, CallFits, Working, Running
  <2> QED  BY <1>3, <2>1, RunsHaveHeads DEF Running, NextRequest
<1>4. ASSUME NEW c \in Callers, Running(c),
             OperationFails(c, "graph") \/ OperationFails(c, Refusal(NextRequest(asked[c].runs))),
             Rests(c), UNCHANGED <<plumbing, listRows, driveKnown>>, mix' = mix, Grows,
             folders' \subseteq Paths, files' \in [FilePaths -> Callers \cup {0}],
             columns' \in [ItemColumns -> Callers \cup {0}],
             OperationFails(c, "graph") \/ Refusal(NextRequest(asked[c].runs)) # "none"
      PROVE  SPInv'
  <2> DEFINE r == NextRequest(asked[c].runs)
  <2>1. PICK x \in {"graph", "exists", "absent"} :
            /\ OperationFails(c, x)
            /\ asked[c].op \in {"upload", "reports"} => x = "graph"
    <3>1. asked[c].op \in {"upload", "reports"} => Refusal(r) = "none"
      BY <1>0, <1>3, <1>4, UploadAnswered
    <3>2. Refusal(r) \in {"none", "exists", "absent"}
      BY DEF Refusal
    <3> HIDE DEF r
    <3>3. OperationFails(c, "graph") \/ (OperationFails(c, Refusal(r)) /\ Refusal(r) # "none")
      BY <1>4 DEF r
    <3> QED  BY <3>1, <3>2, <3>3
  <2> HIDE DEF r
  <2>2. Fits'
    BY <1>0, <1>4, <2>1, FitsWhenFailed
  <2> DEFINE a == [asked[c] EXCEPT !.at = "failed", !.cause = x]
  <2>3. /\ Touches(c, a) /\ a.at = "failed" /\ a.cause # "clash" /\ a.wasWarm = asked[c].wasWarm
    <3>1. /\ x \in {"graph", "clash", "exists", "absent"} /\ x # "clash" /\ asked[c] \in SPCalls
          /\ OperationFails(c, x)
      BY <1>3, <1>4, <2>1
    <3>2. Touches(c, a)
      BY <1>0, <3>1, FailsTouches
    <3>3. a.at = "failed" /\ a.cause = x /\ Same(a, asked[c])
      BY <3>1, CallFails
    <3> HIDE DEF a
    <3> QED  BY <3>1, <3>2, <3>3 DEF Same
  <2> HIDE DEF a
  <2>4. asked[c].at # "drain"
    BY <1>3, <1>4
  <2>5. Plumbed' /\ WarmFits'
    BY <1>0, <1>4, <2>3, <2>4, PlumbedStays, WarmRests DEF plumbing
  <2>6. asked' \in [Callers -> SPCalls] /\ warm' \in BOOLEAN
    BY <1>0, <1>4, <2>3 DEF Touches, Rests, SPTyped
  <2>7. SPTyped'
    BY <1>0, <1>4, <2>6 DEF SPTyped, plumbing
  <2> QED  BY <2>2, <2>5, <2>7 DEF SPInv
<1>5. ASSUME NEW c \in Callers, mix' = mix, SendRequest(c) PROVE SPInv'
  <2> DEFINE r == NextRequest(asked[c].runs)
  <2>0. Running(c)
    BY <1>5 DEF SendRequest
  <2>1. r \in GraphRequests /\ asked[c].at = "running" /\ asked[c].runs # << >>
    BY <1>3, <2>0
  <2>2. /\ UNCHANGED <<listRows, plumbing>>
        /\ \/ /\ TakesEffect(c, r) /\ GraphAnswered(c, r) /\ driveKnown' = (driveKnown \/ r.do = "drive")
              /\ UNCHANGED warm
           \/ /\ Refusal(r) # "none" /\ OperationFails(c, Refusal(r)) /\ Rests(c)
              /\ UNCHANGED <<folders, files, columns, driveKnown>>
    BY <1>3, <1>5, <2>0 DEF SendRequest
  <2>3. CASE /\ Refusal(r) # "none" /\ OperationFails(c, Refusal(r)) /\ Rests(c)
             /\ UNCHANGED <<folders, files, columns, driveKnown>>
    <3>1. Grows
      BY <1>0, <2>2, <2>3, GrowsUnchanged
    <3>2. /\ folders' \subseteq Paths /\ files' \in [FilePaths -> Callers \cup {0}]
          /\ columns' \in [ItemColumns -> Callers \cup {0}]
      BY <1>0, <2>3 DEF SPTyped
    <3> QED  BY <1>4, <1>5, <2>0, <2>2, <2>3, <3>1, <3>2
  <2>4. CASE /\ TakesEffect(c, r) /\ GraphAnswered(c, r) /\ driveKnown' = (driveKnown \/ r.do = "drive")
             /\ UNCHANGED warm
    <3>1. /\ folders' \subseteq Paths /\ files' \in [FilePaths -> Callers \cup {0}]
          /\ columns' \in [ItemColumns -> Callers \cup {0}]
      BY <1>0, <2>1, <2>2, <2>4, EffectGrows
    <3>2. PICK left \in Seq(GraphRequests), a \in SPCalls :
              Touches(c, a) /\ IsAnswered(c, r, left, a)
      BY <1>0, <2>1, <2>4, AnswerTouches
    <3>3. Fits'
      BY <1>0, <2>1, <2>2, <2>4, FitsWhenAnswered
    <3>4. SPTyped'
      BY <1>0, <1>5, <2>2, <2>4, <3>1, <3>2 DEF SPTyped, plumbing, Touches
    <3>5. /\ a.at \in {"next", "running"} /\ a.loop = asked[c].loop /\ a.pool = asked[c].pool
          /\ a.wasWarm = asked[c].wasWarm /\ a.cause = asked[c].cause
      BY <3>2 DEF IsAnswered, Same
    <3>6. warm => IsServed(a) /\ \A d \in Callers \ {c} : ~Running(d)
      <4>1. warm => IsServed(asked[c]) /\ \A d \in Callers : Running(d) => d = c
        BY <1>0, <2>0 DEF WarmFits
      <4> QED  BY <2>1, <3>5, <4>1 DEF IsServed, Serving, WithLoop, WithPool
    <3>7. asked[c].wasWarm => asked[c].cause # "clash"
      BY <1>0 DEF WarmFits
    <3>8. Plumbed' /\ WarmFits'
      BY <1>0, <2>1, <2>2, <2>4, <3>2, <3>5, <3>6, <3>7, PlumbedStays, WarmTouch DEF plumbing
    <3> QED  BY <3>3, <3>4, <3>8 DEF SPInv
  <2> QED  BY <2>2, <2>3, <2>4
<1>6. ASSUME NEW c \in Callers, mix' = mix, RequestFails(c) PROVE SPInv'
  <2> DEFINE r == NextRequest(asked[c].runs)
  <2>0. Running(c)
    BY <1>6 DEF RequestFails
  <2>1. r \in GraphRequests
    BY <1>3, <2>0
  <2>2. /\ UNCHANGED <<listRows, plumbing, driveKnown>> /\ OperationFails(c, "graph") /\ Rests(c)
        /\ TakesEffect(c, r) \/ UNCHANGED <<folders, files, columns>>
    BY <1>3, <1>6, <2>0 DEF RequestFails
  <2>3. /\ Grows /\ folders' \subseteq Paths /\ files' \in [FilePaths -> Callers \cup {0}]
        /\ columns' \in [ItemColumns -> Callers \cup {0}]
    <3>1. CASE TakesEffect(c, r)
      BY <1>0, <2>1, <2>2, <3>1, EffectGrows
    <3>2. CASE UNCHANGED <<folders, files, columns>>
      BY <1>0, <2>2, <3>2, GrowsUnchanged DEF SPTyped
    <3> QED  BY <2>2, <3>1, <3>2
  <2> QED  BY <1>4, <1>6, <2>0, <2>2, <2>3
<1>7. CASE mix' = mix /\ AddListRow
  <2>1. /\ UNCHANGED <<folders, files, columns, plumbing, driveKnown, asked, warm>>
        /\ listRows' = listRows + 1
    BY <1>7 DEF AddListRow
  <2>2. Grows
    BY <1>0, <2>1 DEF Grows, SPTyped
  <2>3. SPTyped'
    BY <1>0, <1>7, <2>1 DEF SPTyped, plumbing
  <2>4. Fits'
    <3>1. ASSUME NEW c \in Callers PROVE CallFits(asked[c], folders', files', columns', listRows')
      BY <1>0, <2>2, FitsInAGrownLibrary DEF SPTyped, Fits
    <3> QED  BY <2>1, <3>1 DEF Fits
  <2>5. Plumbed' /\ WarmFits'
    BY <1>0, <2>1 DEF Plumbed, WarmFits, IsServed, Running, plumbing
  <2> QED  BY <2>3, <2>4, <2>5 DEF SPInv
<1>8. CASE UNCHANGED spVars
  BY <1>0, <1>8 DEF SPInv, SPTyped, Fits, Plumbed, WarmFits, IsServed, Running, spVars, graphVars,
                    plumbing
<1> QED
  BY <1>1, <1>2, <1>5, <1>6, <1>7, <1>8 DEF SPNext

LEMMA SPInvHolds == SPInv => TransportHolds
<1> SUFFICES ASSUME SPInv PROVE TransportHolds
  OBVIOUS
<1>1. \A c \in Callers : asked[c] \in SPCalls /\ CallFits(asked[c], folders, files, columns, listRows)
  BY DEF SPInv, SPTyped, Fits
<1>2. MadeBy(<< >>) = {} /\ PutBy(<< >>) = {}
  <2>1. ~\E k \in 1..Len(<< >>) : TRUE
    OBVIOUS
  <2> QED  BY <2>1 DEF MadeBy, PutBy
<1>3. ASSUME NEW c \in Callers, asked[c].at = "done", asked[c].op \in {"upload", "reports"}
      PROVE  /\ PathPrefixes(UploadFolder) \subseteq folders
             /\ \A p \in Targets(asked[c].op) : files[p] # 0
  <2>1. asked[c].runs = << >> /\ UploadFits(asked[c], folders, files) /\ asked[c].at \in Busy
    BY <1>1, <1>3 DEF CallFits, Busy
  <2> QED  BY <1>2, <1>3, <2>1 DEF UploadFits
<1>4. UploadsLand
  <2>1. ASSUME NEW c \in Callers, asked[c].at = "done", asked[c].op \in {"upload", "reports"}
        PROVE  files[TopFile] # 0
    <3>1. TopFile \in Targets(asked[c].op)
      BY UploadPaths DEF Targets
    <3> QED  BY <1>3, <2>1, <3>1
  <2>2. ASSUME NEW c \in Callers, asked[c].at = "done", asked[c].op = "reports", NEW p \in FilePaths
        PROVE  files[p] # 0
    <3>1. p \in Targets(asked[c].op)
      BY <2>2 DEF Targets
    <3> QED  BY <1>3, <2>2, <3>1
  <2> QED  BY <1>3, <2>1, <2>2 DEF UploadsLand, TopFile
<1>5. UploadFailsForCause
  BY <1>1 DEF UploadFailsForCause, CallFits, UploadFits
<1>6. ListingIsWhole
  <2> SUFFICES ASSUME NEW c \in Callers, asked[c].at = "done", asked[c].op \in {"items", "list"}
               PROVE  1..asked[c].rowsThen \subseteq asked[c].seen
    BY DEF ListingIsWhole
  <2>1. asked[c].runs = << >> /\ ListFits(asked[c], listRows) /\ asked[c].at \in Busy
    BY <1>1 DEF CallFits, Busy
  <2>2. << >> # << <<Drive, Page(1)>> >> /\ \A k \in Nat : << >> # << <<Page(k)>> >>
    OBVIOUS
  <2> QED  BY <2>1, <2>2 DEF ListFits
<1>7. UpdatesKeepTheRest
  <2> SUFFICES ASSUME NEW c \in Callers, asked[c].at = "done", asked[c].op = "update"
               PROVE  columns[asked[c].col] # 0
    BY DEF UpdatesKeepTheRest
  <2>1. asked[c].runs = << >> /\ UpdateFits(asked[c], columns) /\ asked[c].at \in Busy
    BY <1>1 DEF CallFits, Busy
  <2>2. << >> # << <<Patch(asked[c].col)>> >>
    OBVIOUS
  <2> QED  BY <2>1, <2>2 DEF UpdateFits
<1>8. WarmClientSerialises
  <2> SUFFICES ASSUME warm PROVE Cardinality({c \in Callers : Running(c)}) <= 1
    BY DEF WarmClientSerialises, SPInv, WarmFits
  <2> DEFINE R == {c \in Callers : Running(c)}
  <2>1. \A d, e \in R : d = e
    BY DEF SPInv, WarmFits
  <2> HIDE DEF R
  <2>2. CASE R = {}
    BY <2>2, FS_EmptySet DEF R
  <2>3. CASE R # {}
    <3>1. PICK d \in R : TRUE
      BY <2>3
    <3>2. R = {d}
      BY <2>1, <3>1
    <3>3. Cardinality(R) = 1
      BY <3>2, FS_Singleton
    <3> QED  BY <3>3 DEF R
  <2> QED  BY <2>2, <2>3
<1> QED  BY <1>4, <1>5, <1>6, <1>7, <1>8 DEF TransportHolds

(* Uploads that returned have landed and fail for a cause, readings are whole, updates
   keep each other's columns and a warm client serialises, whatever operations any
   number of threads make side by side, into however deep a folder, and whatever Graph
   fails. *)
THEOREM TransportAlwaysHolds == SPSpec => []TransportHolds
<1>1. SPInit => SPInv
  BY SPInvInit
<1>2. SPInv /\ [SPNext]_spVars => SPInv'
  BY SPInvNext
<1>3. SPInv => TransportHolds
  BY SPInvHolds
<1> QED  BY <1>1, <1>2, <1>3, PTL DEF SPSpec
===============================================================================
