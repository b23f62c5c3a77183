-------------------------------- MODULE Cases --------------------------------
(***************************************************************************)
(* What the modules of pure algorithms share: a case is an input of one of *)
(* them, and its only step answers it.                                     *)
(***************************************************************************)
VARIABLES
    subject,   \* the algorithm
    input,     \* what it is called with
    answered,
    result     \* what it returned, once answered

caseVars == <<subject, input, answered, result>>

\* None of them is called.
NoCase == subject = "none" /\ input = {} /\ answered = FALSE /\ result = {}

\* A case of the algorithm called name.
Case(name, inputs) ==
    subject = name /\ input \in inputs /\ answered = FALSE /\ result = {}

Answer(name, value) ==
    /\ subject = name /\ ~answered
    /\ answered' = TRUE /\ result' = value
    /\ UNCHANGED <<subject, input>>

Answered(name) == subject = name /\ answered
=============================================================================
