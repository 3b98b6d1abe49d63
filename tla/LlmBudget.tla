----------------------------- MODULE LlmBudget -----------------------------
(***************************************************************************)
(* One person's model calls while resolving: resolve._judge_all starts one *)
(* coroutine per document behind a semaphore, research._BudgetedClient     *)
(* meters them, and llm.client's structured asks the API once, and once    *)
(* more when the answer is not valid JSON.  Every await is a step of its   *)
(* own; the counters are read and written between awaits.                  *)
(***************************************************************************)
EXTENDS Naturals, FiniteSets

CONSTANTS
    Document,            \* the documents to judge, as ranks in document order
    MAX_LLM_CALLS,       \* Budget.max_llm_calls
    MAX_CONCURRENT       \* _MAX_CONCURRENT_VERDICTS

ASSUME BudgetAssumption ==
    /\ Document \subseteq Nat /\ IsFiniteSet(Document)
    /\ MAX_LLM_CALLS \in Nat
    /\ MAX_CONCURRENT \in Nat \ {0}

VARIABLES
    pc,                  \* per document: "waiting" at the gate, "asking", "retrying",
                         \* then "judged" or "unsure"
    used, refused, errors,   \* _BudgetedClient
    requests             \* observer: requests sent to the API
counters == <<used, refused, errors>>
vars == <<pc, counters, requests>>

Init ==
    /\ pc = [d \in Document |-> "waiting"]
    /\ used = 0 /\ refused = 0 /\ errors = 0
    /\ requests = 0

InFlight == {d \in Document : pc[d] \in {"asking", "retrying"}}

\* Mutant: a failed call does not give its place at the gate back.
HoldingForEver == {d \in Document : pc[d] \in {"asking", "retrying", "unsure"}}

\* `async with gate`: a place is held from the call to its outcome, whatever that is.
Holding == InFlight

\* The semaphore wakes its waiters in the order they came: document order.
Admitted(d) ==
    /\ pc[d] = "waiting" /\ Cardinality(Holding) < MAX_CONCURRENT
    /\ \A e \in Document : pc[e] = "waiting" => d <= e

\* The call is counted before its await.
Ask(d) ==
    /\ Admitted(d) /\ used < MAX_LLM_CALLS
    /\ pc' = [pc EXCEPT ![d] = "asking"]
    /\ used' = used + 1
    /\ requests' = requests + 1
    /\ UNCHANGED <<refused, errors>>

\* Past the cap: refused on the spot, and not an error of the model's.
Refuse(d) ==
    /\ Admitted(d) /\ used >= MAX_LLM_CALLS
    /\ pc' = [pc EXCEPT ![d] = "unsure"]
    /\ refused' = refused + 1
    /\ UNCHANGED <<used, errors, requests>>

\* A valid answer to the first request or to the retry.
Answer(d) ==
    /\ d \in InFlight
    /\ pc' = [pc EXCEPT ![d] = "judged"]
    /\ UNCHANGED <<counters, requests>>

\* Mutant: an invalid answer is retried until it is valid.
RetryAgain(d) ==
    /\ d \in InFlight
    /\ pc' = [pc EXCEPT ![d] = "retrying"]
    /\ requests' = requests + 1
    /\ UNCHANGED counters

\* Not valid JSON, or not the schema: exactly one more request.
Retry(d) ==
    /\ pc[d] = "asking"
    /\ pc' = [pc EXCEPT ![d] = "retrying"]
    /\ requests' = requests + 1
    /\ UNCHANGED counters

\* Mutant: a failure the budget swallows instead of counting.
FailUncounted(d) ==
    /\ d \in InFlight
    /\ pc' = [pc EXCEPT ![d] = "unsure"]
    /\ UNCHANGED <<counters, requests>>

\* A transport failure or a refusal at either request, or a second invalid answer:
\* LLMError, counted and re-raised, and the document is unsure.
Fail(d) ==
    /\ d \in InFlight
    /\ pc' = [pc EXCEPT ![d] = "unsure"]
    /\ errors' = errors + 1
    /\ UNCHANGED <<used, refused, requests>>

Next ==
    \E d \in Document : Ask(d) \/ Refuse(d) \/ Answer(d) \/ Retry(d) \/ Fail(d)

\* The gate admits its waiters and the SDK's own timeout ends every request.
Fairness == \A d \in Document : WF_vars(Ask(d) \/ Refuse(d)) /\ WF_vars(Fail(d))

Spec == Init /\ [][Next]_vars /\ Fairness

------------------------------------------------------------------------------
Made == {d \in Document : pc[d] # "waiting"}
Judged == {d \in Document : pc[d] = "judged"}
Settled == \A d \in Document : pc[d] \in {"judged", "unsure"}

TypeOK ==
    /\ pc \in [Document -> {"waiting", "asking", "retrying", "judged", "unsure"}]
    /\ used \in 0 .. MAX_LLM_CALLS
    /\ refused \in 0 .. Cardinality(Document)
    /\ errors \in 0 .. used
    /\ requests \in Nat

\* However the coroutines interleave, the person never costs more than the budget
\* in calls, nor more than two requests per call, nor more than the gate at once.
SpendingBounded ==
    /\ used <= MAX_LLM_CALLS
    /\ requests <= 2 * used
    /\ Cardinality(InFlight) <= MAX_CONCURRENT

\* The counters tell build_all the truth: every document admitted is one call made
\* or one refused, none is refused while budget is left, and once all are settled
\* the errors are the calls made that judged nothing: all of them only if the model
\* was never any use.
CountersAgree ==
    /\ Cardinality(Made) = used + refused
    /\ refused > 0 => used = MAX_LLM_CALLS
    /\ errors + Cardinality(Judged) + Cardinality(InFlight) = used
=============================================================================
