--------------------------- MODULE ClientFreshness ---------------------------
(***************************************************************************)
(* The clients' bounds on the age of a document, beside the cache the      *)
(* document comes from.  A document leaves the cache when the enclave      *)
(* reads it for an answer, ages on its way through the host, and is judged *)
(* when the client verifies it.                                            *)
(*                                                                         *)
(* The NSM and the client are taken to agree on the time.                  *)
(*                                                                         *)
(*   sources  verifier/client/src/config.rs, client.rs,                    *)
(*            verifier/enclave/src/routes/encryption_key.rs,               *)
(*            verifier/host/src/routes/enclave_assignment.rs               *)
(***************************************************************************)
EXTENDS AttestationCache

CONSTANTS
    Bounds,     \* max_attestation_age_millis of the clients that ask
    MaxTransit  \* request_timeout_millis: longest time a document travels

ASSUME FreshnessAssumption == Bounds \subseteq Nat /\ MaxTransit \in Nat

VARIABLES
    travelling,  \* a document is on its way to a client
    bound,       \* that client's max_attestation_age_millis
    age,         \* the document's age
    elapsed,     \* time since the enclave read it
    unbroken,    \* history: its key had no failed attest since the last success
    verdict      \* what the client made of the last document

clientVars == <<travelling, bound, age, elapsed, unbroken, verdict>>
allVars == <<vars, clientVars>>

-----------------------------------------------------------------------------
FreshnessInit ==
    /\ Init
    /\ travelling = FALSE
    /\ bound = 0
    /\ age = 0
    /\ elapsed = 0
    /\ unbroken = TRUE
    /\ verdict = "none"

\* A client asks, and the enclave reads what the cache of k holds.
Ask(k) ==
    /\ main = "serving"
    /\ ~travelling
    /\ travelling' = TRUE
    /\ bound' \in Bounds
    /\ age' = docAge[k]
    /\ elapsed' = 0
    /\ unbroken' = (failures[k] = 0)
    /\ verdict' = "none"
    /\ UNCHANGED vars

\* The verifier compares the document's own timestamp with the bound.
Judge ==
    /\ travelling
    /\ travelling' = FALSE
    /\ verdict' = IF age <= bound THEN "fresh" ELSE "tooOld"
    /\ age' = 0
    /\ elapsed' = 0
    /\ UNCHANGED <<vars, bound, unbroken>>

\* The client's timeout, or an answer that never comes.
Lose ==
    /\ travelling
    /\ travelling' = FALSE
    /\ verdict' = "lost"
    /\ age' = 0
    /\ elapsed' = 0
    /\ UNCHANGED <<vars, bound, unbroken>>

\* Time passes for the document too, also after its enclave is gone.
FreshnessTick ==
    /\ Tick \/ (main = "down" /\ UNCHANGED vars)
    /\ travelling
    /\ elapsed < MaxTransit
    /\ elapsed' = elapsed + 1
    /\ age' = age + 1
    /\ UNCHANGED <<travelling, bound, unbroken, verdict>>

IdleTick == Tick /\ ~travelling /\ UNCHANGED clientVars

\* What the enclave does meanwhile, but for the passing of time.
EnclaveStep ==
    /\ Boot \/ (\E k \in Keys : RefreshTask(k)) \/ TaskEnded \/ ServerStops \/ NsmChanges \/ Stopped
    /\ UNCHANGED clientVars

FreshnessNext ==
    \/ \E k \in Keys : Ask(k)
    \/ Judge
    \/ Lose
    \/ FreshnessTick
    \/ IdleTick
    \/ EnclaveStep

FreshnessSpec == FreshnessInit /\ [][FreshnessNext]_allVars

\* The enclave's own fairness (RuntimeRuns, and AttestsReturn: every call of the
\* NSM returns), beside clients.
EnclaveFairness ==
    /\ WF_allVars(Boot /\ UNCHANGED clientVars)
    /\ \A k \in Keys :
        /\ WF_allVars(Wake(k) /\ UNCHANGED clientVars)
        /\ WF_allVars((RefreshSucceeds(k) \/ RefreshFails(k)) /\ UNCHANGED clientVars)
    /\ WF_allVars(TaskEnded /\ UNCHANGED clientVars)
    /\ WF_allVars(FreshnessTick \/ IdleTick)

\* Clients ask again and again, and each waits for its answer or its timeout.
FreshnessFairness ==
    /\ EnclaveFairness
    /\ WF_allVars(\E k \in Keys : Ask(k))
    /\ WF_allVars(Judge \/ Lose)

FairFreshnessSpec == FreshnessSpec /\ FreshnessFairness

-----------------------------------------------------------------------------
\* How old a document may be when a client with no bound of its own judges it.
OldestJudged == StaleBound + MaxTransit

\* A client whose bound allows for the enclave's failure check, its sleep, two
\* attests and the journey never refuses a document for its age: a smaller bound
\* is the only reason (max_attestation_age_millis against MAX_SERVABLE_AGE).
GenerousClientsAreServed == verdict = "tooOld" => bound < OldestJudged

\* The age of a document whose key was re-attested without a failure.
OldestUnbroken == MaxCachedAge + 3 * MaxAttestTime + MaxTransit

\* A client that allows for one refresh cycle refuses a document only if an
\* attest of its key had failed since the last success: no schedule of refreshes,
\* boots and journeys alone makes a document too old for it.
RefusalsFollowFailures == verdict = "tooOld" => bound < OldestUnbroken \/ ~unbroken

\* Once the NSM answers again, refusals come to an end: every client that allows
\* for one refresh cycle gets documents it takes, unless the enclave went down.
RefusalsPass ==
    (<>[]nsmUp) => <>[](main = "down" \/ (verdict = "tooOld" => bound < OldestUnbroken))
=============================================================================
