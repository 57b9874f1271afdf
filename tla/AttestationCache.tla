-------------------------- MODULE AttestationCache --------------------------
(***************************************************************************)
(* One boot of the verifier enclave, seen through its two attestation      *)
(* caches: the hard gates main passes before it serves, the background     *)
(* task that re-attests each boot key, and main's select, which ends the   *)
(* process as soon as one of those tasks ends.                             *)
(*                                                                         *)
(* Time is discrete.  Nothing is stamped with an absolute clock: the model *)
(* keeps ages and elapsed times, which Tick advances together, so that the *)
(* state space of a run is finite without an artificial horizon.           *)
(*                                                                         *)
(*   sources  verifier/enclave/src/attestation.rs, state.rs, main.rs,      *)
(*            rng.rs, server.rs                                            *)
(***************************************************************************)
EXTENDS Integers, FiniteSets

CONSTANTS
    MaxCachedAge,    \* sleep between two attests (MAX_CACHED_AGE)
    MaxServableAge,  \* age at which a failed refresh gives up (MAX_SERVABLE_AGE)
    MaxAttestTime    \* environment: longest time from asking for an attest to
                     \* its answer (timer lateness, blocking pool, NSM call); the
                     \* code has no timeout of its own on the call

ASSUME DurationAssumption ==
    /\ MaxCachedAge \in Nat \ {0}
    /\ MaxServableAge \in Nat \ {0}
    /\ MaxAttestTime \in Nat
    /\ MaxAttestTime < MaxServableAge

\* The two boot-scoped keys, each with a cache and a refresh task of its own.
Keys == {"encryption", "signing"}

VARIABLES
    main,         \* the gate main is at, then "serving" or "down"
    mainTimer,    \* time main has spent in the attest it is waiting for
    nsmUp,        \* environment: attests succeed; they fail when it is FALSE
    task,         \* per key: what its refresh task is doing
    timer,        \* per key: time the task has spent in that state
    cached,       \* the keys whose AttestedKey exists and holds a document
    docAge,       \* per key: time since the NSM stamped the cached document
    attestedAge,  \* per key: time since attested_at of the cached document
    failures      \* per key: failed attests in a row since the last success

vars == <<main, mainTimer, nsmUp, task, timer, cached, docAge, attestedAge, failures>>
taskVars == <<task, timer>>
cacheVars == <<cached, docAge, attestedAge>>

-----------------------------------------------------------------------------
\* The gates of main, in order, and the ones that wait for an attest.
Gates == {"rng", "connect", "engine", "keys", "attestEncryption", "attestSigning", "measurements"}
AttestGates == {"attestEncryption", "attestSigning", "measurements"}
MainStates == Gates \cup {"serving", "down"}

\* "gaveUp": returned after a failed attest of a too old document.
\* "panicked": returned because the blocking attest panicked.
Finished == {"gaveUp", "panicked"}
TaskStates == {"unstarted", "sleeping", "attesting"} \cup Finished

Init ==
    /\ main = "rng"
    /\ mainTimer = 0
    /\ nsmUp \in BOOLEAN
    /\ task = [k \in Keys |-> "unstarted"]
    /\ timer = [k \in Keys |-> 0]
    /\ cached = {}
    /\ docAge = [k \in Keys |-> 0]
    /\ attestedAge = [k \in Keys |-> 0]
    /\ failures = [k \in Keys |-> 0]

-----------------------------------------------------------------------------
\* Any gate may fail, and then main returns an error.  Attests fail when the
\* NSM answers with an error; the others for reasons of their own.
GateFails ==
    /\ main \in Gates
    /\ main \in AttestGates => ~nsmUp
    /\ main' = "down"
    /\ UNCHANGED <<mainTimer, nsmUp, taskVars, cacheVars, failures>>

\* rng::verify_nsm_hwrng_current, attestation::connect, FaceEngine::default, and
\* the keys EnclaveState::generate makes before it attests them.
PassGate(from, to) ==
    /\ main = from
    /\ main' = to
    /\ mainTimer' = 0
    /\ UNCHANGED <<nsmUp, taskVars, cacheVars, failures>>

\* Mutant of Store: the age of the document gets the wrong sign.
StoreWithFutureStamp(k, stamp) ==
    /\ docAge' = [docAge EXCEPT ![k] = -stamp]
    /\ attestedAge' = [attestedAge EXCEPT ![k] = 0]
    /\ cached' = cached \cup {k}

\* Mutant of Store: the document is replaced, attested_at is not.
StoreDocumentOnly(k, stamp) ==
    /\ docAge' = [docAge EXCEPT ![k] = stamp]
    /\ cached' = cached \cup {k}
    /\ UNCHANGED attestedAge

\* Mutant of Store: attested_at is moved, the document is not replaced.
StoreStampOnly(k, stamp) ==
    /\ attestedAge' = [attestedAge EXCEPT ![k] = 0]
    /\ cached' = cached \cup {k}
    /\ docAge' = [docAge EXCEPT ![k] = IF k \in cached THEN @ ELSE stamp]

\* The cache of k now holds a document stamped `stamp` ago, and attested_at is
\* read from the clock only now, after the answer arrived.
Store(k, stamp) ==
    /\ docAge' = [docAge EXCEPT ![k] = stamp]
    /\ attestedAge' = [attestedAge EXCEPT ![k] = 0]
    /\ cached' = cached \cup {k}

\* AttestedKey::new for the key of this gate: attest first, cache afterwards.
\* The NSM stamped the document at some moment of the call.
NewAttestedKey(gate, k, next) ==
    /\ main = gate
    /\ nsmUp
    /\ \E stamp \in 0 .. mainTimer : Store(k, stamp)
    /\ main' = next
    /\ mainTimer' = 0
    /\ UNCHANGED <<nsmUp, failures>>

AttestEncryptionKey ==
    /\ NewAttestedKey("attestEncryption", "encryption", "attestSigning")
    /\ UNCHANGED taskVars

\* The second key completes EnclaveState::generate; main then starts both
\* refresh tasks before it does anything else.
AttestSigningKey ==
    /\ NewAttestedKey("attestSigning", "signing", "measurements")
    /\ task' = [k \in Keys |-> "sleeping"]
    /\ timer' = [k \in Keys |-> 0]

\* The boot measurements come from one more attest, after the tasks started.
ReadMeasurements ==
    /\ main = "measurements"
    /\ nsmUp
    /\ main' = "serving"
    /\ mainTimer' = 0
    /\ UNCHANGED <<nsmUp, taskVars, cacheVars, failures>>

Boot ==
    \/ PassGate("rng", "connect")
    \/ PassGate("connect", "engine")
    \/ PassGate("engine", "keys")
    \/ PassGate("keys", "attestEncryption")
    \/ AttestEncryptionKey
    \/ AttestSigningKey
    \/ ReadMeasurements
    \/ GateFails

-----------------------------------------------------------------------------
\* start_refresh: the loop of one key's task, between two await points a step.
Live == main # "down"

\* Mutant of Wake: the document counts as asked for when the sleep began.
WakeWithoutReset(k) ==
    /\ Live
    /\ task[k] = "sleeping"
    /\ timer[k] >= MaxCachedAge
    /\ task' = [task EXCEPT ![k] = "attesting"]
    /\ UNCHANGED <<main, mainTimer, nsmUp, timer, cacheVars, failures>>

\* Mutant of Wake: no attempt is made after a failed one.
WakeUnlessFailed(k) ==
    /\ Live
    /\ task[k] = "sleeping"
    /\ timer[k] >= MaxCachedAge
    /\ failures[k] = 0
    /\ task' = [task EXCEPT ![k] = "attesting"]
    /\ timer' = [timer EXCEPT ![k] = 0]
    /\ UNCHANGED <<main, mainTimer, nsmUp, cacheVars, failures>>

\* sleep(max_age) is over; the attest goes to the blocking pool.
Wake(k) ==
    /\ Live
    /\ task[k] = "sleeping"
    /\ timer[k] >= MaxCachedAge
    /\ task' = [task EXCEPT ![k] = "attesting"]
    /\ timer' = [timer EXCEPT ![k] = 0]
    /\ UNCHANGED <<main, mainTimer, nsmUp, cacheVars, failures>>

\* The attest succeeded: document and attested_at change under one lock.
RefreshSucceeds(k) ==
    /\ Live
    /\ task[k] = "attesting"
    /\ nsmUp
    /\ \E stamp \in 0 .. timer[k] : Store(k, stamp)
    /\ task' = [task EXCEPT ![k] = "sleeping"]
    /\ timer' = [timer EXCEPT ![k] = 0]
    /\ failures' = [failures EXCEPT ![k] = 0]
    /\ UNCHANGED <<main, mainTimer, nsmUp>>

\* Mutant of RefreshFails: every attest, failed ones too, moves attested_at.
RefreshFailsAndStamps(k) ==
    /\ Live
    /\ task[k] = "attesting"
    /\ ~nsmUp
    /\ task' = [task EXCEPT ![k] = IF attestedAge[k] >= MaxServableAge THEN "gaveUp" ELSE "sleeping"]
    /\ timer' = [timer EXCEPT ![k] = 0]
    /\ failures' = [failures EXCEPT ![k] = @ + 1]
    /\ attestedAge' = [attestedAge EXCEPT ![k] = 0]
    /\ UNCHANGED <<main, mainTimer, nsmUp, cached, docAge>>

\* Mutant of RefreshFails: the two durations are mixed up.
RefreshFailsTooEagerly(k) ==
    /\ Live
    /\ task[k] = "attesting"
    /\ ~nsmUp
    /\ task' = [task EXCEPT ![k] = IF attestedAge[k] >= MaxCachedAge THEN "gaveUp" ELSE "sleeping"]
    /\ timer' = [timer EXCEPT ![k] = 0]
    /\ failures' = [failures EXCEPT ![k] = @ + 1]
    /\ UNCHANGED <<main, mainTimer, nsmUp, cacheVars>>

\* A failed attest looks at the age of the cached document, never replaces it,
\* and sleeps again unless that age has reached MaxServableAge.
RefreshFails(k) ==
    /\ Live
    /\ task[k] = "attesting"
    /\ ~nsmUp
    /\ task' = [task EXCEPT ![k] = IF attestedAge[k] >= MaxServableAge THEN "gaveUp" ELSE "sleeping"]
    /\ timer' = [timer EXCEPT ![k] = 0]
    /\ failures' = [failures EXCEPT ![k] = @ + 1]
    /\ UNCHANGED <<main, mainTimer, nsmUp, cacheVars>>

\* The blocking closure panicked: the join error ends the task at once.
RefreshPanics(k) ==
    /\ Live
    /\ task[k] = "attesting"
    /\ task' = [task EXCEPT ![k] = "panicked"]
    /\ timer' = [timer EXCEPT ![k] = 0]
    /\ UNCHANGED <<main, mainTimer, nsmUp, cacheVars, failures>>

RefreshTask(k) == Wake(k) \/ RefreshSucceeds(k) \/ RefreshFails(k) \/ RefreshPanics(k)

-----------------------------------------------------------------------------
\* Mutant of TaskEnded: main supervises one of the two tasks.
OneTaskEnded ==
    /\ main = "serving"
    /\ task["encryption"] \in Finished
    /\ main' = "down"
    /\ UNCHANGED <<mainTimer, nsmUp, taskVars, cacheVars, failures>>

\* Mutant of TaskEnded: main goes through its gates again instead of returning.
TaskEndedBootsAgain ==
    /\ main = "serving"
    /\ \E k \in Keys : task[k] \in Finished
    /\ main' = "rng"
    /\ UNCHANGED <<mainTimer, nsmUp, taskVars, cacheVars, failures>>

\* main's select.  A finished task is noticed only once main is in the select;
\* returning from main ends the process and every task with it.
TaskEnded ==
    /\ main = "serving"
    /\ \E k \in Keys : task[k] \in Finished
    /\ main' = "down"
    /\ UNCHANGED <<mainTimer, nsmUp, taskVars, cacheVars, failures>>

ServerStops ==
    /\ main = "serving"
    /\ main' = "down"
    /\ UNCHANGED <<mainTimer, nsmUp, taskVars, cacheVars, failures>>

\* Nothing restarts the process from within: a new boot has new keys.
Stopped == main = "down" /\ UNCHANGED vars

-----------------------------------------------------------------------------
\* The environment.  Timers are urgent: time does not pass a sleep that is due,
\* an attest that has taken MaxAttestTime, or a finished task main is waiting on.
MayWait(k) ==
    /\ task[k] = "sleeping" => timer[k] < MaxCachedAge
    /\ task[k] = "attesting" => timer[k] < MaxAttestTime
    /\ task[k] \in Finished => main # "serving"

Older(age) == [k \in Keys |-> IF k \in cached THEN age[k] + 1 ELSE age[k]]

Tick ==
    /\ main \in AttestGates \cup {"serving"}
    /\ main \in AttestGates => mainTimer < MaxAttestTime
    /\ \A k \in Keys : MayWait(k)
    /\ mainTimer' = IF main \in AttestGates THEN mainTimer + 1 ELSE mainTimer
    /\ timer' = [k \in Keys |-> IF task[k] \in {"sleeping", "attesting"} THEN timer[k] + 1 ELSE timer[k]]
    /\ docAge' = Older(docAge)
    /\ attestedAge' = Older(attestedAge)
    /\ UNCHANGED <<main, nsmUp, task, cached, failures>>

NsmChanges ==
    /\ Live
    /\ nsmUp' = ~nsmUp
    /\ UNCHANGED <<main, mainTimer, taskVars, cacheVars, failures>>

-----------------------------------------------------------------------------
Next ==
    \/ Boot
    \/ \E k \in Keys : RefreshTask(k)
    \/ TaskEnded
    \/ ServerStops
    \/ Tick
    \/ NsmChanges
    \/ Stopped

Spec == Init /\ [][Next]_vars

\* The runtime keeps running: main and each task take the steps they can, and
\* time passes.
RuntimeRuns ==
    /\ WF_vars(main \notin AttestGates /\ Boot)
    /\ \A k \in Keys : WF_vars(Wake(k))
    /\ WF_vars(TaskEnded)
    /\ WF_vars(Tick)

\* Environment: every call of the NSM returns, with a document or an error.  The
\* code has no timeout: a call that hung would leave main at its gate, or a task
\* and its document as they are, for ever.
AttestsReturn ==
    /\ WF_vars(main \in AttestGates /\ Boot)
    /\ \A k \in Keys : WF_vars(RefreshSucceeds(k) \/ RefreshFails(k))

\* Nothing is assumed of what the NSM answers, of panics or of the server.
Fairness == RuntimeRuns /\ AttestsReturn

FairSpec == Spec /\ Fairness

-----------------------------------------------------------------------------
\* Type invariant: the shape of the state, whatever the durations are
\* (EnclaveState, AttestedKey and the locals of main and of start_refresh).
TypeOK ==
    /\ main \in MainStates
    /\ mainTimer \in Nat
    /\ nsmUp \in BOOLEAN
    /\ task \in [Keys -> TaskStates]
    /\ timer \in [Keys -> Nat]
    /\ cached \in SUBSET Keys
    /\ docAge \in [Keys -> Nat]
    /\ attestedAge \in [Keys -> Nat]
    /\ failures \in [Keys -> Nat]

\* How old a document may be when a request reads it: it may have just missed
\* the age check of a failed refresh, then waits out another sleep and another
\* attest; and it was stamped up to one attest before attested_at.
StaleBound == MaxServableAge - 1 + MaxCachedAge + 2 * MaxAttestTime

\* While the enclave serves, each key has a document ("both caches start
\* populated", main.rs) and no request is handed one older than StaleBound: the
\* refresh loop, its failure check and main's select together bound the
\* staleness of what document() returns.
ServedDocumentsBounded ==
    main = "serving" => \A k \in Keys : k \in cached /\ docAge[k] <= StaleBound

\* attested_at, which the failure check reads, is never earlier than the NSM's
\* own stamp, and never by more than one attest: the check may underrate the
\* age of a document, by a bounded amount.
AgeUnderratedByOneAttest ==
    \A k \in cached : attestedAge[k] <= docAge[k] /\ docAge[k] <= attestedAge[k] + MaxAttestTime

\* The longest time n failed attests in a row take: each comes at most one sleep
\* and one attest after the one before it.
OutageSpan(n) == n * (MaxCachedAge + MaxAttestTime)

\* A task gives up only after an outage it could not ride out: the attests that
\* failed in a row since the last success span MaxServableAge, but for the one
\* attest of the boot itself.  One more unlucky failure is never enough.
GivesUpOnlyAfterOutage ==
    \A k \in Keys : task[k] = "gaveUp" =>
        OutageSpan(failures[k]) + MaxAttestTime >= MaxServableAge

\* What the README promises of MAX_SERVABLE_AGE: the enclave serves no document
\* whose last successful attest is older than that, because the process exits.
ServedWithinServableAge ==
    main = "serving" => \A k \in Keys : attestedAge[k] <= MaxServableAge

-----------------------------------------------------------------------------
\* A request never sees the document of a key go back in time: whatever renews
\* the cache puts in a document stamped later than the one it replaces, although
\* the stamp is made during the call and the cache is written after it.
RenewalIsYounger == \A k \in cached : attestedAge'[k] < attestedAge[k] => docAge'[k] < docAge[k]
NeverReplacedByOlder == [][RenewalIsYounger]_vars

\* If every attest fails from some point on, the enclave goes down rather than
\* serve the last documents for ever.
OutageEndsTheProcess == (<>[]~nsmUp) => <>(main = "down")

\* If attests succeed from some point on, each key's document is renewed again
\* and again for as long as the process lives: no failure wedges a task, and none
\* of the two tasks ends without taking the process down.
DocumentsKeepBeingRenewed ==
    (<>[]nsmUp) => \A k \in Keys : []<>(main = "down" \/ (k \in cached /\ attestedAge[k] = 0))

-----------------------------------------------------------------------------
\* What readers of the cache see, as the abstract service of ServedDocument:
\* neither the tasks, nor attested_at, nor the NSM, nor the order of the gates.
ServedStatus == CASE main = "serving" -> "serving"
                  [] main = "down" -> "stopped"
                  [] main \notin {"serving", "down"} -> "booting"
ServedAge == [k \in Keys |-> IF main = "serving" THEN docAge[k] ELSE 0]

Served == INSTANCE ServedDocument WITH Bound <- StaleBound, status <- ServedStatus, age <- ServedAge

\* The enclave's refresh machinery implements the service its clients rely on.
ImplementsServedDocument == Served!Spec
=============================================================================
