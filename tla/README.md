# TLA+ models of the embedding verifier

This directory holds TLA+ specifications of the verifier under `verifier/`: the
enclave that compares faces and signs match statements, the host that relays to
it, and the client that verifies its attestation. TLC checks them on small
instances; TLAPS proves the main results for every value of the constants.
`PROJECT.json` lists components, runs, mutants, hazards and theorems, and maps
each definition to the source lines it stands for. Paths below are relative to
`verifier/`, but for the repository's own `README.md`.

## The system

| Component | State it keeps | Operations | What is hard about it |
| --- | --- | --- | --- |
| Attestation cache (`enclave/src/attestation.rs`) | per boot key: document, `attested_at` | attest at boot, refresh task (sleep, attest, store or check age), `document()` | ages against timers, failures at any moment, two tasks racing with `main` |
| Boot and supervision (`enclave/src/main.rs`, `state.rs`, `rng.rs`, `server.rs`) | boot keys, the two task handles | hard gates in order, start of the tasks, `select!` | tasks run while `main` is still booting; the process must end when one of them does |
| Enclave runtime (`#[tokio::main]`, `pontifex`) | run queues, worker threads | run a task per call, in no particular order | a match holds its worker to the end, and health checks wait for it |
| Match handler (`enclave/src/routes/matches.rs`) | none of its own; opens with the boot's channel | open, read the signing-key document, decode, evaluate, sign, seal | concurrent handlers, an await in the middle, a panic, which failures may show |
| PCP binding, face engine (`pcp.rs`, `face_engine.rs`) | none | bind the credential image, score two probes | order of the checks, NaN |
| Match token (`protocol/src/match_token.rs`, `enclave/src/keys.rs`) | signing key | scale, hash, sign, verify | rounding there and back, what the digest covers |
| Sealed messages (`sealed-types/`) | none | CBOR, fixed-size envelope | width of the length, the limit, what the padding may hold |
| Host relay (`host/src/enclave.rs`, `routes/`) | none per request | assignment, match, readiness, error mapping | deadlines that leave the enclave running, late outcomes |
| Host server (`host/src/main.rs`, `server.rs`, `environment.rs`) | settings, requests in flight, signal handlers | boot gates, routing, body checks, drain | signals at any moment, an enclave that never answers during the drain |
| Client (`client/src/client.rs`) | cookie store, verified assignment | `request_assignment`, `request_match`, both on `&self` | two requests that must reach the same boot, one retry, callers that share the cookie store |
| Client configuration (`client/src/config.rs`) | policy, bound on a document's age | `new`, `from_json`, serde, `with_max_attestation_age`, `verifier` | three ways to make one, of which one does not validate |
| Load balancer (external) | rotation, affinity | route | readiness seen late |

A client posts an assignment request; the host asks its enclave for the
encryption-key document and returns it. The client verifies it, seals its
inputs to the key it commits to, and posts them with the affinity cookie. The
enclave opens them with its boot's channel, reads the cached signing-key
document, evaluates, signs, and seals a result of fixed size. The host sees a
status only. An enclave that restarts has new keys, so whatever was sealed to
the old ones no longer opens (`409 reassign_required`).

## Modules

| Module | What it is |
| --- | --- |
| `AttestationCache` | one enclave boot: gates, both refresh tasks, `select!`, time, NSM |
| `ServedDocument` | abstract specification: what readers of the cache are promised |
| `ClientFreshness` | extends `AttestationCache` with clients that judge the age of its documents |
| `EnclaveExecutor` | worker threads shared by matches, health checks and refreshes, and the rotation the checks decide |
| `MatchRules` | the handler's decisions on one plaintext, as operators |
| `ApiAnswers` | outcome of an enclave call to HTTP answer to client error |
| `MatchHandler` | concurrent requests at one boot, with renewals, deadline and exit; extends the two above |
| `MatchToken` | a statement from claims to verified token, with the numeric conversions |
| `MatchEnvelope` | the sealed result's plaintext, byte by byte, written and read |
| `MatchExchange` | clients, pods and load balancer: assignment, match, retry, restart, readiness |
| `SealedOperation` | abstract specification: what a client is promised of one operation |
| `HostServer` | the host process: boot gates, router, body checks, deadlines, signals, drain |
| `ClientPolicy` | the client's configuration, its verifier, and the documents it accepts |
| `MCMatchHandler`, `MCMatchExchange`, `MCMatchEnvelope`, `MCClientPolicy` | instances for TLC |
| `*Proofs` | the theorems about the module they are named after, with their proofs |

`ApiAnswers` is shared by the three modules that see an HTTP answer, so a change
of the error mapping reaches the handler, the exchange and the host server.

### AttestationCache, ServedDocument, ClientFreshness

`main` is the gate `main` stands at; `task[k]` and `timer[k]` say what the
refresh task of key `k` does between two await points and for how long;
`cached`, `docAge` and `attestedAge` are `CachedAttestation`. Two ages are kept
because the code has two clocks: the stamp the NSM puts in the document, made at
some moment of the call, and `attested_at`, read after the call returned. Ages
and elapsed times advance together in `Tick`, so no absolute clock is needed and
the state space is finite. Each arm of the `match` in `start_refresh` is one
action (`RefreshSucceeds`, `RefreshFails`, `RefreshPanics`); the lock makes
document and `attested_at` change in one step. A timer that is due, an attest
that has taken `MaxAttestTime`, and a finished task that `main` waits on are
urgent. `MaxAttestTime` is an assumption on the environment: it covers timer
lateness, the blocking pool's queue and the NSM call. The code has no timeout
on that call: one that never returned would leave `main` at its gate, or a task
and its document as they are, and nothing would end the process. Every bound on
a document's age is therefore for calls of the NSM that return. That attests
fail, for as long as they like, or that a panic ends a task is never assumed away
and never required. `failures` is a history variable.

`ServedDocument` promises that from the first request on every key has a
document, never older than `Bound`, only replaced by a younger one, and that a
stopped enclave does not serve again. `ImplementsServedDocument` is the
refinement, with `Bound` instantiated by `StaleBound`.

`ClientFreshness` adds a client of any configured bound. `Ask` takes the
document the cache holds at that moment, `FreshnessTick` ages it on its way (also
after its enclave is gone), and `Judge` compares it with the bound as the
verifier does; `Lose` is the request timeout. One document travels at a time:
clients do not influence each other or the cache. `unbroken` is a history
variable: no attest of the document's key had failed since its last success.

### EnclaveExecutor

`run` and `seal` await nothing, so a match that a worker took (`TakeMatch`) keeps
it until `EndMatch`; health checks and due refreshes need a worker for a moment.
tokio's scheduler is external and nothing is assumed of its order: it has a queue
per worker, a slot for the task woken last, and stealing, so `queue` is a set and
any idle worker takes any task, also a match that came after a health check. Nor
does an idle worker take a task at once, since the worker that polls the sockets
and timers may be running a match; only when no worker runs a match does time not
pass a task that can run. `GET /ready` gives up after `ProbeDeadline` and the pod
leaves the rotation until a later check is answered. The host's deadline for a
match is not an action, since it changes nothing in the enclave. `met` is a
history variable: the matches that ran while a health check or refresh was in the
queue. A match counts once: `Fresh` lets a name be used again only when no waiting
task has met it, so `Requests` bounds the matches one such task can meet.

How late a refresh runs under load is part of what `AttestationCache` counts in
`MaxAttestTime`: there it is an assumption, and `ControlWaitsOnlyForMatches` says
what it costs, the matches that ran meanwhile, of which no number is certain. A
health check that is missed under load is what `ProbeTimesOut` does in
`MatchExchange` without giving a reason.

### MatchRules, ApiAnswers, MatchHandler

`Evaluate` keeps the order of `evaluate`: LightGuard panic, PCP binding
(`BindCredentialClaim`), embeddings and scores, thresholds, claims. Images and
files are atoms (hashing is injective on them), scores a table over pairs of
images with `NaN` and `NoScore` among its values, thresholds whatever the
requester sends. `Run` and `Sealed` are `run`, `sign` and `seal`. A handler's
stages are its await points: `Open`, `ReadDocument` and `RunAndSeal`; `run` and
`seal` are one step because nothing in them awaits. Handlers at different
requests interleave with each other, with renewals of the document, with the
host's deadline (which answers the client and leaves the handler running) and
with the exit of the process. `Offers` says per request what its requester may
send. `openedAt` is a history variable.

### MatchToken

A score is a natural multiple of the finest float step, so `f64::round`, the
`u32` bound and the narrowing to `f32` are integer arithmetic. `Grain` is the
number of float steps in one fixed-point unit: floats below it are finer than
the encoding, floats above it are coarser. `Verify` rebuilds claims from the
payload and recomputes the digest, and checks the version first. `Alter` changes
one field of the encoded token. `HarnessAccepts` is the comparison the end-to-end
program makes with the verified claims. The signature scheme and Poseidon2 are
external.

### MatchEnvelope

A result is the byte string that encodes it. `ToPadded` writes the two length
bytes, the result and zeros into an envelope of `EnvelopeLen`; `Fits` is both
refusals of `to_padded_cbor` (the conversion to a two-byte length and the room
left); `WellFramed` is what `from_padded_cbor` looks at before it decodes.
`Foreign` lets the client read an envelope some other build wrote, which may be
anything. CBOR is external; what is used of it is that no encoding is a prefix of
another (`EnvelopeAssumption`), and that ciborium reads one item and ignores what
follows: inside its announced length an envelope of another build may carry bytes
after the result that nobody looks at. Past that length it carries zeros only.

### MatchExchange, SealedOperation

A client here is a caller that runs one operation at a time. The methods of
`FaceVerifierClient` take `&self`, so any number of callers may use one, and they
then share its cookie store: `Jar` says which clients share a jar. A request
carries the cookie the jar has when it is sent, and the jar keeps the cookie of
the answer that came last (`KeepCookie`).

An operation goes through `assigning`, `assigned`, `matching` and perhaps
`reassign` and once more; a verified assignment outlives it, and a later operation
may begin with it (`RequestMatch` from `start`). Each HTTP request goes `sent`,
`relayed`, `opened`, `over`, and `opener` names the boot that opened it; an
enclave may come to open a request only after the host gave up on it
(`OpenLate`). A request whose client has left is no longer followed: that an
enclave may still open it is not modelled, and no property speaks of it. The load
balancer is modelled by what the client relies on: a cookie is followed while its
pod is in rotation. `up` and `ready` differ until a `Probe` (`GET /ready`) sees
the difference, and a working but busy enclave may miss one (`ProbeTimesOut`). A
key is the boot that made it. The retry belongs to the caller and is modelled as
`request_match` documents it: once. `lapsed` and `strayed` are history variables:
the clients whose assigned pod exited or left the rotation since the assignment
was routed, and those whose jar another client's answer made name another pod.

`SealedOperation` is an operation as its client is promised it, without cookies,
routes, stages or reasons: seal to a boot it trusts, at most two attempts, at
most one reader, that reader the trusted boot, nothing sealed again once read,
and a result only from a reader; an operation may begin with a boot trusted
earlier (`Resume`). The mapping reads `phase` and `attempts` off
`pc` and `retried`, `trusted` off `assignment`, and `reader` off `call.opener`.

### HostServer

`server` is the gate the process stands at, then `listening`, `draining` or how
it ended; `setting` says of each environment variable whether it is unset, valid
or invalid. A request goes `reading`, `calling`, `answered` (or `abandoned`, when
its client closes the connection). `Reject` is `rejected_body` and the base64
check, `Finish` maps the call's outcome as the route does. A signal whose handler
could not be installed, or that comes before the server listens, kills the
process; the first other one starts the drain. hyper is external: a drain accepts
nothing new and ends when no request is left. `forwarded` is a history variable.

### ClientPolicy

`Config::new` and `from_json` validate, plain deserialization does not;
`NewClient` builds the verifier, which validates again (`Usable`). `PcrConfigOf`
keeps the code's treatment of an index that is listed twice, although `Unique`
refuses such a list: the mutant without `Unique` shows what that check is for.
What a JSON file is parsed to depends on its fields and on its measurements being
hex. `Config` denies unknown fields, and the example in the repository's
`README.md` has one, `allow_debug_measurements`: it is malformed whatever hex is
put in the place of its placeholder. All-zero measurements are refused whatever a
configuration says (`DebugNeverAccepted`). `WithMaxAttestationAge` works on
durations finer than a millisecond and longer than the field. Pontifex's check of
a document is external.

## Runs

| Run | Question | Bounds |
| --- | --- | --- |
| `cache_servable_age` (violation) | Is `MAX_SERVABLE_AGE` the age at which serving ends? | the real 10 and 60 minutes, attests up to 1 |
| `freshness` | How old is a served document, what is the recorded age worth, when does a task give up, does the boot implement `ServedDocument`; does an outage end the process, does a working NSM keep renewing? And which clients refuse a document for its age, after what, and for how long? | durations 2/5/1, journey 1: two refreshes before the limit, all interleavings of both tasks; bounds 5 (the limit itself), 6 (one refresh cycle) and 9 (an outage too), which are the thresholds of the properties |
| `executor` | What do health checks and refreshes wait for, in whatever order tasks are taken, and does a pod that missed some checks come back? | 2 workers and 4 matches of up to 4, twice the deadline of 2: both workers busy, and matches that pass a waiting check |
| `handler` | Are statements and rejections true of their plaintext, does every match that held get its statement, what does the status tell, which document does a statement carry, is every call answered? | 4 images (one unusable, one that scores negative, one `NaN`, one failed comparison), 4 files, 3 thresholds and both LightGuard values at one request, a match at another beside it, 1 renewal |
| `handler_negative` (violation) | Is a negative coefficient unreachable? | one request of the same kinds |
| `token` | Do issued tokens verify, is what verifies what was signed, does the score survive, is any match turned away? | 3-bit significands, exponents 0 to 6, a grain of 4: subgrain, exact and overflowing scores, ties in both roundings |
| `envelope` | Is a result read as it was sent, in an envelope of one size with nothing past the announced length? | bytes of 3 values, so that a two-byte length wraps at 9; an envelope of 7; encodings of 1 to 12 bytes; every envelope another build could send |
| `exchange` | Which boot opens a client's request, does the fleet implement `SealedOperation`, does every operation end? | 1 client, 2 pods of 3 boots, 3 disturbances |
| `exchange_shared` | When is a client told to re-assign? | 2 callers of one `FaceVerifierClient`, 2 pods of 2 boots, 2 disturbances; pods and callers are symmetric |
| `exchange_concurrent` (violation) | Does a match reach the enclave that was assigned, as long as that one stays? | the same 2 callers, 2 pods that never exit or miss a probe |
| `host` | What is the enclave sent, who gets an answer, does the drain end? | 2 requests: one may hold the drain while the other is read, both routes and all bodies, both signals |
| `policy` | What does a client accept and what does it refuse? | 2 images and the all-zero and ill-sized value, policies of up to 2 lists of up to 2 measurements (an index listed twice, an empty list, one usable list beside an unusable one), bounds of 0 to 2 ms |

The bound `StaleBound` is tight: TLC finds a behaviour that reaches it. The cache
is checked together with its clients, who read it and never change it; their
documents multiply its states, hence an attest shorter than the sleep. What an
attest that takes longer does to the ages is a theorem for every duration.
`MaxDisturbances` and `MaxBoots` bound the exits and missed probes; two are enough
for both attempts of an operation to fail, and a probe, a restart or a routing
decision may fall between any two steps. Clients meet in their jar and nowhere
else, since no client changes the fleet: `exchange_shared` asks what that does,
with two callers on one jar. The other properties of the exchange are checked for
one client; all but `OperationsEnd`, and the measure behind that one, are theorems
for any number of clients and any sharing of jars. The handler needs two requests so
that one can be mixed up with another; a second one of every kind would only
repeat the first.

Mutants: for each property of a passing run, one definition is replaced by the
operator whose comment begins "Mutant of", and the run then fails.

### What the violations say

* `README.md` says the process exits once the document is older than
  `MAX_SERVABLE_AGE`. The age is looked at only when an attest fails, so a
  document is served up to one sleep and two attests longer. `StaleBound` is
  what does hold; a client with the default bound of one hour may therefore
  refuse a document, but by `RefusalsFollowFailures` only after an attest failed.
* A test calls a negative coefficient unreachable in the enclave. The only gate
  is the requester's own threshold, so it is reachable; it fails closed as a
  500, which shows in the status.
* A comment in `client.rs` says that the cookie store brings the match to the
  enclave that was assigned. Two callers of one client that ask for their first
  assignment at once get two pods, and the jar keeps the cookie that came last: one
  match then goes to the other's pod, does not open there, and costs its caller the
  one retry (or, on the retry, the operation). `LoneClientsReachTheAssigned` proves
  the comment for callers that share no cookie store, and `ReassignsDeserved` that
  the sharing is the only new reason to be told to re-assign.

## Fairness

* `AttestationCache`: the tokio runtime runs `main` and both tasks, and time
  passes (`RuntimeRuns`). Every call of the NSM returns, with a document or an
  error (`AttestsReturn`): this is an assumption on the environment, which the code
  does not enforce, since `main` and the refresh tasks wait for a call without a
  timeout. Nothing is assumed of what the NSM answers, of panics, or of the server.
* `ClientFreshness`: the same (`EnclaveFairness`), and clients that ask again and
  again and judge or lose each answer, as their request timeout makes sure.
* `EnclaveExecutor`: matches end, time runs on, each task is taken that can run
  while a worker stays idle (fairness per task, in no order), the balancer repeats
  its probes, and the host's deadline for them fires. Matches need not arrive.
* `MatchHandler`: handlers run on. The host's deadline is not assumed to fire.
* `MatchExchange`: clients and load balancer take their steps, a caller that was
  told to re-assign does, and the host's deadline fires (`tokio::time::timeout`).
  No enclave, probe, restart or client timeout is assumed to act, and no client
  to start an operation.
* `HostServer`: a body is read or its client goes away, the deadlines fire, and
  the server returns when its last request is over. No enclave is assumed to
  answer, and no signal to come.

## Proofs

Every theorem holds for all values of the constants its module's assumptions
allow. None of the properties is inductive alone; what each proof adds:

**`AttestationCacheProofs`**, from `DurationAssumption`: `TypeCorrect`,
`StalenessBounded`, `AgeUnderratedBounded`, `OutagesRiddenOut`,
`RenewalsAreYounger` and `Refinement` (the step simulation to `ServedDocument`).
`IInv` adds

* `BootInv`: which keys have a document at which gate, and that the tasks exist
  only once both have one;
* `DocInv(k)`: stamp and `attested_at` differ by at most one attest;
* `TaskInv(k)`: the recorded age in terms of the task's state. A task that
  sleeps has a document whose age was below `MaxServableAge` when the sleep
  began, so age minus timer is bounded; one that attests adds one sleep; and the
  age is at most what its failures in a row can span.

`RenewalsAreYounger` uses that the attest began after the cached document was
stored, so its stamp is later. The refinement maps each step to `Begin`,
`Renew`, `Pass`, `Stop` or a stutter.

Two more facts need an invariant of their own. `OutagesEnd` (from `OutageInv`,
which counts the sleeps of an outage) bounds an outage from the other side: a
task that failed for `MaxServableAge` worth of sleeps in a row has given up, six
failures with the code's durations. `ServableAgeExact` (from `RoundsInv`) says
when the README's reading of `MAX_SERVABLE_AGE` would be right: if attests took no
time and the age were a whole number of sleeps. The time of an attest is thus all
that the run `cache_servable_age` shows.

The same module holds the theorems about the clients (`FreshnessAssumption`):
`GenerousBoundsSuffice`, `RefusalsNeedFailures`. `CompositionImplementsCache` says
that every step of the composition is a step of the cache or none of its business,
so `IInv` is inherited, and `CompositionServesDocuments` that the composition
implements `ServedDocument` as well. `TravelInv` says that a travelling document is
as old as the cache could make it plus its journey, and `PanicInv` bounds the
document of a task that panicked, the one `IInv` says too little of.

**`EnclaveExecutorProofs`**, from `ExecutorAssumption`, for any finite sets of
workers and matches: `ControlWaitsBounded`, `OnlyOverloadLeavesRotation`,
`OverloadIsWorkedOff`. That a task has waited no longer than the matches it met
take does not say what is left of them, so `ExecInv` adds the units of time the
running matches still have to go, as a set of pairs of a match and a number
(`ToRun`): the time waited and the units to run together never exceed what the
matches met are worth (`Waited`). Whenever time passes a waiting task some worker
runs a match, so at least one pair goes (`MatchesTakeTheTime`); pairs are added
only when a match starts, and then the task meets it (`MeetsTheMatch`). No order of
the queue enters the argument. The sets are assumed finite because cardinalities
are compared.

**`MatchHandlerProofs`**, from `RulesAssumption`, `GarbageAssumption` and
`HandlerAssumption`, for any number of concurrent requests: `StatementsEarned`, `HostLearnsOnlyFaults`,
`RejectionsTrue`, `DocumentsAreHandled`, `HeldMatchesGetStatements` (a statement is
issued exactly for the matches that held, so nobody is turned away whose match
did), `TypeCorrect`, and two that no run states: `NoCallEndsUnanswered` and
`CallsAreShort`. Lemmas about one plaintext come first
(`ClaimsAreEarned`, `SuccessIsEarned`, `HeldIsSigned`, `FaultlessIsSealed`,
`ReasonsAreTrue`). `IInv` then ties the requests to them:
`OutcomeOf` says that a finished handler's outcome is what `Run` and `Sealed`
make of its own plaintext and the document it carried, and `ApiOf` that the
caller heard that outcome or the deadline. `DInv` orders the documents: opened
at, carried, cached now.

**`MatchTokenProofs`**, for every float format that `FormatAssumption` describes
(exponents that divide each other, as powers of two do, one fixed-point unit
among them, and a range that reaches the largest fixed-point value; `f32` and
`u32` with the scale 2^30 are one): `IssuedTokensVerifyAlways`,
`VerifiedMeansSigned`, `ScoresSurvive`, `ComparisonsSurvive`, `MatchesAccepted`.
`TInv` says that a signature covers the claims it was made from and that an
accepted token's digest is that of what it is read as. The arithmetic comes
first: rounding is monotone and within half a unit; whatever the narrowing to a
float returns for a fixed-point value lies on the grain (`UnscaledOnGrain`); and
the form of a score is read back exactly (`ReadBackExactly`), because either the
score was on the grain itself or its form is below the floats coarser than it.

**`MatchEnvelopeProofs`**, for every byte width, size and prefix-free encoding:
`EveryResultSurvives`, `EveryResponseHasOneSize`, `PaddingCarriesNothing`.
The last says that past the announced length there is nothing but zeros, and that
in an envelope of this build the result fills that length; it says nothing of
bytes between the result and that length in an envelope of another build.
`LengthComesBack` is the arithmetic of the two bytes, `EnvelopeShape` what
`ToPadded` writes, `RoundTrip` that reading it gives the result back; `IInv` ties
what arrived to what was sent.

**`MatchExchangeProofs`**, for any clients, sharing of jars, pods, boots and
disturbances:
`TypeCorrect`, `OpenedOnlyByTheAttestedBoot`, `OperationsAreSealed` (the step
simulation to `SealedOperation`), `ReassignsDeserved`,
`LoneClientsReachTheAssigned` (its jar to itself, a match reaches the pod that was
assigned as long as that one stays), `ReadOnce` (what an enclave
has read is never sealed again, and trusted boot and reader stay until the
operation ends) and `OperationsAreShort`. `EInv` ties a client's
request to the step of its operation: what is on its way was sealed to the
assignment and read by nobody, what was read was read by the assigned boot, a 200
comes only after that and a demand to re-assign only before. `RInv` says of a
client whose pod and jar were left alone (`c \notin lapsed \cup strayed`) that
jar, assignment and request all name the boot that runs (`Holds`); `JarKept` is
the step of the argument that concerns the other callers.

**`ClientPolicyProofs`**, for every set of policies: `DocumentsMatchInFull`,
`DebugIsRefused`, `OnlyDueRefusals`. `IInv` says that a client's verifier is that
of its configuration and that the configuration is usable; `NothingIsDropped` and
`NothingIsAdded` that a usable list and its map say the same.

**`HostServerProofs`**, for any number of requests: `RejectedNeverForwarded`,
`ServesOnlyConfigured`, `StopsLoseNobody`, `DrainsOnlyShrink`. `FInv` says that a
forwarded request had a whole body and never goes back to being read;
`CallsAreNotRejections` that no outcome of a call becomes a 400 or a 413. `PInv`
relates the gate the process stands at to what it has read of its environment and
to its requests: none before it listens, none under way once it stopped of itself.

### What is only model-checked

Every invariant and every action property of the passing runs is a theorem, and so
is every refinement. The liveness properties are not: fairness is stated with
`ENABLED`, which the prover does not handle. Of seven of the eight the part that is
about the code and not about fairness is proved: something a number or a set bounds gets
smaller with every step that counts, and no step makes it larger again. What is
left to fairness is that the steps are taken.

| Property | Proved of it |
| --- | --- |
| `OutageEndsTheProcess` | `OutageSpendsTheAge`: while attests fail every tick costs a serving enclave some of a bounded time, and it never has less than none |
| `PodsComeBack` | `OverloadIsWorkedOff`: out of the rotation no match joins, and every tick takes a unit of work |
| `CallsAreAnswered` | `CallsAreShort`, `NoCallEndsUnanswered`: at most four steps per request, put off by nobody, and an answer at the end of them |
| `OperationsEnd` | `OperationsAreShort`: at most 31 steps of whichever actor, each of which brings the end nearer |
| `DrainLosesNobody` | `StopsLoseNobody`: a server that has ended of itself has no request under way |
| `DrainEnds` | `DrainsOnlyShrink`: nothing new, and every step of a request brings its answer nearer |
| `DocumentsKeepBeingRenewed` | `RenewalsComeDue`: while attests succeed no task gives up, every tick brings the next document nearer, and only that document resets the clock |
| `RefusalsPass` | nothing of its own: `RefusalsNeedFailures` and `RenewalsComeDue` are what it rests on |

The properties of the runs that expect a violation are false, so there is nothing
to prove. The theorems without a run of their own (`OutagesEnd`, `ReadOnce`,
`BootOnlyAdvances` and the measures above) were checked with TLC on the
instances of these runs before they were proved.

## Not modelled

Cryptography (channel, signatures, COSE, certificate chains), the NSM, ONNX
inference, image decoding, the text of `hashes.json` and CBOR: each is an outcome
the code branches on. hyper's connections and tokio's scheduler appear only as
the host server and the executor rely on them. Left out because they have no
state or control of their own: the serialisation structs of `api-types` and
`enclave-types`, telemetry, formatting of errors, the limb split and curve
arithmetic of the token, and malformed token encodings. The
duplicate-inclusion programs (`di/`) are skeletons: the enclave exits at once and
the host only answers health checks. Of the end-to-end program only its demands
on the verified statement are modelled; the rest drives a deployment. Nix builds,
image measurement and the release workflow are outside the programs.

## Plan

Done: the cache with its clients, the executor, the handler, the token, the
envelope, the exchange with its abstract operation, the host server, the client's
configuration, and the theorems listed in `PROJECT.json`: all invariants, action
properties and refinements of the runs, and the safety halves of the liveness
properties.

Left, in this order:

1. That an outage of less than a given length never takes the enclave down, as a
   bound on time where `OutagesRiddenOut` has one on failures.
2. The safety half of `RefusalsPass`: how long after the NSM came back a document
   that clients refuse can still be on its way.
