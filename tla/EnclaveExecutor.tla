--------------------------- MODULE EnclaveExecutor ---------------------------
(***************************************************************************)
(* The worker threads of the enclave's runtime.  A match handler opens,    *)
(* evaluates, signs and seals without giving its worker back, so health    *)
(* checks, and the wake-ups of the refresh tasks, may wait until a worker  *)
(* is free.  The host may give up on a match at its deadline, which ends   *)
(* nothing here: the handler runs on, and the model needs no action for    *)
(* it.  A missed health check takes the pod out of the rotation, and then  *)
(* no more matches come.                                                   *)
(*                                                                         *)
(* The runtime (tokio, multi-threaded) and the server that starts a task   *)
(* per call (pontifex) are external, and little is assumed of them.  The   *)
(* runtime keeps no order: it has a queue per worker, a slot for the task  *)
(* woken last, and stealing, so any idle worker takes any task.  Nor is a  *)
(* task taken because a worker is idle: the worker that polls the sockets  *)
(* and timers may be running a match.  Only when no worker runs a match is *)
(* a task that can run taken before time passes.                           *)
(*                                                                         *)
(*   sources  verifier/enclave/src/main.rs, server.rs, routes/,            *)
(*            face_engine.rs; verifier/host/src/enclave.rs,                *)
(*            routes/readiness.rs                                          *)
(***************************************************************************)
EXTENDS Integers, FiniteSets

CONSTANTS
    Workers,
    Requests,       \* bound: matches at the enclave, or met by one waiting control task
    MatchTime,      \* environment: longest time of a match
    ProbeDeadline,  \* CONTROL_REQUEST_TIMEOUT
    NoTask

\* The tasks that are not matches: a health check, and a refresh that goes on
\* after its sleep or its attest.
Control == {"probe", "wake"}

ASSUME ExecutorAssumption ==
    /\ {MatchTime, ProbeDeadline} \subseteq Nat \ {0}
    /\ IsFiniteSet(Workers) /\ IsFiniteSet(Requests)
    /\ NoTask \notin Requests
    /\ Control \cap (Requests \cup {NoTask}) = {}

VARIABLES
    queue,      \* the tasks that can run: matches, "probe", "wake"
    work,       \* per worker: the match it runs, or NoTask
    left,       \* per worker: time its match still takes
    age,        \* per control task: for how long it has been in the queue
    met,        \* per control task: the matches that ran meanwhile (history)
    probing,    \* the host waits for the enclave's health
    inRotation  \* the balancer sends matches here

vars == <<queue, work, left, age, met, probing, inRotation>>
hostVars == <<probing, inRotation>>
controlVars == <<age, met>>

-----------------------------------------------------------------------------
Idle(w) == work[w] = NoTask
Running == {m \in Requests : \E w \in Workers : work[w] = m}
AtEnclave == (queue \cap Requests) \cup Running

Init ==
    /\ queue = {}
    /\ work = [w \in Workers |-> NoTask]
    /\ left = [w \in Workers |-> 0]
    /\ age = [t \in Control |-> 0]
    /\ met = [t \in Control |-> {}]
    /\ probing = FALSE /\ inRotation = TRUE

-----------------------------------------------------------------------------
(* The host. *)

\* A match that is not at the enclave, nor one a waiting control task has met.
Fresh(m) == m \notin AtEnclave /\ \A t \in Control : m \notin met[t]

\* Mutant of Arrive: matches are sent to a pod that is out of the rotation.
ArriveRegardless(m) ==
    /\ Fresh(m)
    /\ queue' = queue \cup {m}
    /\ UNCHANGED <<work, left, controlVars, hostVars>>

\* run_match, for a request that reached this pod.
Arrive(m) ==
    /\ inRotation
    /\ Fresh(m)
    /\ queue' = queue \cup {m}
    /\ UNCHANGED <<work, left, controlVars, hostVars>>

\* A control task can run: it meets the matches that hold a worker now.
Enqueue(t) ==
    /\ queue' = queue \cup {t}
    /\ met' = [met EXCEPT ![t] = Running]
    /\ age' = [age EXCEPT ![t] = 0]

\* It is out of the queue.
Leaves(t) ==
    /\ queue' = queue \ {t}
    /\ met' = [met EXCEPT ![t] = {}]
    /\ age' = [age EXCEPT ![t] = 0]

\* GET /ready asks the enclave for its health.
Probe ==
    /\ ~probing
    /\ probing' = TRUE
    /\ Enqueue("probe")
    /\ UNCHANGED <<work, left, inRotation>>

\* No answer within the deadline: 503, and the balancer takes the pod out.  The
\* task that would still answer has nobody to answer to, and takes no time.
ProbeMissed ==
    /\ probing
    /\ age["probe"] = ProbeDeadline
    /\ probing' = FALSE
    /\ inRotation' = FALSE
    /\ Leaves("probe")
    /\ UNCHANGED <<work, left>>

-----------------------------------------------------------------------------
(* The enclave. *)

\* A match holds its worker to the end: run and seal await nothing.
TakeMatch(w, m) ==
    /\ Idle(w)
    /\ m \in queue
    /\ queue' = queue \ {m}
    /\ work' = [work EXCEPT ![w] = m]
    /\ left' \in {[left EXCEPT ![w] = t] : t \in 1 .. MatchTime}
    /\ met' = [t \in Control |-> IF t \in queue THEN met[t] \cup {m} ELSE met[t]]
    /\ UNCHANGED <<age, hostVars>>

\* Sealed and answered, to a host that may have given up.
EndMatch(w) ==
    /\ ~Idle(w)
    /\ left[w] = 0
    /\ work' = [work EXCEPT ![w] = NoTask]
    /\ UNCHANGED <<queue, left, controlVars, hostVars>>

\* Health takes no time: Ok(()), and the pod is in the rotation.
TakeProbe(w) ==
    /\ Idle(w)
    /\ "probe" \in queue
    /\ Leaves("probe")
    /\ probing' = FALSE
    /\ inRotation' = TRUE
    /\ UNCHANGED <<work, left>>

\* A refresh task's sleep or attest is over.
RefreshDue ==
    /\ "wake" \notin queue
    /\ Enqueue("wake")
    /\ UNCHANGED <<work, left, hostVars>>

\* Mutant of TakeWake: the attest runs on the worker, without spawn_blocking.
TakeWakeBlocking(w) ==
    /\ Idle(w)
    /\ "wake" \in queue
    /\ Leaves("wake")
    /\ work' = [work EXCEPT ![w] = "wake"]
    /\ left' \in {[left EXCEPT ![w] = t] : t \in 1 .. MatchTime}
    /\ UNCHANGED hostVars

\* It takes no time: the attest is handed to a thread that is not a worker.
TakeWake(w) ==
    /\ Idle(w)
    /\ "wake" \in queue
    /\ Leaves("wake")
    /\ UNCHANGED <<work, left, hostVars>>

Work(w) == (\E m \in Requests : TakeMatch(w, m)) \/ EndMatch(w) \/ TakeProbe(w) \/ TakeWake(w)

-----------------------------------------------------------------------------
\* Deadlines and ends of matches are urgent, and tasks when every worker is idle.
Tick ==
    /\ \A w \in Workers : ~Idle(w) => left[w] > 0
    /\ queue = {} \/ \E w \in Workers : ~Idle(w)
    /\ age["probe"] < ProbeDeadline
    /\ left' = [w \in Workers |-> IF Idle(w) THEN 0 ELSE left[w] - 1]
    /\ age' = [t \in Control |-> IF t \in queue THEN age[t] + 1 ELSE 0]
    /\ UNCHANGED <<queue, work, met, probing, inRotation>>

Next ==
    \/ \E m \in Requests : Arrive(m)
    \/ Probe \/ ProbeMissed \/ RefreshDue
    \/ \E w \in Workers : Work(w)
    \/ Tick

Spec == Init /\ [][Next]_vars

\* Matches end, a task for which a worker stays idle is taken, time runs on, the
\* host's deadline fires, and probes are repeated.
Fairness ==
    /\ \A w \in Workers : WF_vars(EndMatch(w))
    /\ \A m \in Requests : WF_vars(\E w \in Workers : TakeMatch(w, m))
    /\ WF_vars(\E w \in Workers : TakeProbe(w))
    /\ WF_vars(\E w \in Workers : TakeWake(w))
    /\ WF_vars(Probe) /\ WF_vars(ProbeMissed) /\ WF_vars(Tick)

FairSpec == Spec /\ Fairness

-----------------------------------------------------------------------------
\* A health check or a refresh waits for nothing but matches, and for no match
\* longer than that match takes, in whatever order the runtime takes its tasks:
\* the refresh itself holds no worker while it attests.  So a health check is
\* missed, and the pod leaves the rotation, only when matches took up the whole
\* deadline.
ControlWaitsOnlyForMatches ==
    \A t \in Control : age[t] <= MatchTime * Cardinality(met[t])

\* A pod that missed health checks under load comes back.
PodsComeBack == ~inRotation ~> inRotation
=============================================================================
