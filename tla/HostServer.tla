------------------------------ MODULE HostServer ------------------------------
(***************************************************************************)
(* The host process: what it reads before it listens, the requests its     *)
(* router hands to the routes, the bodies it turns away, its deadlines for *)
(* the enclave, and the drain that the first shutdown signal starts.       *)
(*                                                                         *)
(* Connections, body framing and the graceful shutdown of hyper are        *)
(* external: a drain accepts nothing new and ends when no request is left. *)
(*                                                                         *)
(*   sources  verifier/host/src/main.rs, environment.rs, server.rs,        *)
(*            app_state.rs, enclave.rs, error.rs, routes/                  *)
(***************************************************************************)
EXTENDS ApiAnswers

CONSTANT Requests

VARIABLES
    server,    \* the gate it is at, then "listening", "draining" or how it ended
    setting,   \* per environment variable: "unset", "valid" or "invalid"
    handled,   \* the signals whose handler was installed
    request,   \* per request: its route, its body, its phase and its answer
    forwarded  \* history: the requests the enclave was sent

vars == <<server, setting, handled, request, forwarded>>

-----------------------------------------------------------------------------
Signals == {"interrupt", "terminate"}
Settings == {"APP_ENV", "ENCLAVE_CID", "ENCLAVE_PORT", "PORT"}
MustBeSet == {"ENCLAVE_CID", "ENCLAVE_PORT"}
Booting == {"telemetry", "bind"} \cup Settings

Routes == {"health", "ready", "assignment", "match", "none"}
Bodies == {"sealed", "tooLarge", "notJson", "notBase64"}
NoRequest == [route |-> "none", body |-> "sealed", phase |-> "idle", answer |-> "none"]

Init ==
    /\ server = "telemetry"
    /\ setting \in [Settings -> {"unset", "valid", "invalid"}]
    /\ handled = {}
    /\ request = [r \in Requests |-> NoRequest]
    /\ forwarded = {}

-----------------------------------------------------------------------------
(* The boot of main: telemetry, Environment, AppState, then server::start. *)

Boot(from, to) ==
    /\ server = from
    /\ server' = to
    /\ UNCHANGED <<setting, handled, request, forwarded>>

\* from_env defaults to development and start to port 8000; the enclave's
\* address has no default.
Accepted(name) ==
    \/ setting[name] = "valid"
    \/ setting[name] = "unset" /\ name \notin MustBeSet

ReadSetting(name, next) ==
    /\ server = name
    /\ Boot(name, IF Accepted(name) THEN next ELSE "failed")

\* The signal handlers are installed when the server first runs; each may fail.
Listen ==
    /\ server = "bind"
    /\ server' = "listening"
    /\ handled' \in SUBSET Signals
    /\ UNCHANGED <<setting, request, forwarded>>

Start ==
    \/ Boot("telemetry", "APP_ENV")
    \/ ReadSetting("APP_ENV", "ENCLAVE_CID")
    \/ ReadSetting("ENCLAVE_CID", "ENCLAVE_PORT")
    \/ ReadSetting("ENCLAVE_PORT", "PORT")
    \/ ReadSetting("PORT", "bind")
    \/ Listen
    \/ \E gate \in {"telemetry", "bind"} : Boot(gate, "failed")

-----------------------------------------------------------------------------
(* One request. *)

Serving == server \in {"listening", "draining"}
Active(r) == request[r].phase \in {"reading", "calling"}

Answer(r, answer) ==
    request' = [request EXCEPT ![r].phase = "answered", ![r].answer = answer]

\* What is done for a request changes nothing of the process.
OneRequest == UNCHANGED <<server, setting, handled>>

\* The router picks a handler; only the match route reads a body.
Accept(r, route, body) ==
    /\ server = "listening"
    /\ request[r].phase = "idle"
    /\ request' = [request EXCEPT ![r] = [route |-> route, body |-> body, phase |-> "reading", answer |-> "none"]]
    /\ OneRequest
    /\ UNCHANGED forwarded

\* Answered without the enclave: /health, and paths that have no route.
AnswerAlone(r) ==
    /\ Serving
    /\ request[r].phase = "reading"
    /\ request[r].route \in {"health", "none"}
    /\ Answer(r, IF request[r].route = "health" THEN ApiOk ELSE ApiError(404, "none", FALSE))
    /\ OneRequest
    /\ UNCHANGED forwarded

\* rejected_body, and the base64 check after it.
Rejection(body) ==
    IF body = "tooLarge" THEN ApiError(413, "request_too_large", FALSE)
                         ELSE ApiError(400, "invalid_request", FALSE)

\* Mutant of Refused: base64 is left to the enclave.
RefusedBodies(r) == request[r].route = "match" /\ request[r].body \in {"tooLarge", "notJson"}

Refused(r) == request[r].route = "match" /\ request[r].body # "sealed"

Reject(r) ==
    /\ Serving
    /\ request[r].phase = "reading"
    /\ Refused(r)
    /\ Answer(r, Rejection(request[r].body))
    /\ OneRequest
    /\ UNCHANGED forwarded

Forward(r) ==
    /\ Serving
    /\ request[r].phase = "reading"
    /\ request[r].route \in {"ready", "assignment", "match"}
    /\ ~Refused(r)
    /\ request' = [request EXCEPT ![r].phase = "calling"]
    /\ forwarded' = forwarded \cup {r}
    /\ OneRequest

\* Readiness has a status of its own; the other routes map the outcome.
RouteAnswer(route, outcome) ==
    CASE route = "ready" -> IF outcome = Ok THEN ApiOk ELSE ApiError(503, "none", FALSE)
      [] route = "assignment" -> AssignmentAnswer(outcome)
      [] route = "match" -> MatchAnswer(outcome)

Finish(r, outcome) ==
    /\ Serving
    /\ request[r].phase = "calling"
    /\ Answer(r, RouteAnswer(request[r].route, outcome))
    /\ OneRequest
    /\ UNCHANGED forwarded

EnclaveAnswers(r) == \E outcome \in CallOutcomes \ {TimedOut} : Finish(r, outcome)

\* Mutant of Deadline: match calls have none.
ControlDeadline(r) == request[r].route # "match" /\ Finish(r, TimedOut)

\* CONTROL_REQUEST_TIMEOUT or MATCH_REQUEST_TIMEOUT.
Deadline(r) == Finish(r, TimedOut)

\* The client closes its connection and the handler is dropped.
Abandon(r) ==
    /\ Serving
    /\ Active(r)
    /\ request' = [request EXCEPT ![r].phase = "abandoned"]
    /\ OneRequest
    /\ UNCHANGED forwarded

Handle(r) == AnswerAlone(r) \/ Reject(r) \/ Forward(r)

-----------------------------------------------------------------------------
(* Shutdown. *)

\* A signal without a handler, also during boot, ends the process at once; the
\* first one with a handler starts the drain, and later ones change nothing.
Signal(s) ==
    /\ server \in Booting \cup {"listening", "draining"}
    /\ server' = CASE s \notin handled -> "killed"
                   [] s \in handled -> "draining"
    /\ UNCHANGED <<setting, handled, request, forwarded>>

\* Mutant of Drained: serve is not given the drain.
DrainedAtOnce ==
    /\ server = "draining"
    /\ server' = "stopped"
    /\ UNCHANGED <<setting, handled, request, forwarded>>

\* serve returns when the last request is over.
Drained ==
    /\ server = "draining"
    /\ \A r \in Requests : ~Active(r)
    /\ server' = "stopped"
    /\ UNCHANGED <<setting, handled, request, forwarded>>

\* A process that ended stays so; requests that were in it are lost.
Ended == server \in {"failed", "killed", "stopped"} /\ UNCHANGED vars

-----------------------------------------------------------------------------
Next ==
    \/ Start
    \/ \E r \in Requests :
        \/ \E route \in Routes, body \in Bodies : Accept(r, route, body)
        \/ Handle(r) \/ EnclaveAnswers(r) \/ Deadline(r) \/ Abandon(r)
    \/ \E s \in Signals : Signal(s)
    \/ Drained
    \/ Ended

Spec == Init /\ [][Next]_vars

\* The runtime runs on and the deadlines fire.  That a body arrives or its
\* client goes away is owed to the client's own request_timeout: the host sets no
\* limit on how long it reads.
Fairness ==
    /\ \A r \in Requests :
        /\ WF_vars(request[r].phase = "reading" /\ (Handle(r) \/ Abandon(r)))
        /\ WF_vars(Deadline(r))
    /\ WF_vars(Drained)

FairSpec == Spec /\ Fairness

-----------------------------------------------------------------------------
\* A 400 or a 413 means the enclave was sent nothing ("nothing was forwarded",
\* README), and what the enclave is sent came in a whole body.
RejectedIsNotForwarded ==
    \A r \in Requests :
        /\ request[r].phase = "answered" /\ request[r].answer.status \in {400, 413} => r \notin forwarded
        /\ r \in forwarded /\ request[r].route = "match" => request[r].body = "sealed"

\* An orderly stop loses nobody: whatever the enclave does and however many
\* signals come, a request the host accepted is answered, unless its client goes
\* away or a signal without a handler kills the process (with_graceful_shutdown).
DrainLosesNobody ==
    \A r \in Requests : Active(r) ~> request[r].phase \in {"answered", "abandoned"} \/ server = "killed"

\* A drain comes to an end although the enclave may answer nobody.
DrainEnds == server = "draining" ~> server \in {"stopped", "killed"}
=============================================================================
