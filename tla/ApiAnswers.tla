----------------------------- MODULE ApiAnswers -----------------------------
(***************************************************************************)
(* The answers of the host's API: what a call to the enclave ends in, how  *)
(* the host maps that to a status, a code and a retry flag on each route,  *)
(* and the error the client makes of an answer that is not a success.      *)
(*                                                                         *)
(*   sources  verifier/enclave-types/src/error.rs; verifier/host/src/      *)
(*            enclave.rs, error.rs; verifier/client/src/client.rs          *)
(***************************************************************************)
EXTENDS Integers

(* The host: enclave::Error and the API answers made of it. *)

EnclaveErrors == {"NotReady", "SecureModuleNotInitialized", "AttestationFailed",
                  "RequestNotOpened", "Internal"}

\* What a call to the enclave ends in: its answer, an operation error, a
\* transport failure (also when the handler was dropped), or the deadline.
Ok == [kind |-> "ok"]
Operation(error) == [kind |-> "operation", error |-> error]
Transport == [kind |-> "transport"]
TimedOut == [kind |-> "timeout"]
CallOutcomes == {Ok, Transport, TimedOut} \cup {Operation(e) : e \in EnclaveErrors}

ApiError(status, code, allowRetry) ==
    [status |-> status, code |-> code, allowRetry |-> allowRetry]
ApiOk == [status |-> 200, code |-> "ok", allowRetry |-> FALSE]

EnclaveUnreachable(outcome) ==
    IF outcome = TimedOut THEN ApiError(504, "enclave_timeout", TRUE)
                          ELSE ApiError(503, "enclave_unreachable", TRUE)
EnclaveNotReady == ApiError(503, "enclave_not_ready", TRUE)

\* Mutant of MatchAnswer: an unopened request gets a status of its own.
MatchAnswerGone(outcome) ==
    CASE outcome = Ok -> ApiOk
      [] outcome \in {TimedOut, Transport} -> EnclaveUnreachable(outcome)
      [] outcome = Operation("RequestNotOpened") -> ApiError(410, "reassign_required", TRUE)
      [] outcome = Operation("Internal") -> ApiError(500, "internal_error", TRUE)
      [] OTHER -> EnclaveNotReady

\* Mutant of MatchAnswer: any fault of the enclave makes the client assign again.
MatchAnswerReassigns(outcome) ==
    CASE outcome = Ok -> ApiOk
      [] outcome \in {TimedOut, Transport} -> EnclaveUnreachable(outcome)
      [] OTHER -> ApiError(409, "reassign_required", TRUE)

\* AppError::enclave_match, and 200 when the enclave answered.
MatchAnswer(outcome) ==
    CASE outcome = Ok -> ApiOk
      [] outcome \in {TimedOut, Transport} -> EnclaveUnreachable(outcome)
      [] outcome = Operation("RequestNotOpened") -> ApiError(409, "reassign_required", TRUE)
      [] outcome = Operation("Internal") -> ApiError(500, "internal_error", TRUE)
      [] OTHER -> EnclaveNotReady

\* AppError::enclave_assignment: a match-path error here is a host bug.
AssignmentAnswer(outcome) ==
    CASE outcome = Ok -> ApiOk
      [] outcome \in {TimedOut, Transport} -> EnclaveUnreachable(outcome)
      [] outcome \in {Operation("RequestNotOpened"), Operation("Internal")} ->
            ApiError(500, "internal_error", FALSE)
      [] OTHER -> EnclaveNotReady

\* The call outcome the host sees for a handler's outcome.
CallOutcome(answer) ==
    CASE answer.kind = "sealed" -> Ok
      [] answer.kind = "error" -> Operation(answer.error)
      [] answer.kind = "dropped" -> Transport

-----------------------------------------------------------------------------
(* The client: api_error. *)

\* The error a caller of request_match sees for an answer other than 200; the
\* balancer's own answers have no error envelope.
ClientError(answer) ==
    IF answer.code = "none" THEN "Status"
    ELSE IF answer.code = "reassign_required" THEN "ReassignRequired" ELSE "Api"
=============================================================================
