--------------------------- MODULE HostServerProofs ---------------------------
(***************************************************************************)
(* Proofs about the host server for any number of requests: a body that is *)
(* turned away was never sent to the enclave, nothing is accepted before   *)
(* the whole environment was, and a drain only ever shrinks and leaves no  *)
(* request behind, which is what its end rests on.                         *)
(***************************************************************************)
EXTENDS HostServer, TLAPS

\* The outcomes of a call are told apart by their kind.
LEMMA OutcomesDiffer ==
    /\ Ok # TimedOut /\ Ok # Transport /\ TimedOut # Transport
    /\ \A e : Operation(e) \notin {Ok, TimedOut, Transport}
BY DEF Ok, TimedOut, Transport, Operation

Codes == {"ok", "none", "enclave_timeout", "enclave_unreachable", "enclave_not_ready",
          "reassign_required", "internal_error", "request_too_large", "invalid_request"}
Answers == [status : Int, code : Codes, allowRetry : BOOLEAN]

\* No route makes a 400 or a 413 of what a call ended in.
LEMMA CallsAreNotRejections ==
    ASSUME NEW route \in {"ready", "assignment", "match"}, NEW outcome \in CallOutcomes
    PROVE  /\ RouteAnswer(route, outcome) \in Answers
           /\ RouteAnswer(route, outcome).status \notin {400, 413}
<1>1. outcome \in {Ok, Transport, TimedOut} \/ \E e \in EnclaveErrors : outcome = Operation(e)
  BY DEF CallOutcomes
<1>2. MatchAnswer(outcome) \in Answers /\ MatchAnswer(outcome).status \notin {400, 413}
  BY <1>1 DEF MatchAnswer, ApiOk, ApiError, EnclaveUnreachable, EnclaveNotReady, Answers, Codes
<1>3. AssignmentAnswer(outcome) \in Answers /\ AssignmentAnswer(outcome).status \notin {400, 413}
  BY <1>1 DEF AssignmentAnswer, ApiOk, ApiError, EnclaveUnreachable, EnclaveNotReady, Answers, Codes
<1>4. CASE route = "ready"
  <2>1. RouteAnswer(route, outcome) = IF outcome = Ok THEN ApiOk ELSE ApiError(503, "none", FALSE)
    BY <1>4 DEF RouteAnswer
  <2>. QED BY <2>1 DEF ApiOk, ApiError, Answers, Codes
<1>5. CASE route = "assignment"
  <2>1. RouteAnswer(route, outcome) = AssignmentAnswer(outcome)
    BY <1>5 DEF RouteAnswer
  <2>. QED BY <2>1, <1>3
<1>6. CASE route = "match"
  <2>1. RouteAnswer(route, outcome) = MatchAnswer(outcome)
    BY <1>6 DEF RouteAnswer
  <2>. QED BY <2>1, <1>2
<1>. QED BY <1>4, <1>5, <1>6

-----------------------------------------------------------------------------
(* The invariant. *)

Phases == {"idle", "reading", "calling", "answered", "abandoned"}

Shape == request \in [Requests -> [route : Routes, body : Bodies, phase : Phases,
                                   answer : {"none"} \cup Answers]]

\* A request the enclave was sent is past its body; one that waits was sent.
ForwardedOf(r) ==
    /\ r \in forwarded =>
        /\ request[r].phase \in {"calling", "answered", "abandoned"}
        /\ ~Refused(r)
        /\ request[r].route \in {"ready", "assignment", "match"}
        /\ request[r].phase = "answered" => request[r].answer.status \notin {400, 413}
    /\ request[r].phase = "calling" => r \in forwarded

FInv == Shape /\ \A r \in Requests : ForwardedOf(r)

\* One request moves on; its route and body stay.
Moves(r, phase, answer) ==
    request' = [q \in Requests |->
        IF q = r THEN [route |-> request[r].route, body |-> request[r].body,
                       phase |-> phase, answer |-> answer]
                 ELSE request[q]]

LEMMA AnswerMoves ==
    ASSUME FInv, NEW r \in Requests, NEW answer, Answer(r, answer)
    PROVE  Moves(r, "answered", answer)
<1>1. request' = [q \in Requests |-> IF q = r THEN request'[r] ELSE request[q]]
  BY DEF FInv, Shape, Answer
<1>2. request'[r] = [route |-> request[r].route, body |-> request[r].body,
                     phase |-> "answered", answer |-> answer]
  BY DEF FInv, Shape, Answer
<1>. QED BY <1>1, <1>2 DEF Moves

LEMMA PhaseMoves ==
    ASSUME FInv, NEW r \in Requests, NEW phase, request' = [request EXCEPT ![r].phase = phase]
    PROVE  Moves(r, phase, request[r].answer)
<1>1. request' = [q \in Requests |-> IF q = r THEN request'[r] ELSE request[q]]
  BY DEF FInv, Shape
<1>2. request'[r] = [route |-> request[r].route, body |-> request[r].body,
                     phase |-> phase, answer |-> request[r].answer]
  BY DEF FInv, Shape
<1>. QED BY <1>1, <1>2 DEF Moves

LEMMA OneMoves ==
    ASSUME FInv, NEW r \in Requests, NEW phase \in Phases, NEW answer \in {"none"} \cup Answers,
           Moves(r, phase, answer),
           forwarded' \in {forwarded, forwarded \cup {r}},
           r \in forwarded' =>
                /\ phase \in {"calling", "answered", "abandoned"}
                /\ ~Refused(r)
                /\ request[r].route \in {"ready", "assignment", "match"}
                /\ phase = "answered" => answer.status \notin {400, 413},
           phase = "calling" => r \in forwarded'
    PROVE  FInv'
<1>1. Shape'
  BY DEF FInv, Shape, Moves
<1>2. ASSUME NEW q \in Requests PROVE ForwardedOf(q)'
  <2>1. CASE q = r
    BY <2>1 DEF ForwardedOf, Refused, Moves
  <2>2. CASE q # r
    <3>1. request'[q] = request[q] /\ (q \in forwarded' <=> q \in forwarded)
      BY <2>2 DEF Moves
    <3>. QED BY <3>1 DEF FInv, ForwardedOf, Refused
  <2>. QED BY <2>1, <2>2
<1>. QED BY <1>1, <1>2 DEF FInv

LEMMA ForwardedInit == Init => FInv
BY DEF Init, FInv, Shape, ForwardedOf, NoRequest, Phases, Routes, Bodies

\* A process that does nothing for a request keeps the invariant.
LEMMA ProcessStep == FInv /\ UNCHANGED <<request, forwarded>> => FInv'
BY DEF FInv, Shape, ForwardedOf, Refused

LEMMA RequestStep ==
    ASSUME FInv, NEW r \in Requests
    PROVE  /\ \A route \in Routes, body \in Bodies : Accept(r, route, body) => FInv'
           /\ Handle(r) => FInv'
           /\ (EnclaveAnswers(r) \/ Deadline(r)) => FInv'
           /\ Abandon(r) => FInv'
<1>1. ASSUME NEW route \in Routes, NEW body \in Bodies, Accept(r, route, body) PROVE FInv'
  <2>1. r \notin forwarded
    BY <1>1 DEF Accept, FInv, ForwardedOf
  <2>2. request' = [q \in Requests |->
            IF q = r THEN [route |-> route, body |-> body, phase |-> "reading", answer |-> "none"]
                     ELSE request[q]]
    BY <1>1 DEF Accept, FInv, Shape
  <2>3. Shape'
    BY <2>2 DEF FInv, Shape, Phases
  <2>4. ASSUME NEW q \in Requests PROVE ForwardedOf(q)'
    BY <1>1, <2>1, <2>2 DEF Accept, FInv, ForwardedOf, Refused
  <2>. QED BY <2>3, <2>4 DEF FInv
<1>2. ASSUME AnswerAlone(r) PROVE FInv'
  <2>1. r \notin forwarded /\ UNCHANGED forwarded
    BY <1>2 DEF AnswerAlone, FInv, ForwardedOf
  <2>. DEFINE answer == IF request[r].route = "health" THEN ApiOk ELSE ApiError(404, "none", FALSE)
  <2>2. answer \in Answers
    BY DEF ApiOk, ApiError, Answers, Codes
  <2>3. Moves(r, "answered", answer)
    BY <1>2, AnswerMoves DEF AnswerAlone
  <2>. HIDE DEF answer
  <2>. QED BY <2>1, <2>2, <2>3, OneMoves DEF Phases
<1>3. ASSUME Reject(r) PROVE FInv'
  <2>1. r \notin forwarded /\ UNCHANGED forwarded
    BY <1>3 DEF Reject, FInv, ForwardedOf
  <2>. DEFINE answer == Rejection(request[r].body)
  <2>2. answer \in Answers
    BY DEF Rejection, ApiError, Answers, Codes
  <2>3. Moves(r, "answered", answer)
    BY <1>3, AnswerMoves DEF Reject
  <2>. HIDE DEF answer
  <2>. QED BY <2>1, <2>2, <2>3, OneMoves DEF Phases
<1>4. ASSUME Forward(r) PROVE FInv'
  <2>1. Moves(r, "calling", request[r].answer) /\ request[r].answer \in {"none"} \cup Answers
    BY <1>4, PhaseMoves DEF Forward, FInv, Shape
  <2>2. /\ forwarded' = forwarded \cup {r} /\ ~Refused(r)
        /\ request[r].route \in {"ready", "assignment", "match"}
    BY <1>4 DEF Forward
  <2>. QED BY <2>1, <2>2, OneMoves DEF Phases
<1>5. ASSUME NEW outcome \in CallOutcomes, Finish(r, outcome) PROVE FInv'
  <2>1. /\ r \in forwarded /\ UNCHANGED forwarded /\ ~Refused(r)
        /\ request[r].route \in {"ready", "assignment", "match"}
    BY <1>5 DEF Finish, FInv, ForwardedOf
  <2>. DEFINE answer == RouteAnswer(request[r].route, outcome)
  <2>2. answer \in Answers /\ answer.status \notin {400, 413}
    BY <2>1, CallsAreNotRejections
  <2>3. Moves(r, "answered", answer)
    BY <1>5, AnswerMoves DEF Finish
  <2>. HIDE DEF answer
  <2>. QED BY <2>1, <2>2, <2>3, OneMoves DEF Phases
<1>6. ASSUME Abandon(r) PROVE FInv'
  <2>1. Moves(r, "abandoned", request[r].answer) /\ request[r].answer \in {"none"} \cup Answers
    BY <1>6, PhaseMoves DEF Abandon, FInv, Shape
  <2>2. UNCHANGED forwarded /\ request[r].phase \in {"reading", "calling"}
    BY <1>6 DEF Abandon, Active
  <2>3. r \in forwarded => ~Refused(r) /\ request[r].route \in {"ready", "assignment", "match"}
    BY DEF FInv, ForwardedOf
  <2>. QED BY <2>1, <2>2, <2>3, OneMoves DEF Phases
<1>. QED BY <1>1, <1>2, <1>3, <1>4, <1>5, <1>6 DEF Handle, EnclaveAnswers, Deadline, CallOutcomes

LEMMA ForwardedStep == FInv /\ [Next]_vars => FInv'
<1>. SUFFICES ASSUME FInv, [Next]_vars PROVE FInv'
  OBVIOUS
<1>1. CASE Start \/ (\E s \in Signals : Signal(s)) \/ Drained \/ Ended \/ UNCHANGED vars
  BY <1>1, ProcessStep DEF Start, Boot, ReadSetting, Listen, Signal, Drained, Ended, vars
<1>2. ASSUME NEW r \in Requests,
             \/ \E route \in Routes, body \in Bodies : Accept(r, route, body)
             \/ Handle(r) \/ EnclaveAnswers(r) \/ Deadline(r) \/ Abandon(r)
      PROVE  FInv'
  BY <1>2, RequestStep
<1>. QED BY <1>1, <1>2 DEF Next

LEMMA ForwardedAlways == Spec => []FInv
BY ForwardedInit, ForwardedStep, PTL DEF Spec

\* A request answered with 400 or 413 was never sent to the enclave, and what
\* was sent came in a whole body, however requests, signals, deadlines and the
\* enclave's answers interleave.
THEOREM RejectedNeverForwarded == Spec => []RejectedIsNotForwarded
<1>1. FInv => RejectedIsNotForwarded
  BY DEF FInv, ForwardedOf, RejectedIsNotForwarded, Refused
<1>. QED BY <1>1, ForwardedAlways, PTL

-----------------------------------------------------------------------------
(* The process and its requests: boot, drain and stop. *)

Ends == {"failed", "killed", "stopped"}

\* What main has read when it stands at a gate, and ever after.
ReadBefore(gate) ==
    CASE gate = "ENCLAVE_CID" -> {"APP_ENV"}
      [] gate = "ENCLAVE_PORT" -> {"APP_ENV", "ENCLAVE_CID"}
      [] gate = "PORT" -> {"APP_ENV", "ENCLAVE_CID", "ENCLAVE_PORT"}
      [] gate \in {"bind", "listening", "draining", "stopped"} -> Settings
      [] OTHER -> {}

Untouched == \A r \in Requests : request[r].phase = "idle"
Configured == \A name \in Settings : Accepted(name)

PInv ==
    /\ server \in Booting \cup {"listening", "draining"} \cup Ends
    /\ \A name \in ReadBefore(server) : Accepted(name)
    /\ server \in Booting \cup {"failed"} => Untouched /\ handled = {}
    /\ Untouched \/ Configured
    /\ server = "stopped" => \A r \in Requests : ~Active(r)

\* The steps of a request from its body to its answer.
WorkLeft(r) == CASE request[r].phase = "reading" -> 2
                 [] request[r].phase = "calling" -> 1
                 [] OTHER -> 0

RequestMoves(r) ==
    \/ \E route \in Routes, body \in Bodies : Accept(r, route, body)
    \/ Handle(r) \/ EnclaveAnswers(r) \/ Deadline(r) \/ Abandon(r)

ProcessMoves == Start \/ (\E s \in Signals : Signal(s)) \/ Drained \/ Ended \/ UNCHANGED vars

LEMMA SettingsStay == ASSUME Next \/ UNCHANGED vars PROVE \A name : Accepted(name)' <=> Accepted(name)
BY DEF Next, Start, Boot, ReadSetting, Listen, Accept, Handle, AnswerAlone, Reject, Forward,
   EnclaveAnswers, Deadline, Finish, Abandon, OneRequest, Signal, Drained, Ended, vars, Accepted

LEMMA ProcessInit == Init => PInv
BY DEF Init, PInv, Booting, Settings, ReadBefore, Untouched, NoRequest

\* A step of a request leaves the process as it is, which serves; other requests
\* stay, and after the signal this one comes nearer its answer.
LEMMA OneRequestMoves ==
    ASSUME FInv, NEW r \in Requests, RequestMoves(r)
    PROVE  /\ UNCHANGED <<server, handled>> /\ server \in {"listening", "draining"}
           /\ \A q \in Requests \ {r} : request'[q] = request[q]
           /\ server = "draining" => WorkLeft(r)' < WorkLeft(r)
<1>0. request \in [Requests -> [route : Routes, body : Bodies, phase : Phases,
                               answer : {"none"} \cup Answers]]
  BY DEF FInv, Shape
<1>1. /\ UNCHANGED <<server, handled>> /\ server \in {"listening", "draining"}
  BY DEF RequestMoves, Accept, Handle, AnswerAlone, Reject, Forward, EnclaveAnswers, Deadline,
     Finish, Abandon, OneRequest, Serving
<1>2. \A q \in Requests \ {r} : request'[q] = request[q]
  BY <1>0 DEF RequestMoves, Accept, Handle, AnswerAlone, Reject, Forward, EnclaveAnswers,
     Deadline, Finish, Abandon, Answer
<1>3. ASSUME server = "draining" PROVE WorkLeft(r)' < WorkLeft(r)
  <2>1. \/ request[r].phase = "reading" /\ request'[r].phase \in {"calling", "answered", "abandoned"}
        \/ request[r].phase = "calling" /\ request'[r].phase \in {"answered", "abandoned"}
    <3>0. ASSUME NEW answer, Answer(r, answer) PROVE request'[r].phase = "answered"
      BY <3>0, AnswerMoves DEF Moves
    <3>1. CASE AnswerAlone(r) \/ Reject(r)
      BY <3>0, <3>1 DEF AnswerAlone, Reject
    <3>2. CASE Forward(r) \/ Abandon(r)
      BY <1>0, <3>2 DEF Forward, Abandon, Active
    <3>3. CASE \E outcome \in CallOutcomes : Finish(r, outcome)
      BY <3>0, <3>3 DEF Finish
    <3>. QED BY <1>3, <3>1, <3>2, <3>3 DEF RequestMoves, Accept, Handle, EnclaveAnswers, Deadline,
       CallOutcomes
  <2>. QED BY <2>1 DEF WorkLeft
<1>. QED BY <1>1, <1>2, <1>3

LEMMA ProcessStepKeeps == FInv /\ PInv /\ [Next]_vars => PInv'
<1>. SUFFICES ASSUME FInv, PInv, [Next]_vars PROVE PInv'
  OBVIOUS
<1>0. \A name : Accepted(name)' <=> Accepted(name)
  BY SettingsStay
<1>. DEFINE Kept == UNCHANGED <<request, handled>>
<1>a. ASSUME UNCHANGED request
      PROVE  Untouched' = Untouched /\ \A r \in Requests : Active(r)' <=> Active(r)
  BY <1>a DEF Untouched, Active
<1>b. Configured' <=> Configured
  BY <1>0 DEF Configured
<1>1. CASE Listen
  <2>1. UNCHANGED request /\ server = "bind" /\ server' = "listening"
    BY <1>1 DEF Listen
  <2>. QED BY <1>0, <1>a, <1>b, <2>1 DEF PInv, ReadBefore, Booting, Ends, Settings
<1>2. CASE Start /\ ~Listen
  <2>1. /\ Kept /\ server \in Booting
        /\ \/ server' = "failed"
           \/ server = "telemetry" /\ server' = "APP_ENV"
           \/ server = "APP_ENV" /\ server' = "ENCLAVE_CID" /\ Accepted("APP_ENV")
           \/ server = "ENCLAVE_CID" /\ server' = "ENCLAVE_PORT" /\ Accepted("ENCLAVE_CID")
           \/ server = "ENCLAVE_PORT" /\ server' = "PORT" /\ Accepted("ENCLAVE_PORT")
           \/ server = "PORT" /\ server' = "bind" /\ Accepted("PORT")
    BY <1>2 DEF Start, Boot, ReadSetting, Booting, Settings
  <2>2. server' \in Booting \cup {"failed"}
    BY <2>1 DEF Booting, Settings
  <2>3. \A name \in ReadBefore(server') : Accepted(name)
    BY <2>1 DEF PInv, ReadBefore, Settings
  <2>. QED BY <1>0, <1>a, <1>b, <2>1, <2>2, <2>3 DEF PInv, Ends, Booting, Settings
<1>3. CASE \E s \in Signals : Signal(s)
  <2>1. /\ Kept /\ server \in Booting \cup {"listening", "draining"}
        /\ server' = "killed" \/ (server' = "draining" /\ handled # {})
    <3>1. PICK s \in Signals : Signal(s)
      BY <1>3
    <3>2. server' = IF s \in handled THEN "draining" ELSE "killed"
      BY <3>1 DEF Signal
    <3>. QED BY <3>1, <3>2 DEF Signal
  <2>2. server' = "draining" => server \in {"listening", "draining"}
    BY <2>1 DEF PInv
  <2>3. \A name \in ReadBefore(server') : Accepted(name)
    BY <2>1, <2>2 DEF PInv, ReadBefore
  <2>. QED BY <1>0, <1>a, <1>b, <2>1, <2>2, <2>3 DEF PInv, Ends, Booting, Settings
<1>4. CASE Drained
  BY <1>0, <1>4, <1>a, <1>b DEF Drained, PInv, ReadBefore, Ends, Booting, Settings
<1>5. CASE Ended \/ UNCHANGED vars
  <2>1. Kept /\ UNCHANGED server
    BY <1>5 DEF Ended, vars
  <2>. QED BY <1>0, <1>a, <1>b, <2>1 DEF PInv
<1>6. ASSUME NEW r \in Requests, RequestMoves(r) PROVE PInv'
  <2>1. UNCHANGED <<server, handled>> /\ server \in {"listening", "draining"}
    BY <1>6, OneRequestMoves
  <2>2. Configured
    BY <2>1 DEF PInv, ReadBefore, Configured
  <2>. QED BY <1>0, <1>b, <2>1, <2>2 DEF PInv, Ends, Booting, Settings
<1>. QED BY <1>1, <1>2, <1>3, <1>4, <1>5, <1>6 DEF Next, RequestMoves

LEMMA ProcessAlways == Spec => []PInv
BY ProcessInit, ProcessStepKeeps, ForwardedAlways, PTL DEF Spec

\* No request is accepted by a host whose environment main did not accept in
\* full: a missing or broken enclave address ends the process before it listens.
THEOREM ServesOnlyConfigured ==
    Spec => []((\E r \in Requests : request[r].phase # "idle") => Configured)
<1>1. PInv => ((\E r \in Requests : request[r].phase # "idle") => Configured)
  BY DEF PInv, Untouched
<1>. QED BY <1>1, ProcessAlways, PTL

\* A host that stopped of itself left no request behind; one that is still at work
\* on a request serves it, drains for it, or was killed by a signal that it has no
\* handler for.  The safety half of DrainLosesNobody.
THEOREM StopsLoseNobody ==
    Spec => [](\A r \in Requests : Active(r) => server \in {"listening", "draining", "killed"})
<1>1. PInv => \A r \in Requests : Active(r) => server \in {"listening", "draining", "killed"}
  BY DEF PInv, Untouched, Active, Ends, Booting
<1>. QED BY <1>1, ProcessAlways, PTL

\* After the signal no request is new and each is at most two steps from its end:
\* every step that changes a request brings one nearer its answer and none further
\* from it, whatever the enclave answers and however many signals follow.  What
\* fairness adds in DrainEnds is that the steps are taken.
THEOREM DrainsOnlyShrink ==
    Spec => [][server \notin Booting \cup {"listening"} =>
                /\ \A r \in Requests : WorkLeft(r)' <= WorkLeft(r) /\ WorkLeft(r) \in 0 .. 2
                /\ request' # request => \E r \in Requests : WorkLeft(r)' < WorkLeft(r)]_vars
<1>. DEFINE Shrinks ==
        /\ \A r \in Requests : WorkLeft(r)' <= WorkLeft(r) /\ WorkLeft(r) \in 0 .. 2
        /\ request' # request => \E r \in Requests : WorkLeft(r)' < WorkLeft(r)
<1>1. FInv /\ [Next]_vars => [server \notin Booting \cup {"listening"} => Shrinks]_vars
  <2>. SUFFICES ASSUME FInv, Next, server \notin Booting \cup {"listening"} PROVE Shrinks
    OBVIOUS
  <2>0. \A r \in Requests : WorkLeft(r) \in 0 .. 2
    BY DEF WorkLeft
  <2>1. CASE UNCHANGED request
    <3>1. \A r \in Requests : WorkLeft(r)' = WorkLeft(r)
      BY <2>1 DEF WorkLeft
    <3>. QED BY <2>0, <2>1, <3>1
  <2>2. CASE request' # request
    <3>1. PICK r \in Requests : RequestMoves(r)
      BY <2>2 DEF Next, RequestMoves, Start, Boot, ReadSetting, Listen, Signal, Drained, Ended, vars
    <3>2. WorkLeft(r)' < WorkLeft(r) /\ \A q \in Requests \ {r} : request'[q] = request[q]
      BY <3>1, OneRequestMoves
    <3>3. \A q \in Requests \ {r} : WorkLeft(q)' = WorkLeft(q)
      BY <3>2 DEF WorkLeft
    <3>4. (\A q \in Requests : WorkLeft(q) \in 0 .. 2)'
      BY DEF WorkLeft
    <3>. QED BY <2>0, <3>2, <3>3, <3>4
  <2>. QED BY <2>1, <2>2
<1>. QED BY <1>1, ForwardedAlways, PTL DEF Spec
===============================================================================
