---------------------------- MODULE MatchExchange ----------------------------
(***************************************************************************)
(* Clients running match operations against a fleet of pods behind a load  *)
(* balancer.  A client here is a caller that runs one operation at a time; *)
(* callers that use one FaceVerifierClient, whose methods take &self, run  *)
(* at the same time and share its cookie store, a jar.  An operation       *)
(* fetches an assignment (the attested encryption key of one enclave       *)
(* boot), seals its request to that key, and sends it with the affinity    *)
(* cookie so that it reaches the same pod; a request that another boot     *)
(* receives does not open, and the caller re-assigns and retries once, and *)
(* may keep a verified assignment for later operations.  Enclaves exit and *)
(* restart with fresh keys, readiness is observed late, and the host gives *)
(* up on a slow enclave, the client on a slow host.                        *)
(*                                                                         *)
(* The load balancer is external; it is modelled by the affinity the       *)
(* client is built for (client.rs, tests/stickiness.rs).  The retry is     *)
(* the caller's, as request_match documents it.                            *)
(*                                                                         *)
(*   sources  verifier/client/src/client.rs, verifier/host/src/routes/,    *)
(*            verifier/host/src/enclave.rs, verifier/enclave/src/keys.rs,  *)
(*            verifier/enclave/src/routes/                                 *)
(***************************************************************************)
EXTENDS ApiAnswers

CONSTANTS
    Clients,
    Jars, Jar,        \* the cookie stores, and each client's
    Pods,
    MaxBoots,         \* bound: boots per pod
    MaxDisturbances,  \* bound: enclave exits and missed readiness probes
    NoPod

ASSUME ExchangeAssumption ==
    /\ MaxBoots \in Nat \ {0}
    /\ MaxDisturbances \in Nat
    /\ NoPod \notin Pods
    /\ Jar \in [Clients -> Jars]

\* Keys live in memory and are never shared: a key is the boot that made it.
Boots == [pod : Pods, number : 1 .. MaxBoots]
NoBoot == [pod |-> NoPod, number |-> 0]

VARIABLES
    number,       \* per pod: number of the enclave's current or last boot
    up,           \* the pods whose enclave process runs
    ready,        \* the pods the load balancer has in rotation
    pc,           \* per client: where its operation stands
    cookie,       \* per jar: the pod its affinity cookie names, or NoPod
    assignment,   \* per client: the boot whose key it seals to, or NoBoot; it is
                  \* kept when an operation ends
    retried,      \* per client: the operation has used its one retry
    verdict,      \* per client: how its last operation ended
    call,         \* per client: its HTTP request in progress, with the cookie it
                  \* carries, and the boot that opened it
    reply,        \* per client: the answer on its way back
    disturbances, \* exits and missed probes so far
    lapsed,       \* history: the clients whose assigned pod exited or left the
                  \* rotation after their assignment was routed to it
    strayed       \* history: the clients whose jar another client's answer made
                  \* name a pod that is not the assigned one

fleet == <<number, up, ready, disturbances>>
clientVars == <<pc, cookie, assignment, retried, verdict>>
history == <<lapsed, strayed>>
vars == <<fleet, clientVars, call, reply, history>>

-----------------------------------------------------------------------------
\* "start": no operation; the others name the step of the operation.
Waiting == {"assigning", "matching"}
ClientStates == {"start", "assigned", "reassign"} \cup Waiting

\* A request at the load balancer, at a host, opened by the enclave, or over.
CallStages == {"none", "sent", "relayed", "opened", "over"}
NoCall == [stage |-> "none", key |-> NoBoot, cookie |-> NoPod, pod |-> NoPod, opener |-> NoBoot]

\* An answer, the pod that gave it (and so sets the cookie), and the key an
\* assignment attests.
Reply(answer, pod, key) == [answer |-> answer, pod |-> pod, key |-> key]
NoReply == Reply([status |-> 0, code |-> "none", allowRetry |-> FALSE], NoPod, NoBoot)

CurrentBoot(p) == [pod |-> p, number |-> number[p]]

Init ==
    /\ number = [p \in Pods |-> 1]
    /\ up = Pods
    /\ ready = Pods
    /\ pc = [c \in Clients |-> "start"]
    /\ cookie = [j \in Jars |-> NoPod]
    /\ assignment = [c \in Clients |-> NoBoot]
    /\ retried = [c \in Clients |-> FALSE]
    /\ verdict = [c \in Clients |-> "none"]
    /\ call = [c \in Clients |-> NoCall]
    /\ reply = [c \in Clients |-> NoReply]
    /\ disturbances = 0
    /\ lapsed = {} /\ strayed = {}

-----------------------------------------------------------------------------
(* The client.  An operation holds one request at a time. *)

\* The request carries the cookie that the jar has now.
Send(c, key) ==
    /\ call' = [call EXCEPT ![c] =
                   [NoCall EXCEPT !.stage = "sent", !.key = key, !.cookie = cookie[Jar[c]]]]
    /\ reply' = [reply EXCEPT ![c] = NoReply]

\* The operation of c ends; the request it may still have out is abandoned.  The
\* caller still holds its verified assignment.
End(c, how) ==
    /\ pc' = [pc EXCEPT ![c] = "start"]
    /\ verdict' = [verdict EXCEPT ![c] = how]
    /\ retried' = [retried EXCEPT ![c] = FALSE]
    /\ call' = [call EXCEPT ![c] = NoCall]
    /\ reply' = [reply EXCEPT ![c] = NoReply]
    /\ UNCHANGED <<fleet, assignment, lapsed>>

\* request_assignment, first or after ReassignRequired.
RequestAssignment(c) ==
    /\ pc[c] \in {"start", "reassign"}
    /\ pc' = [pc EXCEPT ![c] = "assigning"]
    /\ retried' = [retried EXCEPT ![c] = (pc[c] = "reassign")]
    /\ verdict' = [verdict EXCEPT ![c] = "none"]
    /\ assignment' = [assignment EXCEPT ![c] = NoBoot]
    /\ Send(c, NoBoot)
    /\ UNCHANGED <<fleet, cookie, history>>

\* request_match: seal to the assigned key and send, for an assignment that is
\* new or was kept from an earlier operation.
RequestMatch(c) ==
    /\ pc[c] = "assigned" \/ (pc[c] = "start" /\ assignment[c] # NoBoot)
    /\ pc' = [pc EXCEPT ![c] = "matching"]
    /\ verdict' = [verdict EXCEPT ![c] = "none"]
    /\ Send(c, assignment[c])
    /\ UNCHANGED <<fleet, cookie, assignment, retried, history>>

\* The other clients of the jar that are assigned to another pod than p.
Displaced(c, p) ==
    {d \in Clients \ {c} : Jar[d] = Jar[c] /\ assignment[d] # NoBoot /\ assignment[d].pod # p}

\* Mutant of KeepCookie: the client has no cookie store.
DropCookie(c) == UNCHANGED <<cookie, strayed>>

\* Mutant of KeepCookie: the cookie names the boot instead of the pod.
KeepBootCookie(c) ==
    IF reply[c].pod = NoPod
    THEN UNCHANGED <<cookie, strayed>>
    ELSE /\ cookie' = [cookie EXCEPT ![Jar[c]] = CurrentBoot(reply[c].pod)]
         /\ strayed' = strayed \cup Displaced(c, reply[c].pod)

\* The jar keeps the cookie of every answer a pod gave: the last one counts.
KeepCookie(c) ==
    IF reply[c].pod = NoPod
    THEN UNCHANGED <<cookie, strayed>>
    ELSE /\ cookie' = [cookie EXCEPT ![Jar[c]] = reply[c].pod]
         /\ strayed' = strayed \cup Displaced(c, reply[c].pod)

Answered(c, step) == pc[c] = step /\ reply[c] # NoReply

\* The assignment's attestation verifies and commits to the key.
AcceptAssignment(c) ==
    /\ Answered(c, "assigning")
    /\ reply[c].answer = ApiOk
    /\ pc' = [pc EXCEPT ![c] = "assigned"]
    /\ assignment' = [assignment EXCEPT ![c] = reply[c].key]
    /\ call' = [call EXCEPT ![c] = NoCall]
    /\ reply' = [reply EXCEPT ![c] = NoReply]
    /\ KeepCookie(c)
    /\ UNCHANGED <<fleet, retried, verdict, lapsed>>

\* An error status, or a document that is too old or not on the allow list.
RefuseAssignment(c) ==
    /\ Answered(c, "assigning")
    /\ End(c, IF reply[c].answer = ApiOk THEN "NotAttested" ELSE "Status")
    /\ KeepCookie(c)

\* The result opens; a statement's own attestation and signature may still fail.
ReceiveResult(c) ==
    /\ Answered(c, "matching")
    /\ reply[c].answer = ApiOk
    /\ \E how \in {"Result", "NotAttested"} : End(c, how)
    /\ KeepCookie(c)

\* ReassignRequired, the first time: the caller starts over with a new key.
RetryOnce(c) ==
    /\ Answered(c, "matching")
    /\ reply[c].answer # ApiOk
    /\ ClientError(reply[c].answer) = "ReassignRequired"
    /\ ~retried[c]
    /\ pc' = [pc EXCEPT ![c] = "reassign"]
    /\ call' = [call EXCEPT ![c] = NoCall]
    /\ reply' = [reply EXCEPT ![c] = NoReply]
    /\ KeepCookie(c)
    /\ UNCHANGED <<fleet, assignment, retried, verdict, lapsed>>

\* Any other error, or a second ReassignRequired, is the operation's outcome; of
\* an answer whose body is lost only the status is left.
FailMatch(c) ==
    /\ Answered(c, "matching")
    /\ reply[c].answer # ApiOk
    /\ \E how \in {ClientError(reply[c].answer), "Status"} :
            /\ how = "ReassignRequired" => retried[c]
            /\ End(c, how)
    /\ KeepCookie(c)

\* The client's own timeout, or a broken connection to the host: before there is
\* an answer, or when it is on its way, with or without its headers.
RequestFails(c) ==
    /\ pc[c] \in Waiting
    /\ End(c, "Request")
    /\ KeepCookie(c) \/ UNCHANGED <<cookie, strayed>>

ClientStep(c) ==
    \/ RequestMatch(c) \/ AcceptAssignment(c) \/ RefuseAssignment(c)
    \/ ReceiveResult(c) \/ RetryOnce(c) \/ FailMatch(c)

-----------------------------------------------------------------------------
(* The load balancer and the hosts. *)

\* Affinity holds while the pod is in rotation; then any other is chosen anew.
Targets(c) == IF call[c].cookie \in ready THEN {call[c].cookie} ELSE ready

Route(c) ==
    /\ call[c].stage = "sent"
    /\ \E p \in Targets(c) : call' = [call EXCEPT ![c].stage = "relayed", ![c].pod = p]
    /\ IF pc[c] = "assigning"
       THEN lapsed' = lapsed \ {c} /\ strayed' = strayed \ {c}
       ELSE UNCHANGED history
    /\ UNCHANGED <<fleet, clientVars, reply>>

\* The request of c is answered.
Respond(c, r) ==
    /\ reply' = [reply EXCEPT ![c] = r]
    /\ call' = [call EXCEPT ![c].stage = "over"]
    /\ UNCHANGED <<fleet, clientVars>>

\* No pod in rotation: the balancer answers by itself.
NoTarget(c) ==
    /\ call[c].stage = "sent"
    /\ ready = {}
    /\ Respond(c, Reply(ApiError(503, "none", FALSE), NoPod, NoBoot))
    /\ UNCHANGED history

AtHost(c, step) == call[c].stage = "relayed" /\ pc[c] = step

\* enclave_assignment: the key of the boot that runs now.
Assign(c) ==
    /\ AtHost(c, "assigning")
    /\ call[c].pod \in up
    /\ LET p == call[c].pod IN
        Respond(c, Reply(AssignmentAnswer(Ok), p, CurrentBoot(p)))
    /\ UNCHANGED history

\* No enclave to connect to, on either route.
Unreachable(c) ==
    /\ call[c].stage = "relayed"
    /\ call[c].pod \notin up
    /\ LET answer == IF pc[c] = "assigning" THEN AssignmentAnswer(Transport) ELSE MatchAnswer(Transport)
       IN  Respond(c, Reply(answer, call[c].pod, NoBoot))
    /\ UNCHANGED history

\* Mutant of HostTimesOut: match calls have no deadline.
HostTimesOutOnAssignments(c) ==
    /\ AtHost(c, "assigning")
    /\ Respond(c, Reply(AssignmentAnswer(TimedOut), call[c].pod, NoBoot))
    /\ UNCHANGED history

\* The host's deadline for the enclave: 2 s on assignments, 30 s on matches.
HostTimesOut(c) ==
    /\ call[c].stage \in {"relayed", "opened"}
    /\ LET answer == IF pc[c] = "assigning" THEN AssignmentAnswer(TimedOut) ELSE MatchAnswer(TimedOut)
       IN  Respond(c, Reply(answer, call[c].pod, NoBoot))
    /\ UNCHANGED history

\* Mutant of Open: the channel key outlives the boot that made it.
OpenWithAnyKey(c) ==
    /\ AtHost(c, "matching")
    /\ call[c].pod \in up
    /\ call' = [call EXCEPT ![c].stage = "opened", ![c].opener = CurrentBoot(call[c].pod)]
    /\ UNCHANGED <<fleet, clientVars, reply, history>>

\* The enclave's channel opens what was sealed to its own boot's key only.
Open(c) ==
    /\ AtHost(c, "matching")
    /\ call[c].pod \in up
    /\ call[c].key = CurrentBoot(call[c].pod)
    /\ call' = [call EXCEPT ![c].stage = "opened", ![c].opener = CurrentBoot(call[c].pod)]
    /\ UNCHANGED <<fleet, clientVars, reply, history>>

\* The host gave up before the enclave came to open the request.
OpenLate(c) ==
    /\ pc[c] = "matching"
    /\ call[c].stage = "over" /\ call[c].opener = NoBoot
    /\ reply[c].answer = MatchAnswer(TimedOut)
    /\ call[c].pod \in up
    /\ call[c].key = CurrentBoot(call[c].pod)
    /\ call' = [call EXCEPT ![c].opener = CurrentBoot(call[c].pod)]
    /\ UNCHANGED <<fleet, clientVars, reply, history>>

RefuseToOpen(c) ==
    /\ AtHost(c, "matching")
    /\ call[c].pod \in up
    /\ call[c].key # CurrentBoot(call[c].pod)
    /\ Respond(c, Reply(MatchAnswer(Operation("RequestNotOpened")), call[c].pod, NoBoot))
    /\ UNCHANGED history

\* The handler ends: a result sealed to the exchange, or a fault.
Answer(c) ==
    /\ call[c].stage = "opened"
    /\ \E outcome \in {Ok, Operation("Internal"), Transport} :
            Respond(c, Reply(MatchAnswer(outcome), call[c].pod, NoBoot))
    /\ UNCHANGED history

ServiceStep(c) ==
    \/ Route(c) \/ NoTarget(c) \/ Assign(c) \/ Unreachable(c) \/ HostTimesOut(c)
    \/ Open(c) \/ OpenLate(c) \/ RefuseToOpen(c) \/ Answer(c)

-----------------------------------------------------------------------------
(* The fleet. *)

\* The pod that c asked for its assignment.
Assigner(c) == IF pc[c] = "assigning" THEN call[c].pod ELSE assignment[c].pod
AssignedTo(p) == {c \in Clients : Assigner(c) = p}

Disturb == disturbances < MaxDisturbances /\ disturbances' = disturbances + 1

\* The enclave process exits; what it was working on is lost with it.
Exit(p) ==
    /\ p \in up
    /\ Disturb
    /\ up' = up \ {p}
    /\ LET lost == {c \in Clients : call[c].stage = "opened" /\ call[c].pod = p} IN
        /\ call' = [c \in Clients |-> IF c \in lost THEN [call[c] EXCEPT !.stage = "over"] ELSE call[c]]
        /\ reply' = [c \in Clients |-> IF c \in lost THEN Reply(MatchAnswer(Transport), p, NoBoot)
                                                   ELSE reply[c]]
    /\ lapsed' = lapsed \cup AssignedTo(p)
    /\ UNCHANGED <<number, ready, clientVars, strayed>>

\* A new process generates new keys: requests sealed to the old ones are stale.
Restart(p) ==
    /\ p \notin up
    /\ number[p] < MaxBoots
    /\ up' = up \cup {p}
    /\ number' = [number EXCEPT ![p] = @ + 1]
    /\ UNCHANGED <<ready, disturbances, clientVars, call, reply, history>>

\* GET /ready asks the enclave for its health; the balancer acts on the answer.
Probe(p) ==
    /\ (p \in ready) # (p \in up)
    /\ ready' = IF p \in up THEN ready \cup {p} ELSE ready \ {p}
    /\ lapsed' = IF p \in up THEN lapsed ELSE lapsed \cup AssignedTo(p)
    /\ UNCHANGED <<number, up, disturbances, clientVars, call, reply, strayed>>

\* A working but busy enclave misses the two seconds of a probe.
ProbeTimesOut(p) ==
    /\ p \in up \cap ready
    /\ Disturb
    /\ ready' = ready \ {p}
    /\ lapsed' = lapsed \cup AssignedTo(p)
    /\ UNCHANGED <<number, up, clientVars, call, reply, strayed>>

FleetStep == \E p \in Pods : Exit(p) \/ Restart(p) \/ Probe(p) \/ ProbeTimesOut(p)

Next ==
    \/ \E c \in Clients : RequestAssignment(c) \/ ClientStep(c) \/ RequestFails(c) \/ ServiceStep(c)
    \/ FleetStep

Spec == Init /\ [][Next]_vars

\* Clients and hosts run on, and the host's deadline fires: nothing is assumed
\* of the enclave, of restarts, of probes or of the client's own timeout, and no
\* client has to start an operation.
Fairness ==
    \A c \in Clients :
        /\ WF_vars(pc[c] # "start" /\ ClientStep(c))
        /\ WF_vars(pc[c] = "reassign" /\ RequestAssignment(c))
        /\ WF_vars(Route(c) \/ NoTarget(c))
        /\ WF_vars(HostTimesOut(c))

FairSpec == Spec /\ Fairness

-----------------------------------------------------------------------------
Verdicts == {"none", "Result", "NotAttested", "Status", "Request", "Api", "ReassignRequired"}

\* Type invariant of the exchange.
TypeOK ==
    /\ number \in [Pods -> 1 .. MaxBoots]
    /\ up \subseteq Pods /\ ready \subseteq Pods
    /\ pc \in [Clients -> ClientStates]
    /\ cookie \in [Jars -> Pods \cup {NoPod}]
    /\ assignment \in [Clients -> Boots \cup {NoBoot}]
    /\ retried \in [Clients -> BOOLEAN]
    /\ verdict \in [Clients -> Verdicts]
    /\ \A c \in Clients :
        /\ call[c].stage \in CallStages
        /\ call[c].key \in Boots \cup {NoBoot}
        /\ {call[c].cookie, call[c].pod} \subseteq Pods \cup {NoPod}
        /\ call[c].opener \in Boots \cup {NoBoot}
        /\ reply[c].pod \in Pods \cup {NoPod}
        /\ reply[c].key \in Boots \cup {NoBoot}
    /\ disturbances \in 0 .. MaxDisturbances
    /\ lapsed \subseteq Clients /\ strayed \subseteq Clients

\* A client is told to re-assign only because, since it was asked for its
\* assignment, the pod exited or left the rotation, or another client of the same
\* jar was answered by another pod: otherwise the affinity cookie brings the match
\* to the boot whose key it is sealed to, also on the retry and with an assignment
\* kept from earlier.  No other order of calls costs a client its one retry.
ReassignsAreDeserved ==
    \A c \in Clients :
        pc[c] = "matching" /\ ClientError(reply[c].answer) = "ReassignRequired" => c \in lapsed \cup strayed

\* What client.rs:67 says of the cookie: the match reaches the enclave that was
\* assigned, as long as that one stays.  Two first assignments at once on one
\* FaceVerifierClient leave the jar with the cookie of the last.
MatchesReachTheAssigned ==
    \A c \in Clients :
        pc[c] = "matching" /\ call[c].stage = "relayed" /\ c \notin lapsed =>
            call[c].pod = assignment[c].pod

\* Only the boot whose attestation the client verified ever works on its
\* plaintext, and only while it lives: not the next boot of the same pod, nor
\* another pod the request was routed to.
OpenedByTheAttestedBoot ==
    \A c \in Clients : call[c].stage = "opened" =>
        /\ assignment[c] = CurrentBoot(call[c].pod)
        /\ call[c].pod \in up

-----------------------------------------------------------------------------
\* An operation as its client is promised it: without cookies, routes, stages
\* and the reasons of a failure.
Sealed == {"assigned", "matching"}
Phase == [c \in Clients |-> IF pc[c] = "start" THEN "idle"
                           ELSE IF pc[c] \in Sealed THEN "sealed" ELSE "asking"]
Attempts == [c \in Clients |-> IF pc[c] = "start" THEN 0
                              ELSE IF pc[c] = "reassign" \/ retried[c] THEN 2 ELSE 1]
Trusted == [c \in Clients |-> IF pc[c] \in Sealed THEN assignment[c] ELSE NoBoot]
Reader == [c \in Clients |-> call[c].opener]
Outcome == [c \in Clients |-> IF verdict[c] \in {"none", "Result"} THEN verdict[c] ELSE "Failed"]

Operations == INSTANCE SealedOperation WITH
    phase <- Phase, attempts <- Attempts, trusted <- Trusted, reader <- Reader, outcome <- Outcome

\* Exits, restarts, late probes, lost answers and the retry leave each client
\* with an operation of SealedOperation: one trusted reader at most, and nothing
\* sealed again that an enclave has read.
ImplementsSealedOperation == Operations!Spec

\* Every operation ends, with a result or an error, even when the enclave never
\* answers and the client sets no timeout of its own.
OperationsEnd == \A c \in Clients : pc[c] # "start" ~> pc[c] = "start"
=============================================================================
