------------------------ MODULE MatchExchangeProofs -------------------------
(***************************************************************************)
(* Proofs about the exchange for any number of clients, pods, boots and    *)
(* disturbances: only the boot whose attestation a client verified reads   *)
(* what it sealed, and each client's operation is one of SealedOperation.  *)
(*                                                                         *)
(* The invariant ties the request a client has out to the step of its      *)
(* operation: what is on its way was sealed to the assignment and nobody   *)
(* has read it, what was read was read by the assigned boot, an answer of  *)
(* 200 comes only after that, and a demand to re-assign only before.       *)
(***************************************************************************)
EXTENDS MatchExchange, TLAPS

-----------------------------------------------------------------------------
(* The invariant. *)

Keys == Boots \cup {NoBoot}
Cookies == Pods \cup {NoPod}
Calls == [stage : CallStages, key : Keys, cookie : Cookies, pod : Cookies, opener : Keys]

Shape ==
    /\ number \in [Pods -> 1 .. MaxBoots]
    /\ up \subseteq Pods /\ ready \subseteq Pods
    /\ pc \in [Clients -> ClientStates]
    /\ cookie \in [Jars -> Cookies]
    /\ assignment \in [Clients -> Keys]
    /\ retried \in [Clients -> BOOLEAN]
    /\ verdict \in [Clients -> Verdicts]
    /\ call \in [Clients -> Calls]
    /\ DOMAIN reply = Clients /\ reply = [c \in Clients |-> reply[c]]
    /\ \A c \in Clients : reply[c].pod \in Pods \cup {NoPod} /\ reply[c].key \in Keys
    /\ disturbances \in 0 .. MaxDisturbances
    /\ lapsed \subseteq Clients /\ strayed \subseteq Clients

Demanded(answer) == ClientError(answer) = "ReassignRequired"

\* The operation of c: nothing is out between its requests, and what it seals
\* to is an enclave boot.
OperationOf(c) ==
    /\ pc[c] = "start" => ~retried[c]
    /\ pc[c] # "start" => verdict[c] = "none"
    /\ pc[c] \notin Waiting => call[c] = NoCall
    /\ pc[c] \in Sealed => assignment[c] \in Boots
    /\ pc[c] = "assigning" => assignment[c] = NoBoot

\* The request of c, and who opened it.
RequestOf(c) ==
    /\ pc[c] = "matching" => call[c].key = assignment[c]
    /\ call[c].opener # NoBoot => pc[c] = "matching" /\ call[c].opener = assignment[c]
    /\ call[c].stage \in {"sent", "relayed"} => call[c].opener = NoBoot
    /\ call[c].stage = "opened" =>
        /\ call[c].opener = CurrentBoot(call[c].pod)
        /\ call[c].opener # NoBoot
        /\ call[c].pod \in up

\* The answer to it.
AnswerOf(c) ==
    /\ call[c].stage # "over" => reply[c] = NoReply
    /\ pc[c] = "assigning" /\ reply[c].answer = ApiOk => reply[c].key \in Boots
    /\ pc[c] = "matching" /\ reply[c].answer = ApiOk => call[c].opener # NoBoot
    /\ Demanded(reply[c].answer) => call[c].opener = NoBoot

EInv == Shape /\ \A c \in Clients : OperationOf(c) /\ RequestOf(c) /\ AnswerOf(c)

-----------------------------------------------------------------------------
(* The answers the hosts give. *)

LEMMA Outcomes ==
    /\ Ok \notin {TimedOut, Transport}
    /\ Operation("RequestNotOpened") \notin {Ok, TimedOut, Transport}
    /\ Operation("Internal") \notin {Ok, TimedOut, Transport}
    /\ Operation("RequestNotOpened") # Operation("Internal")
BY DEF Ok, TimedOut, Transport, Operation

LEMMA MatchAnswers ==
    /\ MatchAnswer(Ok) = ApiOk
    /\ MatchAnswer(Transport) = EnclaveUnreachable(Transport)
    /\ MatchAnswer(TimedOut) = EnclaveUnreachable(TimedOut)
    /\ MatchAnswer(Operation("RequestNotOpened")) = ApiError(409, "reassign_required", TRUE)
    /\ MatchAnswer(Operation("Internal")) = ApiError(500, "internal_error", TRUE)
<1>1. MatchAnswer(Ok) = ApiOk
  BY Outcomes DEF MatchAnswer
<1>2. ASSUME NEW o \in {TimedOut, Transport} PROVE MatchAnswer(o) = EnclaveUnreachable(o)
  BY <1>2, Outcomes DEF MatchAnswer
<1>3. MatchAnswer(Operation("RequestNotOpened")) = ApiError(409, "reassign_required", TRUE)
  BY Outcomes DEF MatchAnswer
<1>4. MatchAnswer(Operation("Internal")) = ApiError(500, "internal_error", TRUE)
  BY Outcomes DEF MatchAnswer
<1>. QED BY <1>1, <1>2, <1>3, <1>4

LEMMA AssignmentAnswers ==
    /\ AssignmentAnswer(Ok) = ApiOk
    /\ AssignmentAnswer(Transport) = EnclaveUnreachable(Transport)
    /\ AssignmentAnswer(TimedOut) = EnclaveUnreachable(TimedOut)
<1>1. AssignmentAnswer(Ok) = ApiOk
  BY Outcomes DEF AssignmentAnswer
<1>2. ASSUME NEW o \in {TimedOut, Transport} PROVE AssignmentAnswer(o) = EnclaveUnreachable(o)
  BY <1>2, Outcomes DEF AssignmentAnswer
<1>. QED BY <1>1, <1>2

\* Which answers end an operation well, and which one demands to re-assign.
LEMMA AnswerFacts ==
    /\ ~Demanded(ApiOk)
    /\ \A o \in {Transport, TimedOut, Operation("Internal")} :
            MatchAnswer(o) # ApiOk /\ ~Demanded(MatchAnswer(o))
    /\ MatchAnswer(Operation("RequestNotOpened")) # ApiOk
    /\ MatchAnswer(Ok) = ApiOk /\ AssignmentAnswer(Ok) = ApiOk
    /\ \A o \in {Transport, TimedOut} :
            AssignmentAnswer(o) # ApiOk /\ ~Demanded(AssignmentAnswer(o))
    /\ NoReply.answer # ApiOk /\ ~Demanded(NoReply.answer)
    /\ LET a == ApiError(503, "none", FALSE) IN a # ApiOk /\ ~Demanded(a)
<1>. USE DEF Demanded, ClientError, ApiOk, ApiError
<1>1. \A o : EnclaveUnreachable(o) # ApiOk /\ ~Demanded(EnclaveUnreachable(o))
  BY DEF EnclaveUnreachable
<1>2. ~Demanded(ApiOk)
  OBVIOUS
<1>3. /\ MatchAnswer(Operation("Internal")) # ApiOk
      /\ ~Demanded(MatchAnswer(Operation("Internal")))
      /\ MatchAnswer(Operation("RequestNotOpened")) # ApiOk
  BY MatchAnswers
<1>4. LET a == ApiError(503, "none", FALSE) IN a # ApiOk /\ ~Demanded(a)
  OBVIOUS
<1>5. NoReply.answer # ApiOk /\ ~Demanded(NoReply.answer)
  BY DEF NoReply, Reply
<1>6. \A o \in {Transport, TimedOut} :
        /\ MatchAnswer(o) # ApiOk /\ ~Demanded(MatchAnswer(o))
        /\ AssignmentAnswer(o) # ApiOk /\ ~Demanded(AssignmentAnswer(o))
  BY <1>1, MatchAnswers, AssignmentAnswers
<1>7. MatchAnswer(Ok) = ApiOk /\ AssignmentAnswer(Ok) = ApiOk
  BY MatchAnswers, AssignmentAnswers
<1>. HIDE DEF Demanded, ClientError, ApiOk, ApiError
<1>. QED BY Zenon, <1>2, <1>3, <1>4, <1>5, <1>6, <1>7

LEMMA NoBootIsNoBoot == NoBoot \notin Boots
BY ExchangeAssumption DEF NoBoot, Boots

LEMMA CurrentIsBoot == ASSUME Shape, NEW p \in Pods PROVE CurrentBoot(p) \in Boots
BY DEF Shape, CurrentBoot, Boots

-----------------------------------------------------------------------------
(* Every step keeps the invariant. *)

Tied(c) == OperationOf(c) /\ RequestOf(c) /\ AnswerOf(c)

\* A client whose own state and pod a step leaves alone.
LEMMA OthersKept ==
    ASSUME NEW c \in Clients, Tied(c), UNCHANGED <<number, up>>,
           UNCHANGED <<pc[c], retried[c], verdict[c], assignment[c], call[c], reply[c]>>
    PROVE  Tied(c)'
BY DEF Tied, OperationOf, RequestOf, AnswerOf, CurrentBoot

LEMMA ExchangeInit == Init => EInv
<1>. SUFFICES ASSUME Init PROVE EInv
  OBVIOUS
<1>1. Shape
  BY ExchangeAssumption DEF Init, Shape, ClientStates, Waiting, Keys, Cookies, Verdicts, Calls,
     CallStages, NoCall, NoReply, Reply
<1>2. ASSUME NEW c \in Clients PROVE Tied(c)
  BY AnswerFacts DEF Init, Tied, OperationOf, RequestOf, AnswerOf, NoCall, Waiting, Sealed
<1>. QED BY <1>1, <1>2 DEF EInv, Tied

\* An operation ends: nothing of it is left.
LEMMA EndStep ==
    ASSUME EInv, NEW c \in Clients, NEW how \in Verdicts, End(c, how),
           cookie' \in [Jars -> Cookies], strayed' \subseteq Clients
    PROVE  EInv'
<1>1. Shape'
  BY DEF EInv, Shape, End, fleet, ClientStates, Keys, Cookies, Calls, NoCall, CallStages, NoReply, Reply
<1>2. ASSUME NEW d \in Clients PROVE Tied(d)'
  <2>1. CASE d = c
    BY <2>1, AnswerFacts DEF EInv, Shape, End, Tied, OperationOf, RequestOf, AnswerOf, NoCall,
       Waiting, Sealed
  <2>2. CASE d # c
    BY <2>2, OthersKept DEF EInv, Shape, End, fleet, Tied
  <2>. QED BY <2>1, <2>2
<1>. QED BY <1>1, <1>2 DEF EInv, Tied

\* A request is answered.
LEMMA RespondStep ==
    ASSUME EInv, NEW c \in Clients, NEW r, Respond(c, r), UNCHANGED history,
           call[c].stage # "none", r.pod \in Pods \cup {NoPod}, r.key \in Keys,
           pc[c] = "assigning" /\ r.answer = ApiOk => r.key \in Boots,
           pc[c] = "matching" /\ r.answer = ApiOk => call[c].opener # NoBoot,
           Demanded(r.answer) => call[c].opener = NoBoot
    PROVE  EInv'
<1>1. Shape'
  <2>1. call' \in [Clients -> Calls]
    <3>1. call[c] \in Calls
      BY DEF EInv, Shape
    <3>2. [call[c] EXCEPT !.stage = "over"] \in Calls
      BY <3>1 DEF Calls, CallStages
    <3>. QED BY <3>2 DEF EInv, Shape, Respond
  <2>2. /\ DOMAIN reply' = Clients /\ reply' = [d \in Clients |-> reply'[d]]
        /\ \A d \in Clients : reply'[d].pod \in Pods \cup {NoPod} /\ reply'[d].key \in Keys
    BY DEF EInv, Shape, Respond
  <2>. QED BY <2>1, <2>2 DEF EInv, Shape, Respond, fleet, clientVars, history
<1>2. ASSUME NEW d \in Clients PROVE Tied(d)'
  <2>1. CASE d = c
    <3>1. /\ call'[c] = [call[c] EXCEPT !.stage = "over"] /\ reply'[c] = r
          /\ UNCHANGED <<pc[c], retried[c], verdict[c], assignment[c], number, up>>
          /\ call[c] \in Calls
      BY DEF EInv, Shape, Respond, fleet, clientVars
    <3>2. /\ call'[c].stage = "over" /\ call'[c].key = call[c].key
          /\ call'[c].pod = call[c].pod /\ call'[c].opener = call[c].opener
      BY <3>1 DEF Calls
    <3>3. call[c] # NoCall /\ OperationOf(c) /\ RequestOf(c)
      BY DEF EInv, NoCall
    <3>4. OperationOf(c)'
      BY <3>1, <3>3 DEF OperationOf
    <3>5. RequestOf(c)'
      BY <3>1, <3>2, <3>3 DEF RequestOf
    <3>6. AnswerOf(c)'
      BY <3>1, <3>2 DEF AnswerOf
    <3>. QED BY <2>1, <3>4, <3>5, <3>6 DEF Tied
  <2>2. CASE d # c
    BY <2>2, OthersKept DEF EInv, Shape, Respond, fleet, clientVars, Tied
  <2>. QED BY <2>1, <2>2
<1>. QED BY <1>1, <1>2 DEF EInv, Tied

LEMMA KeptCookie ==
    ASSUME EInv, NEW c \in Clients, KeepCookie(c)
    PROVE  cookie' \in [Jars -> Cookies] /\ strayed' \subseteq Clients
BY ExchangeAssumption DEF EInv, Shape, KeepCookie, Displaced, Cookies

\* The client's own steps.
LEMMA ClientKeeps ==
    ASSUME EInv, NEW c \in Clients, RequestAssignment(c) \/ ClientStep(c) \/ RequestFails(c)
    PROVE  EInv'
<1>0. Shape /\ \A d \in Clients : Tied(d)
  BY DEF EInv, Tied
<1>1. CASE RequestAssignment(c)
  <2>1. Shape'
    BY <1>0, <1>1, ExchangeAssumption DEF Shape, RequestAssignment, Send, fleet, history, ClientStates,
       Waiting, Verdicts, Calls, CallStages, NoCall, Keys, Cookies, NoReply, Reply
  <2>2. ASSUME NEW d \in Clients PROVE Tied(d)'
    <3>1. CASE d = c
      BY <1>0, <1>1, <3>1, AnswerFacts DEF Shape, RequestAssignment, Send, fleet, Tied,
         OperationOf, RequestOf, AnswerOf, NoCall, Waiting, Sealed
    <3>2. CASE d # c
      BY <1>0, <1>1, <3>2, OthersKept DEF Shape, RequestAssignment, Send, fleet
    <3>. QED BY <3>1, <3>2
  <2>. QED BY <2>1, <2>2 DEF EInv, Tied
<1>2. CASE RequestMatch(c)
  <2>1. Shape'
    BY <1>0, <1>2, ExchangeAssumption DEF Shape, RequestMatch, Send, fleet, history, ClientStates,
       Waiting, Verdicts, Calls, CallStages, NoCall, Keys, Cookies, NoReply, Reply
  <2>2. ASSUME NEW d \in Clients PROVE Tied(d)'
    <3>1. CASE d = c
      BY <1>0, <1>2, <3>1, AnswerFacts DEF Shape, RequestMatch, Send, fleet, Tied,
         OperationOf, RequestOf, AnswerOf, NoCall, Waiting, Sealed, Keys
    <3>2. CASE d # c
      BY <1>0, <1>2, <3>2, OthersKept DEF Shape, RequestMatch, Send, fleet
    <3>. QED BY <3>1, <3>2
  <2>. QED BY <2>1, <2>2 DEF EInv, Tied
<1>3. CASE AcceptAssignment(c)
  <2>1. Shape'
    BY <1>0, <1>3, KeptCookie DEF Shape, AcceptAssignment, fleet, ClientStates, Cookies,
       Calls, CallStages, NoCall, Keys, NoReply, Reply
  <2>2. ASSUME NEW d \in Clients PROVE Tied(d)'
    <3>1. CASE d = c
      BY <1>0, <1>3, <3>1, AnswerFacts DEF Shape, AcceptAssignment, Answered, fleet, Tied,
         OperationOf, RequestOf, AnswerOf, NoCall, Waiting, Sealed
    <3>2. CASE d # c
      BY <1>0, <1>3, <3>2, OthersKept DEF Shape, AcceptAssignment, fleet
    <3>. QED BY <3>1, <3>2
  <2>. QED BY <2>1, <2>2 DEF EInv, Tied
<1>4. CASE RetryOnce(c)
  <2>1. Shape'
    BY <1>0, <1>4, KeptCookie DEF Shape, RetryOnce, fleet, ClientStates, Cookies,
       Calls, CallStages, NoCall, Keys, NoReply, Reply
  <2>2. ASSUME NEW d \in Clients PROVE Tied(d)'
    <3>1. CASE d = c
      BY <1>0, <1>4, <3>1, AnswerFacts DEF Shape, RetryOnce, Answered, fleet, Tied,
         OperationOf, RequestOf, AnswerOf, NoCall, Waiting, Sealed
    <3>2. CASE d # c
      BY <1>0, <1>4, <3>2, OthersKept DEF Shape, RetryOnce, fleet
    <3>. QED BY <3>1, <3>2
  <2>. QED BY <2>1, <2>2 DEF EInv, Tied
<1>5. CASE RefuseAssignment(c)
  BY <1>5, EndStep, KeptCookie DEF RefuseAssignment, Verdicts
<1>6. CASE ReceiveResult(c)
  BY <1>6, EndStep, KeptCookie DEF ReceiveResult, Verdicts
<1>7. CASE FailMatch(c)
  <2>1. {ClientError(reply[c].answer), "Status"} \subseteq Verdicts
    BY DEF ClientError, Verdicts
  <2>. QED BY <1>7, <2>1, EndStep, KeptCookie DEF FailMatch
<1>8. CASE RequestFails(c)
  <2>1. cookie' \in [Jars -> Cookies] /\ strayed' \subseteq Clients
    BY <1>0, <1>8, KeptCookie DEF Shape, RequestFails
  <2>. QED BY <1>8, <2>1, EndStep DEF RequestFails, Verdicts
<1>. QED BY <1>1, <1>2, <1>3, <1>4, <1>5, <1>6, <1>7, <1>8 DEF ClientStep

\* The balancer, the hosts and the enclaves.
LEMMA ServiceKeeps ==
    ASSUME EInv, NEW c \in Clients, ServiceStep(c)
    PROVE  EInv'
<1>0. Shape /\ call[c] \in Calls /\ \A d \in Clients : Tied(d)
  BY DEF EInv, Tied, Shape
<1>. DEFINE To(answer, key) == Reply(answer, call[c].pod, key)
<1>a. call[c].pod \in Pods \cup {NoPod} /\ NoBoot \in Keys /\ NoPod \in Pods \cup {NoPod}
  BY <1>0 DEF Calls, Keys, Cookies
<1>1. CASE Route(c)
  <2>1. PICK p \in Targets(c) : call' = [call EXCEPT ![c].stage = "relayed", ![c].pod = p]
    BY <1>1 DEF Route
  <2>2. p \in Pods
    BY <1>0 DEF Targets, Shape
  <2>3. /\ DOMAIN call = Clients
        /\ call'[c] = [stage |-> "relayed", key |-> call[c].key, cookie |-> call[c].cookie, pod |-> p,
                       opener |-> call[c].opener]
    BY <1>0, <2>1 DEF Shape, Calls
  <2>4. Shape'
    <3>1. call' \in [Clients -> Calls]
      BY <1>0, <2>1, <2>2, <2>3 DEF Shape, Calls, CallStages, Cookies
    <3>. QED BY <1>0, <1>1, <3>1 DEF Shape, Route, fleet, clientVars, history
  <2>5. ASSUME NEW d \in Clients PROVE Tied(d)'
    <3>1. CASE d = c
      BY <1>0, <1>1, <2>3, <3>1 DEF Route, fleet, clientVars, Tied,
         OperationOf, RequestOf, AnswerOf, NoCall
    <3>2. CASE d # c
      BY <1>0, <1>1, <2>1, <3>2, OthersKept DEF Shape, Route, fleet, clientVars
    <3>. QED BY <3>1, <3>2
  <2>. QED BY <2>4, <2>5 DEF EInv, Tied
<1>2. CASE NoTarget(c)
  <2>. DEFINE r == Reply(ApiError(503, "none", FALSE), NoPod, NoBoot)
  <2>1. r.pod = NoPod /\ r.key = NoBoot
    BY DEF Reply
  <2>2. r.answer # ApiOk /\ ~Demanded(r.answer)
    BY DEF Reply, Demanded, ClientError, ApiError, ApiOk
  <2>3. Respond(c, r) /\ UNCHANGED history /\ call[c].stage # "none"
    BY <1>2 DEF NoTarget
  <2>. HIDE DEF r
  <2>. QED BY <1>a, <2>1, <2>2, <2>3, RespondStep
<1>3. CASE Assign(c)
  <2>. DEFINE r == Reply(AssignmentAnswer(Ok), call[c].pod, CurrentBoot(call[c].pod))
  <2>1. r.pod = call[c].pod /\ r.key \in Boots
    BY <1>0, <1>3, CurrentIsBoot DEF Reply, Assign, Shape
  <2>2. r.answer = ApiOk /\ ~Demanded(r.answer)
    BY AnswerFacts DEF Reply
  <2>3. Respond(c, r) /\ UNCHANGED history /\ call[c].stage # "none" /\ pc[c] # "matching"
    BY <1>3 DEF Assign, AtHost
  <2>. HIDE DEF r
  <2>. QED BY <1>a, <2>1, <2>2, <2>3, RespondStep DEF Keys
<1>4. CASE Unreachable(c) \/ HostTimesOut(c)
  <2>1. PICK o \in {Transport, TimedOut} :
          Respond(c, To(IF pc[c] = "assigning" THEN AssignmentAnswer(o) ELSE MatchAnswer(o), NoBoot))
    BY <1>4 DEF Unreachable, HostTimesOut
  <2>. DEFINE a == IF pc[c] = "assigning" THEN AssignmentAnswer(o) ELSE MatchAnswer(o)
  <2>. DEFINE r == To(a, NoBoot)
  <2>2. a # ApiOk /\ ~Demanded(a)
    BY AnswerFacts
  <2>. HIDE DEF a
  <2>3. r.pod = call[c].pod /\ r.key = NoBoot /\ r.answer = a
    BY DEF Reply
  <2>4. Respond(c, r) /\ UNCHANGED history /\ call[c].stage # "none"
    BY <1>4, <2>1 DEF Unreachable, HostTimesOut, a
  <2>. HIDE DEF r
  <2>. QED BY <1>a, <2>2, <2>3, <2>4, RespondStep
<1>5. CASE Open(c)
  <2>1. /\ DOMAIN call = Clients /\ call[c].pod \in Pods
        /\ call'[c] = [stage |-> "opened", key |-> call[c].key, cookie |-> call[c].cookie,
                       pod |-> call[c].pod, opener |-> CurrentBoot(call[c].pod)]
        /\ CurrentBoot(call[c].pod) \in Boots
    BY <1>0, <1>5, CurrentIsBoot DEF Shape, Calls, Open
  <2>2. Shape'
    <3>1. call' \in [Clients -> Calls]
      BY <1>0, <1>5, <2>1 DEF Shape, Calls, CallStages, Open, Keys
    <3>. QED BY <1>0, <1>5, <3>1 DEF Shape, Open, fleet, clientVars, history
  <2>3. ASSUME NEW d \in Clients PROVE Tied(d)'
    <3>1. CASE d = c
      <4>1. /\ UNCHANGED <<pc[c], retried[c], verdict[c], assignment[c], reply[c], number, up>>
            /\ pc[c] = "matching" /\ call[c].stage = "relayed" /\ call[c].pod \in up
            /\ call[c].key = CurrentBoot(call[c].pod)
        BY <1>5 DEF Open, AtHost, fleet, clientVars
      <4>2. OperationOf(c)'
        BY <1>0, <4>1 DEF Tied, OperationOf, Waiting
      <4>3. RequestOf(c)'
        BY <1>0, <2>1, <4>1, NoBootIsNoBoot DEF Tied, RequestOf, CurrentBoot
      <4>4. AnswerOf(c)'
        BY <1>0, <2>1, <4>1, AnswerFacts DEF Tied, AnswerOf
      <4>. QED BY <3>1, <4>2, <4>3, <4>4 DEF Tied
    <3>2. CASE d # c
      BY <1>0, <1>5, <3>2, OthersKept DEF Shape, Open, fleet, clientVars
    <3>. QED BY <3>1, <3>2
  <2>. QED BY <2>2, <2>3 DEF EInv, Tied
<1>6. CASE RefuseToOpen(c)
  <2>. DEFINE r == To(MatchAnswer(Operation("RequestNotOpened")), NoBoot)
  <2>1. r.pod = call[c].pod /\ r.key = NoBoot /\ r.answer # ApiOk
    BY AnswerFacts DEF Reply
  <2>2. /\ Respond(c, r) /\ UNCHANGED history /\ call[c].stage # "none" /\ pc[c] = "matching"
        /\ call[c].opener = NoBoot
    BY <1>0, <1>6 DEF RefuseToOpen, AtHost, Tied, RequestOf
  <2>. HIDE DEF r
  <2>. QED BY <1>a, <2>1, <2>2, RespondStep
<1>7. CASE Answer(c)
  <2>1. PICK o \in {Ok, Operation("Internal"), Transport} : Respond(c, To(MatchAnswer(o), NoBoot))
    BY <1>7 DEF Answer
  <2>. DEFINE r == To(MatchAnswer(o), NoBoot)
  <2>2. r.pod = call[c].pod /\ r.key = NoBoot /\ r.answer = MatchAnswer(o)
    BY DEF Reply
  <2>3. ~Demanded(MatchAnswer(o))
    BY AnswerFacts
  <2>4. /\ Respond(c, r) /\ UNCHANGED history /\ call[c].stage # "none"
        /\ call[c].opener # NoBoot /\ pc[c] = "matching"
    BY <1>0, <1>7, <2>1 DEF Answer, Tied, RequestOf
  <2>. HIDE DEF r
  <2>. QED BY <1>a, <2>2, <2>3, <2>4, RespondStep
<1>8. CASE OpenLate(c)
  <2>1. /\ DOMAIN call = Clients /\ call[c].pod \in Pods
        /\ call'[c] = [stage |-> "over", key |-> call[c].key, cookie |-> call[c].cookie,
                       pod |-> call[c].pod, opener |-> CurrentBoot(call[c].pod)]
        /\ CurrentBoot(call[c].pod) \in Boots
    BY <1>0, <1>8, CurrentIsBoot DEF Shape, Calls, OpenLate
  <2>2. Shape'
    <3>1. call' \in [Clients -> Calls]
      BY <1>0, <1>8, <2>1 DEF Shape, Calls, CallStages, OpenLate, Keys
    <3>. QED BY <1>0, <1>8, <3>1 DEF Shape, OpenLate, fleet, clientVars, history
  <2>3. ASSUME NEW d \in Clients PROVE Tied(d)'
    <3>1. CASE d = c
      <4>1. /\ UNCHANGED <<pc[c], retried[c], verdict[c], assignment[c], reply[c], number, up>>
            /\ pc[c] = "matching" /\ reply[c].answer = MatchAnswer(TimedOut)
            /\ call[c].key = CurrentBoot(call[c].pod)
        BY <1>8 DEF OpenLate, fleet, clientVars
      <4>2. OperationOf(c)'
        BY <1>0, <4>1 DEF Tied, OperationOf, Waiting
      <4>3. RequestOf(c)'
        BY <1>0, <2>1, <4>1 DEF Tied, RequestOf
      <4>4. AnswerOf(c)'
        BY <1>0, <2>1, <4>1, AnswerFacts DEF Tied, AnswerOf
      <4>. QED BY <3>1, <4>2, <4>3, <4>4 DEF Tied
    <3>2. CASE d # c
      BY <1>0, <1>8, <3>2, OthersKept DEF Shape, OpenLate, fleet, clientVars
    <3>. QED BY <3>1, <3>2
  <2>. QED BY <2>2, <2>3 DEF EInv, Tied
<1>. QED BY <1>1, <1>2, <1>3, <1>4, <1>5, <1>6, <1>7, <1>8 DEF ServiceStep

\* The fleet: exits answer what was being worked on, restarts change keys.
LEMMA FleetKeeps == ASSUME EInv, FleetStep PROVE EInv'
<1>0. Shape /\ \A d \in Clients : Tied(d)
  BY DEF EInv, Tied
<1>1. ASSUME NEW p \in Pods, Exit(p) PROVE EInv'
  <2>. DEFINE lost == {c \in Clients : call[c].stage = "opened" /\ call[c].pod = p}
  <2>1. ASSUME NEW c \in Clients
        PROVE  /\ call'[c] = IF c \in lost THEN [call[c] EXCEPT !.stage = "over"] ELSE call[c]
               /\ reply'[c] = IF c \in lost THEN Reply(MatchAnswer(Transport), p, NoBoot) ELSE reply[c]
               /\ UNCHANGED <<pc[c], retried[c], verdict[c], assignment[c], number>>
    BY <1>1 DEF Exit, clientVars
  <2>2. up' = up \ {p}
    BY <1>1 DEF Exit
  <2>3. ASSUME NEW c \in Clients
        PROVE  call'[c] \in Calls /\ reply'[c].pod \in Pods \cup {NoPod} /\ reply'[c].key \in Keys
    <3>1. call[c] \in Calls /\ reply[c].pod \in Pods \cup {NoPod} /\ reply[c].key \in Keys
      BY <1>0 DEF Shape
    <3>2. [call[c] EXCEPT !.stage = "over"] \in Calls
      BY <3>1 DEF Calls, CallStages
    <3>3. LET r == Reply(MatchAnswer(Transport), p, NoBoot) IN r.pod = p /\ r.key = NoBoot
      BY DEF Reply
    <3>. QED BY <2>1, <3>1, <3>2, <3>3 DEF Keys
  <2>4. Shape'
    <3>1. call' \in [Clients -> Calls]
      BY <1>1, <2>3 DEF Exit
    <3>2. DOMAIN reply' = Clients /\ reply' = [c \in Clients |-> reply'[c]]
      BY <1>1 DEF Exit
    <3>3. disturbances' \in 0 .. MaxDisturbances /\ lapsed' \subseteq Clients
      BY <1>0, <1>1, ExchangeAssumption DEF Exit, Disturb, Shape, AssignedTo
    <3>. QED BY <1>0, <1>1, <2>2, <2>3, <3>1, <3>2, <3>3 DEF Exit, Shape, clientVars
  <2>5. ASSUME NEW c \in Clients PROVE Tied(c)'
    <3>1. CASE c \in lost
      <4>1. call[c] \in Calls
        BY <1>0 DEF Shape
      <4>2. /\ call'[c].stage = "over" /\ call'[c].key = call[c].key
            /\ call'[c].pod = call[c].pod /\ call'[c].opener = call[c].opener
            /\ reply'[c].answer = MatchAnswer(Transport)
            /\ call[c] # NoCall /\ pc[c] = "matching"
        <5>1. call'[c] = [call[c] EXCEPT !.stage = "over"]
          BY <2>1, <3>1
        <5>2. reply'[c].answer = MatchAnswer(Transport)
          <6>1. reply'[c] = Reply(MatchAnswer(Transport), p, NoBoot)
            BY <2>1, <3>1
          <6>2. Reply(MatchAnswer(Transport), p, NoBoot).answer = MatchAnswer(Transport)
            BY DEF Reply
          <6>. QED BY <6>1, <6>2
        <5>3. call[c].stage = "opened" /\ call[c] # NoCall
          BY <3>1 DEF NoCall
        <5>. QED BY <1>0, <4>1, <5>1, <5>2, <5>3 DEF Calls, Tied, RequestOf
      <4>3. MatchAnswer(Transport) # ApiOk /\ ~Demanded(MatchAnswer(Transport))
        BY AnswerFacts
      <4>4. OperationOf(c)'
        BY <1>0, <2>1, <4>2 DEF Tied, OperationOf, Waiting
      <4>5. RequestOf(c)' /\ AnswerOf(c)'
        BY <1>0, <2>1, <4>2, <4>3 DEF Tied, RequestOf, AnswerOf
      <4>. QED BY <4>4, <4>5 DEF Tied
    <3>2. CASE c \notin lost
      <4>1. UNCHANGED <<pc[c], retried[c], verdict[c], assignment[c], call[c], reply[c], number>>
        BY <2>1, <3>2
      <4>2. call[c].stage = "opened" => call[c].pod # p
        BY <3>2
      <4>. QED BY <1>0, <2>2, <4>1, <4>2 DEF Tied, OperationOf, RequestOf, AnswerOf, CurrentBoot
    <3>. QED BY <3>1, <3>2
  <2>. QED BY <2>4, <2>5 DEF EInv, Tied
<1>2. ASSUME NEW p \in Pods, Restart(p) PROVE EInv'
  <2>1. Shape'
    BY <1>0, <1>2, ExchangeAssumption DEF Shape, Restart, clientVars, history
  <2>2. ASSUME NEW c \in Clients PROVE Tied(c)'
    <3>1. /\ UNCHANGED <<pc[c], retried[c], verdict[c], assignment[c], call[c], reply[c]>>
          /\ up' = up \cup {p}
      BY <1>2 DEF Restart, clientVars
    <3>2. ASSUME call[c].stage = "opened" PROVE CurrentBoot(call[c].pod)' = CurrentBoot(call[c].pod)
      <4>1. call[c].pod \in Pods /\ call[c].pod # p
        BY <1>0, <1>2, <3>2 DEF Tied, RequestOf, Restart, Shape
      <4>2. number'[call[c].pod] = number[call[c].pod]
        BY <1>0, <1>2, <4>1 DEF Restart, Shape
      <4>. QED BY <3>1, <4>2 DEF CurrentBoot
    <3>3. OperationOf(c)' /\ AnswerOf(c)'
      BY <1>0, <3>1 DEF Tied, OperationOf, AnswerOf
    <3>4. RequestOf(c)'
      BY <1>0, <3>1, <3>2 DEF Tied, RequestOf
    <3>. QED BY <3>3, <3>4 DEF Tied
  <2>. QED BY <2>1, <2>2 DEF EInv, Tied
<1>3. ASSUME NEW p \in Pods, Probe(p) \/ ProbeTimesOut(p) PROVE EInv'
  <2>1. Shape'
    BY <1>0, <1>3, ExchangeAssumption DEF Shape, Probe, ProbeTimesOut, Disturb, AssignedTo, clientVars
  <2>2. ASSUME NEW c \in Clients PROVE Tied(c)'
    BY <1>0, <1>3, OthersKept DEF Probe, ProbeTimesOut, clientVars
  <2>. QED BY <2>1, <2>2 DEF EInv, Tied
<1>. QED BY <1>1, <1>2, <1>3 DEF FleetStep

LEMMA ExchangeStep == EInv /\ [Next]_vars => EInv'
<1>. SUFFICES ASSUME EInv, [Next]_vars PROVE EInv'
  OBVIOUS
<1>1. CASE UNCHANGED vars
  BY <1>1 DEF vars, fleet, clientVars, history, EInv, Shape, OperationOf, RequestOf, AnswerOf, CurrentBoot
<1>. QED BY <1>1, ClientKeeps, ServiceKeeps, FleetKeeps DEF Next

LEMMA ExchangeAlways == Spec => []EInv
BY ExchangeInit, ExchangeStep, PTL DEF Spec

-----------------------------------------------------------------------------
(* The theorems. *)

\* The state has its shape for any number of clients, pods, boots and faults.
THEOREM TypeCorrect == Spec => []TypeOK
<1>1. EInv => TypeOK
  BY DEF EInv, Shape, TypeOK, Calls, Keys, Cookies
<1>. QED BY <1>1, ExchangeAlways, PTL

\* Only the boot whose attestation the client verified works on its plaintext,
\* whatever pods exit, restart or leave the rotation meanwhile.
THEOREM OpenedOnlyByTheAttestedBoot == Spec => []OpenedByTheAttestedBoot
<1>1. EInv => OpenedByTheAttestedBoot
  BY DEF EInv, RequestOf, OpenedByTheAttestedBoot
<1>. QED BY <1>1, ExchangeAlways, PTL

-----------------------------------------------------------------------------
(* Each client's operation is one of SealedOperation. *)

\* What SealedOperation sees of one client is as it was.
Same(c) ==
    /\ Phase'[c] = Phase[c] /\ Attempts'[c] = Attempts[c] /\ Trusted'[c] = Trusted[c]
    /\ Reader'[c] = Reader[c] /\ Outcome'[c] = Outcome[c]

\* It is so for a client whose own state a step leaves alone.
LEMMA SameKept ==
    ASSUME NEW c \in Clients,
           UNCHANGED <<pc[c], retried[c], assignment[c], verdict[c]>>,
           call'[c].opener = call[c].opener
    PROVE  Same(c)
BY DEF Same, Phase, Attempts, Trusted, Reader, Outcome

\* A step no client's operation shows in.
LEMMA Stutter ==
    ASSUME \A c \in Clients : Same(c)
    PROVE  UNCHANGED Operations!operationVars
<1>1. Phase' = Phase
  BY DEF Same, Phase
<1>2. Attempts' = Attempts
  BY DEF Same, Attempts
<1>3. Trusted' = Trusted
  BY DEF Same, Trusted
<1>4. Reader' = Reader
  BY DEF Same, Reader
<1>5. Outcome' = Outcome
  BY DEF Same, Outcome
<1>. QED BY <1>1, <1>2, <1>3, <1>4, <1>5 DEF Operations!operationVars

\* A step that shows in the operation of one client only.
LEMMA OneMoves ==
    ASSUME NEW c \in Clients, \A d \in Clients \ {c} : Same(d)
    PROVE  /\ Phase' = [Phase EXCEPT ![c] = Phase'[c]]
           /\ Attempts' = [Attempts EXCEPT ![c] = Attempts'[c]]
           /\ Trusted' = [Trusted EXCEPT ![c] = Trusted'[c]]
           /\ Reader' = [Reader EXCEPT ![c] = Reader'[c]]
           /\ Outcome' = [Outcome EXCEPT ![c] = Outcome'[c]]
           /\ Phase'[c] = Phase[c] => Phase' = Phase
           /\ Attempts'[c] = Attempts[c] => Attempts' = Attempts
           /\ Trusted'[c] = Trusted[c] => Trusted' = Trusted
           /\ Reader'[c] = Reader[c] => Reader' = Reader
           /\ Outcome'[c] = Outcome[c] => Outcome' = Outcome
<1>1. /\ Phase' = [Phase EXCEPT ![c] = Phase'[c]]
      /\ Phase'[c] = Phase[c] => Phase' = Phase
  BY DEF Same, Phase
<1>2. /\ Attempts' = [Attempts EXCEPT ![c] = Attempts'[c]]
      /\ Attempts'[c] = Attempts[c] => Attempts' = Attempts
  BY DEF Same, Attempts
<1>3. /\ Trusted' = [Trusted EXCEPT ![c] = Trusted'[c]]
      /\ Trusted'[c] = Trusted[c] => Trusted' = Trusted
  BY DEF Same, Trusted
<1>4. /\ Reader' = [Reader EXCEPT ![c] = Reader'[c]]
      /\ Reader'[c] = Reader[c] => Reader' = Reader
  BY DEF Same, Reader
<1>5. /\ Outcome' = [Outcome EXCEPT ![c] = Outcome'[c]]
      /\ Outcome'[c] = Outcome[c] => Outcome' = Outcome
  BY DEF Same, Outcome
<1>. QED BY <1>1, <1>2, <1>3, <1>4, <1>5

LEMMA OperationInit == Init => Operations!Init
BY DEF Init, Operations!Init, Phase, Attempts, Trusted, Reader, Outcome, Sealed, NoCall

\* The end of an operation, as SealedOperation has it.
LEMMA OperationEnds ==
    ASSUME EInv, NEW c \in Clients, NEW how \in Verdicts, End(c, how), pc[c] # "start",
           how # "none", how = "Result" => pc[c] = "matching" /\ reply[c].answer = ApiOk
    PROVE  Operations!Next
<1>. DEFINE abstract == IF how = "Result" THEN "Result" ELSE "Failed"
<1>1. \A d \in Clients \ {c} : Same(d)
  BY SameKept DEF End, EInv, Shape
<1>2. /\ pc'[c] = "start" /\ verdict'[c] = how /\ call'[c] = NoCall
  BY DEF End, EInv, Shape
<1>3. /\ Phase'[c] = "idle" /\ Attempts'[c] = 0 /\ Trusted'[c] = NoBoot /\ Reader'[c] = NoBoot
      /\ Outcome'[c] = abstract
  BY <1>2 DEF Phase, Attempts, Trusted, Reader, Outcome, Sealed, NoCall
<1>4. Phase[c] # "idle"
  BY DEF Phase
<1>5. how = "Result" => Reader[c] \in Boots /\ Reader[c] = Trusted[c]
  BY DEF EInv, OperationOf, RequestOf, AnswerOf, Reader, Trusted, Sealed
<1>6. abstract = "Result" => how = "Result"
  OBVIOUS
<1>7. abstract \in {"Result", "Failed"}
  OBVIOUS
<1>. HIDE DEF abstract
<1>8. Operations!End(c, abstract)
  BY <1>1, <1>3, <1>4, <1>5, <1>6, OneMoves DEF Operations!End
<1>. QED BY <1>7, <1>8 DEF Operations!Next

\* Every step is a step of some client's operation, or shows in none.
LEMMA OperationStep == EInv /\ [Next]_vars => [Operations!Next]_(Operations!operationVars)
<1>. SUFFICES ASSUME EInv, [Next]_vars PROVE [Operations!Next]_(Operations!operationVars)
  OBVIOUS
<1>0. Shape /\ \A d \in Clients : OperationOf(d) /\ RequestOf(d) /\ AnswerOf(d)
  BY DEF EInv
<1>1. ASSUME NEW c \in Clients, RequestAssignment(c)
      PROVE  [Operations!Next]_(Operations!operationVars)
  <2>1. \A d \in Clients \ {c} : Same(d)
    BY <1>0, <1>1, SameKept DEF Shape, RequestAssignment, Send
  <2>2. /\ pc[c] \in {"start", "reassign"} /\ pc'[c] = "assigning" /\ verdict'[c] = "none"
        /\ retried'[c] = (pc[c] = "reassign")
        /\ call[c].opener = NoBoot /\ call'[c].opener = NoBoot
    BY <1>0, <1>1 DEF Shape, RequestAssignment, Send, OperationOf, NoCall, Waiting
  <2>3. /\ Phase'[c] = "asking" /\ Trusted'[c] = Trusted[c] /\ Reader'[c] = Reader[c]
        /\ Outcome'[c] = "none"
    BY <2>2 DEF Phase, Trusted, Reader, Outcome, Sealed
  <2>4. CASE pc[c] = "start"
    <3>1. Phase[c] = "idle" /\ Attempts'[c] = 1
      BY <2>2, <2>4 DEF Phase, Attempts
    <3>2. Operations!Begin(c)
      BY <2>1, <2>3, <3>1, OneMoves DEF Operations!Begin
    <3>. QED BY <3>2 DEF Operations!Next
  <2>5. CASE pc[c] = "reassign"
    <3>1. verdict[c] = "none"
      BY <1>0, <2>5 DEF OperationOf
    <3>2. Phase[c] = "asking" /\ Attempts[c] = 2 /\ Attempts'[c] = 2 /\ Outcome[c] = "none"
      BY <2>2, <2>5, <3>1 DEF Phase, Attempts, Sealed, Outcome
    <3>3. Same(c)
      BY <2>3, <3>2 DEF Same
    <3>. QED BY <2>1, <3>3, Stutter
  <2>. QED BY <2>2, <2>4, <2>5
<1>2. ASSUME NEW c \in Clients, RequestMatch(c)
      PROVE  [Operations!Next]_(Operations!operationVars)
  <2>1. \A d \in Clients \ {c} : Same(d)
    BY <1>0, <1>2, SameKept DEF Shape, RequestMatch, Send
  <2>2. /\ pc'[c] = "matching" /\ verdict'[c] = "none"
        /\ UNCHANGED <<retried[c], assignment[c]>>
        /\ call[c].opener = NoBoot /\ call'[c].opener = NoBoot
    BY <1>0, <1>2 DEF Shape, RequestMatch, Send, OperationOf, NoCall, Waiting
  <2>3. CASE pc[c] = "assigned"
    <3>1. verdict[c] = "none"
      BY <1>0, <2>3 DEF OperationOf
    <3>2. Same(c)
      BY <2>2, <2>3, <3>1 DEF Same, Phase, Attempts, Trusted, Reader, Outcome, Sealed
    <3>. QED BY <2>1, <3>2, Stutter
  <2>4. CASE pc[c] = "start"
    <3>1. assignment[c] \in Boots /\ ~retried[c]
      BY <1>0, <1>2, <2>4 DEF RequestMatch, Shape, Keys, OperationOf
    <3>2. /\ Phase[c] = "idle" /\ Phase'[c] = "sealed" /\ Attempts'[c] = 1
          /\ Trusted'[c] = assignment[c] /\ Reader'[c] = Reader[c] /\ Outcome'[c] = "none"
      BY <2>2, <2>4, <3>1 DEF Phase, Attempts, Trusted, Reader, Outcome, Sealed
    <3>3. Operations!Resume(c, assignment[c])
      BY <2>1, <3>2, OneMoves DEF Operations!Resume
    <3>. QED BY <3>1, <3>3 DEF Operations!Next
  <2>. QED BY <1>2, <2>3, <2>4 DEF RequestMatch
<1>3. ASSUME NEW c \in Clients, AcceptAssignment(c)
      PROVE  [Operations!Next]_(Operations!operationVars)
  <2>1. \A d \in Clients \ {c} : Same(d)
    BY <1>0, <1>3, SameKept DEF Shape, AcceptAssignment
  <2>2. /\ pc[c] = "assigning" /\ pc'[c] = "assigned"
        /\ UNCHANGED <<retried[c], verdict[c]>>
        /\ assignment'[c] = reply[c].key /\ reply[c].key \in Boots
        /\ call[c].opener = NoBoot /\ call'[c].opener = NoBoot
    BY <1>0, <1>3 DEF Shape, AcceptAssignment, Answered, RequestOf, AnswerOf, NoCall
  <2>3. /\ Phase[c] = "asking" /\ Phase'[c] = "sealed" /\ Trusted'[c] = reply[c].key
        /\ Attempts'[c] = Attempts[c] /\ Reader'[c] = Reader[c] /\ Outcome'[c] = Outcome[c]
    BY <2>2 DEF Phase, Attempts, Trusted, Reader, Outcome, Sealed
  <2>4. Operations!Trust(c, reply[c].key)
    BY <2>1, <2>3, OneMoves DEF Operations!Trust
  <2>. QED BY <2>2, <2>4 DEF Operations!Next
<1>4. ASSUME NEW c \in Clients, RetryOnce(c)
      PROVE  [Operations!Next]_(Operations!operationVars)
  <2>1. \A d \in Clients \ {c} : Same(d)
    BY <1>0, <1>4, SameKept DEF Shape, RetryOnce
  <2>2. /\ pc[c] = "matching" /\ pc'[c] = "reassign" /\ ~retried[c]
        /\ UNCHANGED verdict[c] /\ Demanded(reply[c].answer)
        /\ call[c].opener = NoBoot /\ call'[c].opener = NoBoot
    BY <1>0, <1>4 DEF Shape, RetryOnce, Answered, AnswerOf, Demanded, NoCall
  <2>3. /\ Phase[c] = "sealed" /\ Phase'[c] = "asking" /\ Reader[c] = NoBoot
        /\ Attempts[c] = 1 /\ Attempts'[c] = 2 /\ Trusted'[c] = NoBoot
        /\ Reader'[c] = Reader[c] /\ Outcome'[c] = Outcome[c]
    BY <2>2 DEF Phase, Attempts, Trusted, Reader, Outcome, Sealed
  <2>4. Operations!Again(c)
    BY <2>1, <2>3, OneMoves DEF Operations!Again
  <2>. QED BY <2>4 DEF Operations!Next
<1>5. ASSUME NEW c \in Clients,
             RefuseAssignment(c) \/ ReceiveResult(c) \/ FailMatch(c) \/ RequestFails(c)
      PROVE  [Operations!Next]_(Operations!operationVars)
  <2>1. ClientError(reply[c].answer) \in {"ReassignRequired", "Api", "Status"}
    BY DEF ClientError
  <2>2. PICK how \in Verdicts : /\ End(c, how) /\ how # "none" /\ pc[c] # "start"
                                /\ how = "Result" => pc[c] = "matching" /\ reply[c].answer = ApiOk
    BY <1>5, <2>1 DEF RefuseAssignment, ReceiveResult, FailMatch, RequestFails, Answered,
       Waiting, Verdicts
  <2>. QED BY <2>2, OperationEnds
<1>6. ASSUME NEW c \in Clients, Open(c)
      PROVE  [Operations!Next]_(Operations!operationVars)
  <2>1. \A d \in Clients \ {c} : Same(d)
    BY <1>0, <1>6, SameKept DEF Shape, Open, clientVars
  <2>2. /\ pc[c] = "matching"
        /\ UNCHANGED <<pc[c], retried[c], assignment[c], verdict[c]>>
        /\ call[c].opener = NoBoot
        /\ call[c].key = assignment[c] /\ call[c].key = CurrentBoot(call[c].pod)
    BY <1>0, <1>6 DEF Open, AtHost, RequestOf, clientVars
  <2>3. call'[c].opener = CurrentBoot(call[c].pod)
    BY <1>0, <1>6 DEF Open, Shape, Calls
  <2>4. /\ Phase[c] = "sealed" /\ Reader[c] = NoBoot /\ Reader'[c] = Trusted[c]
        /\ Phase'[c] = Phase[c] /\ Attempts'[c] = Attempts[c] /\ Trusted'[c] = Trusted[c]
        /\ Outcome'[c] = Outcome[c]
    BY <2>2, <2>3 DEF Phase, Attempts, Trusted, Reader, Outcome, Sealed
  <2>5. Operations!Read(c)
    BY <2>1, <2>4, OneMoves DEF Operations!Read
  <2>. QED BY <2>5 DEF Operations!Next
<1>12. ASSUME NEW c \in Clients, OpenLate(c)
       PROVE  [Operations!Next]_(Operations!operationVars)
  <2>1. \A d \in Clients \ {c} : Same(d)
    BY <1>0, <1>12, SameKept DEF Shape, OpenLate, clientVars
  <2>2. /\ pc[c] = "matching"
        /\ UNCHANGED <<pc[c], retried[c], assignment[c], verdict[c]>>
        /\ call[c].opener = NoBoot
        /\ call[c].key = assignment[c] /\ call[c].key = CurrentBoot(call[c].pod)
    BY <1>0, <1>12 DEF OpenLate, RequestOf, clientVars
  <2>3. call'[c].opener = CurrentBoot(call[c].pod)
    BY <1>0, <1>12 DEF OpenLate, Shape, Calls
  <2>4. /\ Phase[c] = "sealed" /\ Reader[c] = NoBoot /\ Reader'[c] = Trusted[c]
        /\ Phase'[c] = Phase[c] /\ Attempts'[c] = Attempts[c] /\ Trusted'[c] = Trusted[c]
        /\ Outcome'[c] = Outcome[c]
    BY <2>2, <2>3 DEF Phase, Attempts, Trusted, Reader, Outcome, Sealed
  <2>5. Operations!Read(c)
    BY <2>1, <2>4, OneMoves DEF Operations!Read
  <2>. QED BY <2>5 DEF Operations!Next
<1>7. ASSUME NEW c \in Clients, NEW r, Respond(c, r)
      PROVE  [Operations!Next]_(Operations!operationVars)
  <2>1. ASSUME NEW d \in Clients PROVE call'[d].opener = call[d].opener
    <3>1. call[d] \in Calls
      BY <1>0 DEF Shape
    <3>. QED BY <1>0, <1>7, <3>1 DEF Shape, Respond, Calls
  <2>2. \A d \in Clients : Same(d)
    BY <1>7, <2>1, SameKept DEF Respond, clientVars
  <2>. QED BY <2>2, Stutter
<1>8. ASSUME NEW c \in Clients, Route(c)
      PROVE  [Operations!Next]_(Operations!operationVars)
  <2>1. ASSUME NEW d \in Clients PROVE call'[d].opener = call[d].opener
    BY <1>0, <1>8 DEF Shape, Route, Calls
  <2>2. \A d \in Clients : Same(d)
    BY <1>8, <2>1, SameKept DEF Route, clientVars
  <2>. QED BY <2>2, Stutter
<1>9. ASSUME FleetStep PROVE [Operations!Next]_(Operations!operationVars)
  <2>1. ASSUME NEW d \in Clients PROVE call'[d].opener = call[d].opener
    BY <1>0, <1>9 DEF Shape, FleetStep, Exit, Restart, Probe, ProbeTimesOut, Calls
  <2>2. \A d \in Clients : Same(d)
    BY <1>9, <2>1, SameKept DEF FleetStep, Exit, Restart, Probe, ProbeTimesOut, clientVars
  <2>. QED BY <2>2, Stutter
<1>10. CASE UNCHANGED vars
  <2>1. \A d \in Clients : Same(d)
    BY <1>10, SameKept DEF vars, clientVars
  <2>. QED BY <2>1, Stutter
<1>11. ASSUME NEW c \in Clients, ServiceStep(c)
       PROVE  [Operations!Next]_(Operations!operationVars)
  BY <1>6, <1>7, <1>8, <1>11, <1>12 DEF ServiceStep, NoTarget, Assign, Unreachable, HostTimesOut,
     RefuseToOpen, Answer
<1>. QED BY <1>1, <1>2, <1>3, <1>4, <1>5, <1>9, <1>10, <1>11 DEF Next, ClientStep

\* Exits, restarts, late probes, lost answers and the retry leave each client
\* with an operation of SealedOperation.
THEOREM OperationsAreSealed == Spec => ImplementsSealedOperation
BY OperationInit, OperationStep, ExchangeAlways, PTL
   DEF Spec, ImplementsSealedOperation, Operations!Spec

\* Once an enclave has read what a client sealed, it stays the only one that has
\* until the operation ends: no timeout, retry or restart makes the client seal
\* again or change whom it trusts.
THEOREM ReadOnce ==
    Spec => [][\A c \in Clients : Reader[c] # NoBoot =>
                    \/ Phase'[c] = "idle"
                    \/ /\ Phase'[c] = "sealed" /\ Trusted'[c] = Trusted[c]
                       /\ Reader'[c] = Reader[c] /\ Reader[c] = Trusted[c]]_vars
<1>. DEFINE Settled(c) ==
        \/ Phase'[c] = "idle"
        \/ /\ Phase'[c] = "sealed" /\ Trusted'[c] = Trusted[c]
           /\ Reader'[c] = Reader[c] /\ Reader[c] = Trusted[c]
<1>1. ASSUME EInv, NEW c \in Clients, Reader[c] # NoBoot
      PROVE  Phase[c] = "sealed" /\ Reader[c] = Trusted[c]
  BY <1>1 DEF EInv, RequestOf, Reader, Phase, Trusted, Sealed
<1>2. EInv /\ EInv' /\ [Next]_vars => [\A c \in Clients : Reader[c] # NoBoot => Settled(c)]_vars
  <2>. SUFFICES ASSUME EInv, EInv', Next, NEW c \in Clients, Reader[c] # NoBoot PROVE Settled(c)
    OBVIOUS
  <2>1. [Operations!Next]_(Operations!operationVars)
    BY OperationStep
  <2>2. Phase[c] = "sealed" /\ Reader[c] = Trusted[c]
    BY <1>1
  <2>3. /\ DOMAIN Phase = Clients /\ DOMAIN Reader = Clients /\ DOMAIN Trusted = Clients
    BY DEF Phase, Reader, Trusted
  <2>4. CASE UNCHANGED Operations!operationVars
    BY <2>2, <2>4 DEF Operations!operationVars
  <2>5. ASSUME NEW d \in Clients,
               \/ Operations!Begin(d) \/ Operations!Read(d) \/ Operations!Again(d)
               \/ \E b \in Boots : Operations!Trust(d, b) \/ Operations!Resume(d, b)
        PROVE  Settled(c)
    BY <2>2, <2>3, <2>5 DEF Operations!Begin, Operations!Read, Operations!Again, Operations!Trust,
       Operations!Resume
  <2>6. ASSUME NEW d \in Clients, NEW how, Operations!End(d, how) PROVE Settled(c)
    BY <2>2, <2>3, <2>6 DEF Operations!End
  <2>. QED BY <2>1, <2>4, <2>5, <2>6 DEF Operations!Next
<1>. QED BY <1>2, ExchangeAlways, PTL DEF Spec

-----------------------------------------------------------------------------
(* A demand to re-assign is deserved. *)

\* The client, its jar and its pod, while nothing happened to the pod since it was
\* asked for the assignment, and the jar was not made to name another: jar,
\* assignment and request name the boot that runs.
Holds(c) ==
    /\ pc[c] = "assigning" /\ call[c].stage = "relayed" => call[c].pod \in ready
    /\ pc[c] = "assigning" /\ reply[c].answer = ApiOk =>
        /\ call[c].pod \in ready \cap up
        /\ reply[c].pod = call[c].pod
        /\ reply[c].key = CurrentBoot(call[c].pod)
    /\ assignment[c] # NoBoot =>
        /\ assignment[c].pod \in ready \cap up
        /\ cookie[Jar[c]] = assignment[c].pod
        /\ assignment[c] = CurrentBoot(assignment[c].pod)
    /\ pc[c] = "matching" =>
        /\ call[c].cookie = assignment[c].pod
        /\ call[c].stage = "relayed" => call[c].pod = assignment[c].pod
        /\ {call[c].pod, reply[c].pod} \subseteq {NoPod, assignment[c].pod}
        /\ ~Demanded(reply[c].answer)

RInv == \A c \in Clients : c \notin lapsed \cup strayed => Holds(c)

LEMMA HoldsKept ==
    ASSUME NEW c \in Clients, Holds(c), UNCHANGED <<number, up, ready>>,
           UNCHANGED <<pc[c], cookie[Jar[c]], assignment[c], call[c], reply[c]>>
    PROVE  Holds(c)'
BY DEF Holds, CurrentBoot

LEMMA ReassignInit == Init => RInv
BY DEF Init, RInv, Holds

\* What the jar of a client becomes: its own answer names its pod, and another
\* client's answer leaves it alone or makes it stray.
LEMMA JarKept ==
    ASSUME EInv, RInv, NEW c \in Clients, KeepCookie(c), NEW d \in Clients,
           d \notin lapsed \cup strayed', assignment[d] # NoBoot,
           d = c => reply[c].pod \in {NoPod, assignment[c].pod}
    PROVE  cookie'[Jar[d]] = assignment[d].pod
<1>. USE ExchangeAssumption
<1>1. d \notin strayed /\ cookie[Jar[d]] = assignment[d].pod
  BY DEF KeepCookie, RInv, Holds
<1>2. CASE reply[c].pod = NoPod
  BY <1>1, <1>2 DEF KeepCookie
<1>3. CASE reply[c].pod # NoPod
  <2>1. cookie' = [cookie EXCEPT ![Jar[c]] = reply[c].pod] /\ strayed' = strayed \cup Displaced(c, reply[c].pod)
    BY <1>3 DEF KeepCookie
  <2>2. cookie'[Jar[d]] = IF Jar[d] = Jar[c] THEN reply[c].pod ELSE cookie[Jar[d]]
    BY <2>1 DEF EInv, Shape
  <2>3. d # c /\ Jar[d] = Jar[c] => assignment[d].pod = reply[c].pod
    BY <2>1 DEF Displaced
  <2>. QED BY <1>1, <1>3, <2>2, <2>3
<1>. QED BY <1>2, <1>3

LEMMA ReassignClient ==
    ASSUME EInv, RInv, NEW c \in Clients, RequestAssignment(c) \/ ClientStep(c) \/ RequestFails(c)
    PROVE  RInv'
<1>0. /\ Shape /\ UNCHANGED <<number, up, ready, lapsed>>
      /\ \A d \in Clients : OperationOf(d) /\ RequestOf(d) /\ AnswerOf(d)
      /\ KeepCookie(c) \/ UNCHANGED <<cookie, strayed>>
  BY DEF EInv, ClientStep, RequestAssignment, RequestMatch, AcceptAssignment, RefuseAssignment,
     ReceiveResult, RetryOnce, FailMatch, RequestFails, End, fleet, history
<1>a. strayed \subseteq strayed'
  BY <1>0 DEF KeepCookie
<1>1. ASSUME NEW d \in Clients \ {c}, d \notin lapsed \cup strayed' PROVE Holds(d)'
  <2>1. UNCHANGED <<pc[d], assignment[d], call[d], reply[d]>>
    BY <1>0 DEF Shape, ClientStep, RequestAssignment, RequestMatch, AcceptAssignment,
       RefuseAssignment, ReceiveResult, RetryOnce, FailMatch, RequestFails, Send, End
  <2>2. Holds(d)
    BY <1>1, <1>a DEF RInv
  <2>3. assignment[d] # NoBoot => cookie'[Jar[d]] = assignment[d].pod
    BY <1>0, <1>1, <2>2, JarKept DEF Holds
  <2>. QED BY <1>0, <2>1, <2>2, <2>3 DEF Holds, CurrentBoot
<1>2. ASSUME c \notin lapsed \cup strayed' PROVE Holds(c)'
  <2>0. Holds(c)
    BY <1>2, <1>a DEF RInv
  <2>1. CASE RequestAssignment(c)
    <3>1. /\ pc'[c] = "assigning" /\ call'[c].stage = "sent" /\ reply'[c] = NoReply
          /\ assignment'[c] = NoBoot
      BY <1>0, <2>1 DEF Shape, RequestAssignment, Send, NoCall
    <3>. QED BY <3>1, AnswerFacts DEF Holds
  <2>2. CASE RequestMatch(c)
    <3>1. /\ pc'[c] = "matching" /\ call'[c].stage = "sent" /\ call'[c].pod = NoPod
          /\ call'[c].cookie = cookie[Jar[c]] /\ reply'[c] = NoReply /\ assignment[c] # NoBoot
          /\ UNCHANGED <<cookie, assignment[c]>>
      BY <1>0, <2>2, NoBootIsNoBoot DEF Shape, RequestMatch, Send, NoCall, OperationOf, Sealed
    <3>2. NoReply.pod = NoPod
      BY DEF NoReply, Reply
    <3>. QED BY <1>0, <2>0, <3>1, <3>2, AnswerFacts DEF Holds, CurrentBoot
  <2>3. CASE AcceptAssignment(c)
    <3>1. /\ pc[c] = "assigning" /\ pc'[c] = "assigned" /\ reply[c].answer = ApiOk
          /\ assignment'[c] = reply[c].key /\ KeepCookie(c)
      BY <1>0, <2>3 DEF Shape, AcceptAssignment, Answered
    <3>2. /\ call[c].pod \in Pods /\ NoPod \notin Pods /\ reply[c].key.pod = call[c].pod
          /\ reply[c].pod = call[c].pod
      BY <1>0, <2>0, <3>1, ExchangeAssumption DEF Holds, Shape, CurrentBoot
    <3>3. cookie'[Jar[c]] = call[c].pod
      BY <1>0, <3>1, <3>2, ExchangeAssumption DEF KeepCookie, Shape
    <3>. QED BY <1>0, <2>0, <3>1, <3>2, <3>3 DEF Holds, CurrentBoot
  <2>4. ~RetryOnce(c)
    BY <2>0 DEF RetryOnce, Answered, Holds, Demanded
  <2>5. CASE RefuseAssignment(c) \/ ReceiveResult(c) \/ FailMatch(c) \/ RequestFails(c)
    <3>1. pc'[c] = "start" /\ UNCHANGED assignment[c] /\ pc[c] \in Waiting
      BY <1>0, <2>5
         DEF Shape, RefuseAssignment, ReceiveResult, FailMatch, RequestFails, End, Answered, Waiting
    <3>2. CASE assignment[c] = NoBoot
      BY <3>1, <3>2 DEF Holds
    <3>3. CASE assignment[c] # NoBoot
      <4>1. pc[c] = "matching"
        BY <1>0, <3>1, <3>3 DEF OperationOf, Waiting
      <4>2. cookie'[Jar[c]] = assignment[c].pod
        BY <1>0, <1>2, <2>0, <3>3, <4>1, JarKept DEF Holds
      <4>. QED BY <1>0, <2>0, <3>1, <3>3, <4>2 DEF Holds, CurrentBoot
    <3>. QED BY <3>2, <3>3
  <2>. QED BY <2>1, <2>2, <2>3, <2>4, <2>5 DEF ClientStep
<1>. QED BY <1>0, <1>1, <1>2 DEF RInv

LEMMA ReassignService ==
    ASSUME EInv, RInv, NEW c \in Clients, ServiceStep(c)
    PROVE  RInv'
<1>0. /\ Shape /\ UNCHANGED <<number, up, ready>> /\ UNCHANGED clientVars /\ call[c] \in Calls
      /\ \A d \in Clients : OperationOf(d) /\ RequestOf(d) /\ AnswerOf(d)
  BY DEF EInv, Shape, ServiceStep, Route, NoTarget, Assign, Unreachable, HostTimesOut, Open,
     OpenLate, RefuseToOpen, Answer, Respond, fleet
<1>1. \A d \in Clients \ {c} : UNCHANGED <<call[d], reply[d]>> /\ (d \in lapsed \cup strayed <=> d \in lapsed' \cup strayed')
  <2>1. \A d \in Clients \ {c} : UNCHANGED <<call[d], reply[d]>>
    BY <1>0 DEF Shape, ServiceStep, Route, NoTarget, Assign, Unreachable, HostTimesOut, Open,
       OpenLate, RefuseToOpen, Answer, Respond
  <2>2. UNCHANGED <<lapsed, strayed>> \/ (lapsed' = lapsed \ {c} /\ strayed' = strayed \ {c})
    <3>1. CASE Route(c)
      BY <3>1 DEF Route, history
    <3>2. CASE NoTarget(c) \/ Assign(c) \/ Unreachable(c) \/ HostTimesOut(c) \/ Answer(c)
      BY <3>2 DEF NoTarget, Assign, Unreachable, HostTimesOut, Answer, history
    <3>3. CASE Open(c) \/ OpenLate(c) \/ RefuseToOpen(c)
      BY <3>3 DEF Open, OpenLate, RefuseToOpen, history
    <3>. QED BY <3>1, <3>2, <3>3 DEF ServiceStep
  <2>. QED BY <2>1, <2>2
<1>2. ASSUME NEW d \in Clients \ {c}, d \notin lapsed' \cup strayed' PROVE Holds(d)'
  BY <1>0, <1>1, <1>2, HoldsKept DEF RInv, clientVars
<1>3. ASSUME NEW r, Respond(c, r), c \notin lapsed \cup strayed, r.pod \in {NoPod, call[c].pod},
             pc[c] = "assigning" /\ r.answer = ApiOk =>
                /\ call[c].pod \in ready \cap up /\ r.pod = call[c].pod
                /\ r.key = CurrentBoot(call[c].pod),
             pc[c] = "matching" => ~Demanded(r.answer)
      PROVE  Holds(c)'
  <2>1. reply'[c] = r /\ call'[c] = [call[c] EXCEPT !.stage = "over"] /\ Holds(c)
    BY <1>0, <1>3 DEF Respond, Shape, RInv
  <2>2. call'[c].stage = "over" /\ call'[c].pod = call[c].pod /\ call'[c].cookie = call[c].cookie
    BY <1>0, <2>1 DEF Calls
  <2>. QED BY <1>0, <1>3, <2>1, <2>2 DEF Holds, CurrentBoot, clientVars
<1>4. ASSUME c \notin lapsed' \cup strayed' PROVE Holds(c)'
  <2>1. CASE Route(c)
    <3>1. PICK p \in Targets(c) : call' = [call EXCEPT ![c].stage = "relayed", ![c].pod = p]
      BY <2>1 DEF Route
    <3>2. p \in ready /\ (call[c].cookie \in ready => p = call[c].cookie)
      BY DEF Targets
    <3>3. /\ call'[c].stage = "relayed" /\ call'[c].pod = p /\ call[c].stage = "sent"
          /\ call'[c].cookie = call[c].cookie
          /\ reply'[c] = reply[c] /\ reply[c] = NoReply
      BY <1>0, <2>1, <3>1 DEF Shape, Calls, Route, AnswerOf
    <3>4. CASE pc[c] = "assigning"
      BY <1>0, <3>2, <3>3, <3>4, AnswerFacts DEF Holds, clientVars, OperationOf
    <3>5. CASE pc[c] # "assigning"
      <4>1. Holds(c)
        BY <1>4, <2>1, <3>5 DEF Route, RInv, history
      <4>2. pc[c] = "matching" /\ assignment[c] # NoBoot
        BY <1>0, <3>3, <3>5, NoBootIsNoBoot DEF OperationOf, NoCall, Waiting, Sealed
      <4>3. NoReply.pod = NoPod
        BY DEF NoReply, Reply
      <4>. QED BY <1>0, <3>2, <3>3, <4>1, <4>2, <4>3, AnswerFacts DEF Holds, clientVars, CurrentBoot
    <3>. QED BY <3>4, <3>5
  <2>0. CASE c \notin lapsed \cup strayed /\ ~Route(c)
    <3>0. Holds(c)
      BY <2>0 DEF RInv
    <3>1. CASE NoTarget(c)
      <4>. DEFINE r == Reply(ApiError(503, "none", FALSE), NoPod, NoBoot)
      <4>1. r.answer # ApiOk /\ ~Demanded(r.answer) /\ r.pod = NoPod
        BY DEF Reply, Demanded, ClientError, ApiError, ApiOk
      <4>2. Respond(c, r)
        BY <3>1 DEF NoTarget
      <4>. HIDE DEF r
      <4>. QED BY <1>3, <2>0, <4>1, <4>2
    <3>2. CASE Assign(c)
      <4>. DEFINE r == Reply(AssignmentAnswer(Ok), call[c].pod, CurrentBoot(call[c].pod))
      <4>1. r.pod = call[c].pod /\ r.key = CurrentBoot(call[c].pod)
        BY DEF Reply
      <4>2. /\ Respond(c, r) /\ pc[c] = "assigning"
            /\ call[c].pod \in ready \cap up
        BY <3>0, <3>2 DEF Assign, AtHost, Holds
      <4>. HIDE DEF r
      <4>. QED BY <1>3, <2>0, <4>1, <4>2
    <3>3. CASE Unreachable(c) \/ HostTimesOut(c)
      <4>1. PICK o \in {Transport, TimedOut} :
              Respond(c, Reply(IF pc[c] = "assigning" THEN AssignmentAnswer(o) ELSE MatchAnswer(o),
                               call[c].pod, NoBoot))
        BY <3>3 DEF Unreachable, HostTimesOut
      <4>. DEFINE a == IF pc[c] = "assigning" THEN AssignmentAnswer(o) ELSE MatchAnswer(o)
      <4>. DEFINE r == Reply(a, call[c].pod, NoBoot)
      <4>2. a # ApiOk /\ ~Demanded(a)
        BY AnswerFacts
      <4>3. Respond(c, r)
        BY <4>1
      <4>. HIDE DEF a
      <4>4. r.answer = a /\ r.pod = call[c].pod
        BY DEF Reply
      <4>. HIDE DEF r
      <4>. QED BY <1>3, <2>0, <4>2, <4>3, <4>4
    <3>4. CASE Open(c)
      <4>1. /\ call'[c].stage = "opened" /\ UNCHANGED reply[c] /\ pc[c] = "matching"
            /\ call'[c].pod = call[c].pod /\ call'[c].cookie = call[c].cookie
        BY <1>0, <3>4 DEF Open, AtHost, Calls, Shape
      <4>. QED BY <1>0, <3>0, <4>1 DEF Holds, CurrentBoot, clientVars
    <3>5. ~RefuseToOpen(c)
      <4>1. pc[c] = "matching" => assignment[c] # NoBoot
        BY <1>0, NoBootIsNoBoot DEF OperationOf, Sealed
      <4>. QED BY <1>0, <3>0, <4>1 DEF RefuseToOpen, AtHost, Holds, RequestOf
    <3>8. CASE OpenLate(c)
      <4>1. /\ call'[c].stage = "over" /\ UNCHANGED reply[c] /\ pc[c] = "matching"
            /\ call'[c].pod = call[c].pod /\ call'[c].cookie = call[c].cookie
        BY <1>0, <3>8 DEF OpenLate, Calls, Shape
      <4>. QED BY <1>0, <3>0, <4>1 DEF Holds, CurrentBoot, clientVars
    <3>6. CASE Answer(c)
      <4>1. PICK o \in {Ok, Operation("Internal"), Transport} :
              Respond(c, Reply(MatchAnswer(o), call[c].pod, NoBoot))
        BY <3>6 DEF Answer
      <4>. DEFINE r == Reply(MatchAnswer(o), call[c].pod, NoBoot)
      <4>2. r.answer = MatchAnswer(o) /\ r.pod = call[c].pod
        BY DEF Reply
      <4>3. ~Demanded(MatchAnswer(o))
        BY AnswerFacts
      <4>4. Respond(c, r) /\ pc[c] = "matching"
        BY <1>0, <3>6, <4>1 DEF Answer, RequestOf
      <4>. HIDE DEF r
      <4>. QED BY <1>3, <2>0, <4>2, <4>3, <4>4
    <3>7. ~Route(c) => \/ NoTarget(c) \/ Assign(c) \/ Unreachable(c) \/ HostTimesOut(c)
                       \/ Open(c) \/ OpenLate(c) \/ RefuseToOpen(c) \/ Answer(c)
      BY DEF ServiceStep
    <3>. QED BY <2>0, <3>1, <3>2, <3>3, <3>4, <3>5, <3>6, <3>7, <3>8
  <2>2. ~Route(c) => UNCHANGED history
    BY DEF ServiceStep, NoTarget, Assign, Unreachable, HostTimesOut, Open, OpenLate, RefuseToOpen, Answer
  <2>. QED BY <1>4, <2>0, <2>1, <2>2 DEF history
<1>. QED BY <1>2, <1>4 DEF RInv

LEMMA ReassignFleet == ASSUME EInv, RInv, FleetStep PROVE RInv'
<1>0. /\ Shape /\ UNCHANGED clientVars
      /\ \A d \in Clients : OperationOf(d) /\ RequestOf(d) /\ AnswerOf(d)
  BY DEF EInv, FleetStep, Exit, Restart, Probe, ProbeTimesOut
<1>1. ASSUME NEW p \in Pods, Exit(p) PROVE RInv'
  <2>. SUFFICES ASSUME NEW c \in Clients, c \notin lapsed' \cup strayed' PROVE Holds(c)'
    BY DEF RInv
  <2>1. Holds(c) /\ Assigner(c) # p
    BY <1>1 DEF Exit, AssignedTo, RInv
  <2>2. /\ up' = up \ {p} /\ UNCHANGED <<ready, number>>
        /\ UNCHANGED <<pc[c], cookie, assignment[c]>>
    BY <1>0, <1>1 DEF Exit, clientVars
  <2>3. CASE call[c].stage = "opened" /\ call[c].pod = p
    <3>1. /\ call'[c] = [call[c] EXCEPT !.stage = "over"]
          /\ reply'[c] = Reply(MatchAnswer(Transport), p, NoBoot)
      BY <1>1, <2>3 DEF Exit
    <3>2. Reply(MatchAnswer(Transport), p, NoBoot).answer = MatchAnswer(Transport)
      BY DEF Reply
    <3>3. ~Demanded(reply'[c].answer)
      BY <3>1, <3>2, AnswerFacts
    <3>4. /\ call'[c].stage = "over" /\ call'[c].pod = call[c].pod /\ call'[c].cookie = call[c].cookie
          /\ call[c].opener # NoBoot /\ pc[c] = "matching" /\ reply'[c].pod = call[c].pod
      BY <1>0, <2>3, <3>1 DEF Shape, Calls, RequestOf, Reply
    <3>. QED BY <2>1, <2>2, <3>3, <3>4 DEF Holds, Assigner, CurrentBoot
  <2>4. CASE ~(call[c].stage = "opened" /\ call[c].pod = p)
    <3>1. UNCHANGED <<call[c], reply[c]>>
      BY <1>1, <2>4 DEF Exit
    <3>. QED BY <1>0, <2>1, <2>2, <3>1 DEF Holds, Assigner, CurrentBoot, OperationOf
  <2>. QED BY <2>3, <2>4
<1>2. ASSUME NEW p \in Pods, Restart(p) PROVE RInv'
  <2>. SUFFICES ASSUME NEW c \in Clients, c \notin lapsed' \cup strayed' PROVE Holds(c)'
    BY DEF RInv
  <2>1. Holds(c)
    BY <1>2 DEF Restart, RInv, history
  <2>2. /\ up' = up \cup {p} /\ p \notin up
        /\ UNCHANGED <<ready, pc[c], cookie, assignment[c], call[c], reply[c]>>
    BY <1>2 DEF Restart, clientVars
  <2>3. ASSUME NEW q \in up PROVE CurrentBoot(q)' = CurrentBoot(q)
    <3>1. number'[q] = number[q]
      BY <1>0, <1>2, <2>2 DEF Restart, Shape
    <3>. QED BY <3>1 DEF CurrentBoot
  <2>. QED BY <2>1, <2>2, <2>3 DEF Holds
<1>3. ASSUME NEW p \in Pods, Probe(p) \/ ProbeTimesOut(p) PROVE RInv'
  <2>. SUFFICES ASSUME NEW c \in Clients, c \notin lapsed' \cup strayed' PROVE Holds(c)'
    BY DEF RInv
  <2>1. /\ Holds(c)
        /\ ready' = ready \cup {p} \/ (ready' = ready \ {p} /\ Assigner(c) # p)
    BY <1>3 DEF Probe, ProbeTimesOut, AssignedTo, RInv
  <2>2. UNCHANGED <<number, up, pc[c], cookie, assignment[c], call[c], reply[c]>>
    BY <1>3 DEF Probe, ProbeTimesOut, clientVars
  <2>. QED BY <1>0, <2>1, <2>2 DEF Holds, Assigner, CurrentBoot, OperationOf
<1>. QED BY <1>1, <1>2, <1>3 DEF FleetStep

LEMMA ReassignStep == EInv /\ RInv /\ [Next]_vars => RInv'
<1>. SUFFICES ASSUME EInv, RInv, [Next]_vars PROVE RInv'
  OBVIOUS
<1>1. CASE UNCHANGED vars
  BY <1>1, HoldsKept DEF vars, fleet, clientVars, history, RInv
<1>. QED BY <1>1, ReassignClient, ReassignService, ReassignFleet DEF Next

\* A client is told to re-assign only because the pod it was assigned to exited
\* or left the rotation since, or another client of its jar was answered by
\* another pod.
THEOREM ReassignsDeserved == Spec => []ReassignsAreDeserved
<1>1. RInv => ReassignsAreDeserved
  BY DEF RInv, Holds, Demanded, ReassignsAreDeserved
<1>. QED BY <1>1, ReassignInit, ReassignStep, ExchangeAlways, PTL DEF Spec

NoneStrayed == strayed = {}

\* Where no two clients share a jar none strays: a match reaches the pod that was
\* assigned as long as that one stays in the rotation, as client.rs:67 says, for
\* any number of retries and of operations with a kept assignment.
THEOREM LoneClientsReachTheAssigned ==
    ASSUME \A c, d \in Clients : Jar[c] = Jar[d] => c = d
    PROVE  Spec => []MatchesReachTheAssigned
<1>1. \A c \in Clients : \A p : Displaced(c, p) = {}
  BY DEF Displaced
<1>2. NoneStrayed /\ [Next]_vars => NoneStrayed'
  <2>. SUFFICES ASSUME strayed = {}, [Next]_vars PROVE strayed' = {}
    BY DEF NoneStrayed
  <2>1. ASSUME NEW c \in Clients, KeepCookie(c) PROVE strayed' = {}
    BY <1>1, <2>1 DEF KeepCookie
  <2>2. ASSUME NEW c \in Clients, RequestAssignment(c) \/ ClientStep(c) \/ RequestFails(c)
        PROVE  strayed' = {}
    BY <2>1, <2>2 DEF ClientStep, RequestAssignment, RequestMatch, AcceptAssignment, RefuseAssignment,
       ReceiveResult, RetryOnce, FailMatch, RequestFails, history
  <2>3. ASSUME NEW c \in Clients, ServiceStep(c) PROVE strayed' = {}
    BY <2>3 DEF ServiceStep, Route, NoTarget, Assign, Unreachable, HostTimesOut, Open, OpenLate,
       RefuseToOpen, Answer, history
  <2>4. ASSUME FleetStep PROVE strayed' = {}
    BY <2>4 DEF FleetStep, Exit, Restart, Probe, ProbeTimesOut, history
  <2>5. CASE UNCHANGED vars
    BY <2>5 DEF vars, history
  <2>. QED BY <2>2, <2>3, <2>4, <2>5 DEF Next
<1>3. Init => NoneStrayed
  BY DEF Init, NoneStrayed
<1>4. RInv /\ NoneStrayed => MatchesReachTheAssigned
  BY DEF RInv, Holds, NoneStrayed, MatchesReachTheAssigned
<1>. QED BY <1>2, <1>3, <1>4, ReassignInit, ReassignStep, ExchangeAlways, PTL DEF Spec

-----------------------------------------------------------------------------
(* Operations are short. *)

\* How far the operation of c still is from its end: the steps of its round, the
\* round of a retry, and the stages of the request it has out.
StepLeft(c) == CASE pc[c] = "start" -> 0
                 [] pc[c] = "matching" -> 1
                 [] pc[c] = "assigned" -> 2
                 [] pc[c] = "assigning" -> 3
                 [] pc[c] = "reassign" -> 4
RoundLeft(c) == IF pc[c] \in {"start", "reassign"} \/ retried[c] THEN 0 ELSE 4
RequestLeft(c) == CASE call[c].stage = "sent" -> 3
                    [] call[c].stage = "relayed" -> 2
                    [] call[c].stage = "opened" -> 1
                    [] call[c].stage = "over" /\ call[c].opener = NoBoot -> 1
                    [] OTHER -> 0
StepsLeft(c) == 4 * (StepLeft(c) + RoundLeft(c)) + RequestLeft(c)

Moved(c) == <<pc[c], call[c], reply[c]>>' # <<pc[c], call[c], reply[c]>>

LEMMA LeftBounds ==
    ASSUME Shape, NEW c \in Clients
    PROVE  /\ StepLeft(c) \in 0 .. 4 /\ RoundLeft(c) \in {0, 4} /\ RequestLeft(c) \in 0 .. 3
           /\ StepsLeft(c) \in 0 .. 31
<1>1. StepLeft(c) \in 0 .. 4 /\ RoundLeft(c) \in {0, 4} /\ RequestLeft(c) \in 0 .. 3
  BY DEF Shape, ClientStates, Waiting, StepLeft, RoundLeft, RequestLeft
<1>2. pc[c] = "reassign" => RoundLeft(c) = 0
  BY DEF RoundLeft
<1>3. pc[c] # "reassign" => StepLeft(c) \in 0 .. 3
  BY DEF Shape, ClientStates, Waiting, StepLeft
<1>. QED BY <1>1, <1>2, <1>3 DEF StepsLeft

\* A request comes closer to its answer.
LEMMA RequestNearsEnd ==
    ASSUME Shape, Shape', NEW c \in Clients, UNCHANGED <<pc[c], retried[c]>>,
           RequestLeft(c)' < RequestLeft(c)
    PROVE  StepsLeft(c)' < StepsLeft(c)
<1>1. StepLeft(c)' = StepLeft(c) /\ RoundLeft(c)' = RoundLeft(c)
  BY DEF StepLeft, RoundLeft
<1>2. RequestLeft(c)' \in 0 .. 3
  <2>1. (RequestLeft(c) \in 0 .. 3)'
    BY DEF RequestLeft
  <2>. QED BY <2>1
<1>. QED BY <1>1, <1>2, LeftBounds DEF StepsLeft

LEMMA ClientNearsEnd ==
    ASSUME EInv, NEW c \in Clients, pc[c] # "start",
           RequestAssignment(c) \/ ClientStep(c) \/ RequestFails(c)
    PROVE  StepsLeft(c)' < StepsLeft(c)
<1>0. /\ Shape /\ StepLeft(c) \in 0 .. 4 /\ RoundLeft(c) \in {0, 4} /\ RequestLeft(c) \in 0 .. 3
      /\ call[c] = NoCall => RequestLeft(c) = 0
  BY LeftBounds DEF EInv, RequestLeft, NoCall
<1>1. CASE RequestAssignment(c)
  <2>1. /\ pc[c] = "reassign" /\ pc'[c] = "assigning" /\ retried'[c] /\ call'[c].stage = "sent"
    BY <1>0, <1>1 DEF Shape, RequestAssignment, Send, NoCall
  <2>2. /\ StepLeft(c) = 4 /\ RoundLeft(c) = 0
        /\ StepLeft(c)' = 3 /\ RoundLeft(c)' = 0 /\ RequestLeft(c)' = 3
    BY <2>1 DEF StepLeft, RoundLeft, RequestLeft
  <2>. QED BY <1>0, <2>2 DEF StepsLeft
<1>2. CASE RequestMatch(c)
  <2>1. /\ pc[c] = "assigned" /\ pc'[c] = "matching" /\ retried'[c] = retried[c] /\ call'[c].stage = "sent"
    BY <1>0, <1>2 DEF Shape, RequestMatch, Send, NoCall
  <2>2. /\ StepLeft(c) = 2 /\ StepLeft(c)' = 1 /\ RoundLeft(c)' = RoundLeft(c) /\ RequestLeft(c)' = 3
    BY <2>1 DEF StepLeft, RoundLeft, RequestLeft
  <2>. QED BY <1>0, <2>2 DEF StepsLeft
<1>3. CASE AcceptAssignment(c)
  <2>1. /\ pc[c] = "assigning" /\ pc'[c] = "assigned" /\ retried'[c] = retried[c] /\ call'[c] = NoCall
    BY <1>0, <1>3 DEF Shape, AcceptAssignment, Answered
  <2>2. /\ StepLeft(c) = 3 /\ StepLeft(c)' = 2 /\ RoundLeft(c)' = RoundLeft(c) /\ RequestLeft(c)' = 0
    BY <2>1 DEF StepLeft, RoundLeft, RequestLeft, NoCall
  <2>. QED BY <1>0, <2>2 DEF StepsLeft
<1>4. CASE RetryOnce(c)
  <2>1. /\ pc[c] = "matching" /\ ~retried[c] /\ pc'[c] = "reassign" /\ call'[c] = NoCall
    BY <1>0, <1>4 DEF Shape, RetryOnce, Answered
  <2>2. /\ StepLeft(c) = 1 /\ RoundLeft(c) = 4
        /\ StepLeft(c)' = 4 /\ RoundLeft(c)' = 0 /\ RequestLeft(c)' = 0
    BY <2>1 DEF StepLeft, RoundLeft, RequestLeft, NoCall
  <2>. QED BY <1>0, <2>2 DEF StepsLeft
<1>5. CASE RefuseAssignment(c) \/ ReceiveResult(c) \/ FailMatch(c) \/ RequestFails(c)
  <2>1. pc'[c] = "start" /\ call'[c] = NoCall
    BY <1>0, <1>5 DEF Shape, RefuseAssignment, ReceiveResult, FailMatch, RequestFails, End
  <2>2. /\ StepLeft(c)' = 0 /\ RoundLeft(c)' = 0 /\ RequestLeft(c)' = 0
    BY <2>1 DEF StepLeft, RoundLeft, RequestLeft, NoCall
  <2>3. StepLeft(c) > 0
    BY <1>0 DEF Shape, ClientStates, Waiting, StepLeft
  <2>. QED BY <1>0, <2>2, <2>3 DEF StepsLeft
<1>. QED BY <1>1, <1>2, <1>3, <1>4, <1>5 DEF ClientStep

LEMMA ServiceNearsEnd ==
    ASSUME EInv, EInv', NEW c \in Clients, ServiceStep(c)
    PROVE  StepsLeft(c)' < StepsLeft(c)
<1>0. Shape /\ Shape' /\ call[c] \in Calls /\ DOMAIN call = Clients
  BY DEF EInv, Shape
<1>1. UNCHANGED <<pc[c], retried[c]>>
  BY DEF ServiceStep, Route, NoTarget, Assign, Unreachable, HostTimesOut, Open, OpenLate,
     RefuseToOpen, Answer, Respond, clientVars
<1>2. CASE Route(c) \/ Open(c)
  <2>1. \/ call[c].stage = "sent" /\ call'[c].stage = "relayed"
        \/ call[c].stage = "relayed" /\ call'[c].stage = "opened"
    BY <1>0, <1>2 DEF Route, Open, AtHost, Calls
  <2>2. RequestLeft(c)' < RequestLeft(c)
    BY <2>1 DEF RequestLeft
  <2>. QED BY <1>0, <1>1, <2>2, RequestNearsEnd
<1>4. CASE OpenLate(c)
  <2>1. call[c].pod \in Pods
    BY <1>0, <1>4 DEF OpenLate, Shape
  <2>2. /\ call[c].stage = "over" /\ call[c].opener = NoBoot
        /\ call'[c].stage = "over" /\ call'[c].opener # NoBoot
    BY <1>0, <1>4, <2>1, CurrentIsBoot, NoBootIsNoBoot DEF OpenLate, Calls
  <2>3. RequestLeft(c)' < RequestLeft(c)
    BY <2>2 DEF RequestLeft
  <2>. QED BY <1>0, <1>1, <2>3, RequestNearsEnd
<1>3. CASE ~Route(c) /\ ~Open(c) /\ ~OpenLate(c)
  <2>1. /\ call[c].stage \in {"sent", "relayed", "opened"}
        /\ call'[c].stage = "over" /\ call'[c].opener = call[c].opener
    <3>1. ASSUME NEW r, Respond(c, r) PROVE call'[c].stage = "over" /\ call'[c].opener = call[c].opener
      BY <1>0, <3>1 DEF Respond, Calls
    <3>. QED BY <1>3, <3>1 DEF ServiceStep, NoTarget, Assign, Unreachable, HostTimesOut,
       RefuseToOpen, Answer, AtHost
  <2>2. call[c].stage = "opened" => call[c].opener # NoBoot
    BY DEF EInv, RequestOf
  <2>3. RequestLeft(c)' < RequestLeft(c)
    BY <2>1, <2>2 DEF RequestLeft
  <2>. QED BY <1>0, <1>1, <2>3, RequestNearsEnd
<1>. QED BY <1>2, <1>3, <1>4

\* A step of the fleet leaves a client alone or ends the request it has out.
LEMMA FleetNearsEnd ==
    ASSUME EInv, EInv', NEW c \in Clients, FleetStep, Moved(c)
    PROVE  StepsLeft(c)' < StepsLeft(c)
<1>0. Shape /\ Shape' /\ call[c] \in Calls /\ UNCHANGED <<pc[c], retried[c]>>
  BY DEF EInv, Shape, FleetStep, Exit, Restart, Probe, ProbeTimesOut, clientVars
<1>1. PICK p \in Pods : Exit(p)
  BY DEF FleetStep, Restart, Probe, ProbeTimesOut, Moved, clientVars
<1>2. call[c].stage = "opened" /\ call[c].opener # NoBoot /\ call'[c] = [call[c] EXCEPT !.stage = "over"]
  BY <1>0, <1>1 DEF Exit, Moved, EInv, RequestOf
<1>3. RequestLeft(c)' < RequestLeft(c)
  BY <1>0, <1>2 DEF RequestLeft, Calls
<1>. QED BY <1>0, <1>3, RequestNearsEnd

\* What one client does, or is answered, moves no other.
LEMMA OthersStandStill ==
    ASSUME EInv, NEW c \in Clients, NEW d \in Clients, d # c,
           RequestAssignment(c) \/ ClientStep(c) \/ RequestFails(c) \/ ServiceStep(c)
    PROVE  ~Moved(d)
<1>0. /\ DOMAIN pc = Clients /\ DOMAIN call = Clients /\ DOMAIN reply = Clients
  BY DEF EInv, Shape
<1>1. CASE ServiceStep(c)
  BY <1>0, <1>1 DEF Moved, ServiceStep, Route, NoTarget, Assign, Unreachable, HostTimesOut, Open,
     OpenLate, RefuseToOpen, Answer, Respond, clientVars
<1>2. CASE ~ServiceStep(c)
  BY <1>0, <1>2 DEF Moved, ClientStep, RequestAssignment, RequestMatch, AcceptAssignment,
     RefuseAssignment, ReceiveResult, RetryOnce, FailMatch, RequestFails, Send, End
<1>. QED BY <1>1, <1>2

\* Whatever happens to an operation under way - its own calls, the balancer,
\* the hosts and enclaves, exits and restarts - brings it nearer its end, which
\* is at most thirty-one such steps away: no sequence of errors, retries and
\* restarts keeps a client in the loop that request_match's documentation asks
\* of it.  What fairness adds in OperationsEnd is that these steps are taken.
THEOREM OperationsAreShort ==
    Spec => [][\A c \in Clients : pc[c] # "start" /\ Moved(c) =>
                    StepsLeft(c) \in 0 .. 31 /\ StepsLeft(c)' < StepsLeft(c)]_vars
<1>. DEFINE Nearer == \A c \in Clients : pc[c] # "start" /\ Moved(c) =>
                           StepsLeft(c) \in 0 .. 31 /\ StepsLeft(c)' < StepsLeft(c)
<1>1. EInv /\ EInv' /\ [Next]_vars => [Nearer]_vars
  <2>. SUFFICES ASSUME EInv, EInv', Next, NEW c \in Clients, pc[c] # "start", Moved(c)
                PROVE  StepsLeft(c) \in 0 .. 31 /\ StepsLeft(c)' < StepsLeft(c)
    OBVIOUS
  <2>1. StepsLeft(c) \in 0 .. 31
    BY LeftBounds DEF EInv
  <2>2. CASE FleetStep
    BY <2>1, <2>2, FleetNearsEnd
  <2>3. CASE ~FleetStep
    <3>1. PICK d \in Clients : RequestAssignment(d) \/ ClientStep(d) \/ RequestFails(d) \/ ServiceStep(d)
      BY <2>3 DEF Next
    <3>2. d = c
      BY <3>1, OthersStandStill
    <3>. QED BY <2>1, <3>1, <3>2, ClientNearsEnd, ServiceNearsEnd
  <2>. QED BY <2>2, <2>3
<1>. QED BY <1>1, ExchangeAlways, PTL DEF Spec
=============================================================================
