---------------------------- MODULE MatchHandler ----------------------------
(***************************************************************************)
(* The match requests one enclave boot handles, from the call the host     *)
(* makes to the API answer the host gives.  Handlers run concurrently; the *)
(* signing-key document they carry is renewed under them, the host gives   *)
(* up at its deadline without stopping the handler, and the process may    *)
(* exit with handlers half way.                                            *)
(*                                                                         *)
(*   sources  verifier/enclave/src/routes/matches.rs,                      *)
(*            verifier/host/src/routes/matches.rs, host/src/enclave.rs     *)
(***************************************************************************)
EXTENDS MatchRules, ApiAnswers

CONSTANTS
    Requests,    \* request identifiers
    Offers,      \* per request: the plaintexts its requester may send
    MaxRenewals  \* bound on the renewals of the document in a run

ASSUME HandlerAssumption ==
    /\ Offers \in [Requests -> SUBSET Plaintexts]
    /\ MaxRenewals \in Nat

NoAnswer == [status |-> 0, code |-> "none", allowRetry |-> FALSE]
NotDone == [kind |-> "none"]
Lost == [kind |-> "lost"]
NotOpened == [kind |-> "error", error |-> "RequestNotOpened"]

VARIABLES
    up,         \* the enclave process runs
    document,   \* signing-key document in the cache: number of its renewal
    stage,      \* per request: where its handler stands
    plaintext,  \* per request: what it carries
    openedAt,   \* per request: the cached document when it was opened
    carried,    \* per request: the document its handler read
    outcome,    \* per request: what the handler ended in
    api         \* per request: what the host answered, or NoAnswer

vars == <<up, document, stage, plaintext, openedAt, carried, outcome, api>>

\* A handler is "called", then past its open, its await of the document, and
\* its run and seal; a request that does not open skips the middle.
Stages == {"idle", "called", "opened", "attested", "done"}

Init ==
    /\ up = TRUE
    /\ document = 0
    /\ stage = [r \in Requests |-> "idle"]
    /\ plaintext = [r \in Requests |-> Garbage]
    /\ openedAt = [r \in Requests |-> 0]
    /\ carried = [r \in Requests |-> 0]
    /\ outcome = [r \in Requests |-> NotDone]
    /\ api = [r \in Requests |-> NoAnswer]

-----------------------------------------------------------------------------
\* The host decoded the body and calls the enclave.
Call(r) ==
    /\ up
    /\ stage[r] = "idle"
    /\ \E p \in Offers[r] : plaintext' = [plaintext EXCEPT ![r] = p]
    /\ stage' = [stage EXCEPT ![r] = "called"]
    /\ UNCHANGED <<up, document, openedAt, carried, outcome, api>>

\* The handler of r ends; the host answers unless it already gave up.
Finish(r, result) ==
    /\ stage' = [stage EXCEPT ![r] = "done"]
    /\ outcome' = [outcome EXCEPT ![r] = result]
    /\ api' = [api EXCEPT ![r] = IF @ = NoAnswer THEN MatchAnswer(CallOutcome(result)) ELSE @]

\* channel().open: a ciphertext for another boot, or a corrupt one, fails.
Open(r) ==
    /\ up
    /\ stage[r] = "called"
    /\ stage' = [stage EXCEPT ![r] = "opened"]
    /\ openedAt' = [openedAt EXCEPT ![r] = document]
    /\ UNCHANGED <<up, document, plaintext, carried, outcome, api>>

OpenFails(r) ==
    /\ up
    /\ stage[r] = "called"
    /\ Finish(r, NotOpened)
    /\ UNCHANGED <<up, document, plaintext, openedAt, carried>>

\* Mutant of ReadDocument: the document of the boot, never the renewed one.
ReadBootDocument(r) ==
    /\ up
    /\ stage[r] = "opened"
    /\ stage' = [stage EXCEPT ![r] = "attested"]
    /\ carried' = [carried EXCEPT ![r] = 0]
    /\ UNCHANGED <<up, document, plaintext, openedAt, outcome, api>>

\* signing_key_attestation().await: the cached document of this moment.
ReadDocument(r) ==
    /\ up
    /\ stage[r] = "opened"
    /\ stage' = [stage EXCEPT ![r] = "attested"]
    /\ carried' = [carried EXCEPT ![r] = document]
    /\ UNCHANGED <<up, document, plaintext, openedAt, outcome, api>>

\* run and seal have no await between them.
RunAndSeal(r) ==
    /\ up
    /\ stage[r] = "attested"
    /\ Finish(r, Sealed(Run(plaintext[r], carried[r])))
    /\ UNCHANGED <<up, document, plaintext, openedAt, carried>>

\* MATCH_REQUEST_TIMEOUT: the host answers; the enclave is not told.
HostGivesUp(r) ==
    /\ stage[r] \notin {"idle", "done"}
    /\ api[r] = NoAnswer
    /\ api' = [api EXCEPT ![r] = MatchAnswer(TimedOut)]
    /\ UNCHANGED <<up, document, stage, plaintext, openedAt, carried, outcome>>

-----------------------------------------------------------------------------
\* A background refresh replaces the cached document.
Renew ==
    /\ up
    /\ document < MaxRenewals
    /\ document' = document + 1
    /\ UNCHANGED <<up, stage, plaintext, openedAt, carried, outcome, api>>

\* Mutant of Exit: the host does not notice that the connection broke.
ExitUnnoticed ==
    /\ up
    /\ up' = FALSE
    /\ LET lost == {r \in Requests : stage[r] \notin {"idle", "done"}} IN
        /\ stage' = [r \in Requests |-> IF r \in lost THEN "done" ELSE stage[r]]
        /\ outcome' = [r \in Requests |-> IF r \in lost THEN Lost ELSE outcome[r]]
    /\ UNCHANGED <<document, plaintext, openedAt, carried, api>>

\* main returned: every connection breaks, every handler is lost.
Exit ==
    /\ up
    /\ up' = FALSE
    /\ LET lost == {r \in Requests : stage[r] \notin {"idle", "done"}} IN
        /\ stage' = [r \in Requests |-> IF r \in lost THEN "done" ELSE stage[r]]
        /\ outcome' = [r \in Requests |-> IF r \in lost THEN Lost ELSE outcome[r]]
        /\ api' = [r \in Requests |-> IF r \in lost /\ api[r] = NoAnswer
                                      THEN MatchAnswer(Transport) ELSE api[r]]
    /\ UNCHANGED <<document, plaintext, openedAt, carried>>

\* The host's call when the enclave is gone.
CallRefused(r) ==
    /\ ~up
    /\ stage[r] = "idle"
    /\ stage' = [stage EXCEPT ![r] = "done"]
    /\ outcome' = [outcome EXCEPT ![r] = Lost]
    /\ api' = [api EXCEPT ![r] = MatchAnswer(Transport)]
    /\ UNCHANGED <<up, document, plaintext, openedAt, carried>>

AllDone == (\A r \in Requests : stage[r] = "done") /\ UNCHANGED vars

Handler(r) == Open(r) \/ OpenFails(r) \/ ReadDocument(r) \/ RunAndSeal(r)

Next ==
    \/ \E r \in Requests : Call(r) \/ Handler(r) \/ HostGivesUp(r) \/ CallRefused(r)
    \/ Renew
    \/ Exit
    \/ AllDone

\* Handlers run on; the host's deadline is not needed for them to end.
Spec == Init /\ [][Next]_vars
FairSpec == Spec /\ \A r \in Requests : WF_vars(Handler(r))

-----------------------------------------------------------------------------
Results == {"none", "sealed", "error", "dropped", "lost"}

\* Type invariant of the handlers' bookkeeping.
TypeOK ==
    /\ up \in BOOLEAN
    /\ document \in 0 .. MaxRenewals
    /\ stage \in [Requests -> Stages]
    /\ plaintext \in [Requests -> Plaintexts]
    /\ openedAt \in [Requests -> 0 .. MaxRenewals]
    /\ carried \in [Requests -> 0 .. MaxRenewals]
    /\ \A r \in Requests : outcome[r].kind \in Results /\ api[r].status \in {0, 200, 409, 500, 503, 504}

HasStatement(r) == outcome[r].kind = "sealed" /\ outcome[r].result.kind = "success"
IsRejected(r, reason) == outcome[r].kind = "sealed" /\ outcome[r].result = Rejected(reason)

\* What a statement asserts of the plaintext it was issued for, whatever the
\* order in which the code looks at it: the credential image is the committed
\* one, all frames were analysed, no score is under the requester's threshold,
\* the score is one the token can carry, and no second frame was ignored.
MatchHeld(in) ==
    /\ Commits[in.hashes] = in.credential
    /\ Scored(in)
    /\ \A score \in {LiveScore(in), ChallengeScore(in)} :
            score # NaN /\ in.threshold # NaN => score >= in.threshold
    /\ Representable(LiveScore(in))
    /\ ~in.lightGuard

\* A statement is issued only for a match that held, and commits to the three
\* things its own requester sent: concurrent handlers never mix requests.
StatementsAreEarned ==
    \A r \in Requests : HasStatement(r) =>
        LET c == outcome[r].result.claims IN
        /\ plaintext[r] # Garbage
        /\ MatchHeld(plaintext[r])
        /\ c.live = plaintext[r].live
        /\ c.challenger = plaintext[r].challenge
        /\ c.credentialClaim = plaintext[r].hashes
        /\ c.coefficient = LiveScore(plaintext[r])

\* Nobody whose match held is turned away: a handler that opened its request and
\* was not lost ends with a statement exactly when the match held, thresholds met
\* with equality and NaN included, and the envelope has room for the document,
\* whatever the other handlers do and whenever the document is renewed.
HeldMatchesAreSigned ==
    \A r \in Requests :
        stage[r] = "done" /\ outcome[r] \notin {Lost, NotOpened} =>
            (HasStatement(r) <=> DocumentFits /\ plaintext[r] # Garbage /\ MatchHeld(plaintext[r]))

\* A sealed rejection names a reason that is true of the plaintext, and blames
\* the threshold only when binding and analysis both succeeded.
RejectionsAreTrue ==
    \A r \in Requests :
        /\ IsRejected(r, "MalformedInputs") => plaintext[r] = Garbage
        /\ IsRejected(r, "InvalidHashesJson") => Commits[plaintext[r].hashes] = NoCommitment
        /\ IsRejected(r, "ThumbnailHashMismatch") =>
                Commits[plaintext[r].hashes] \in Images \ {plaintext[r].credential}
        /\ IsRejected(r, "ImageAnalysisFailed") => ~Scored(plaintext[r])
        /\ IsRejected(r, "MatchBelowThreshold") =>
                /\ Commits[plaintext[r].hashes] = plaintext[r].credential
                /\ Scored(plaintext[r])
                /\ ~MatchHeld(plaintext[r])

\* The attestation beside a statement is one the cache held while the request
\* was being handled: read after the open, never replaced by an older one.
StatementsCarryAHandledDocument ==
    \A r \in Requests : HasStatement(r) =>
        outcome[r].result.attestation \in openedAt[r] .. document

\* The faults by which an opened request can end in anything but a sealed result:
\* the LightGuard panic, a score the token cannot hold, an oversized document.
MeetsFault(in) ==
    \/ ~DocumentFits
    \/ in # Garbage /\ (in.lightGuard \/ (Scored(in) /\ ~Representable(LiveScore(in))))

\* Whatever an opened plaintext holds, the host sees the same 200 for it, unless
\* it met one of those faults, the process died or the deadline passed: nothing
\* else the enclave learns shows in a status.
HostSeesOnlyFaults ==
    \A r \in Requests :
        stage[r] = "done" /\ outcome[r] \notin {Lost, NotOpened} /\ ~MeetsFault(plaintext[r])
            => api[r] \in {ApiOk, MatchAnswer(TimedOut)}

\* "Unreachable in the enclave, but fail closed anyway" (match_token.rs): no
\* match that evaluate lets through has a negative coefficient.
NegativeCoefficientUnreachable ==
    \A r \in Requests : stage[r] = "attested" /\ plaintext[r] # Garbage =>
        LET verdict == Evaluate(plaintext[r]) IN
        verdict.kind = "claims" /\ verdict.coefficient # NaN => verdict.coefficient >= 0

\* Every call is answered: by the handler, the deadline, or the broken link.
CallsAreAnswered == \A r \in Requests : stage[r] # "idle" ~> api[r] # NoAnswer
=============================================================================
