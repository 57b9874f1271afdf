-------------------------- MODULE MatchHandlerProofs --------------------------
(***************************************************************************)
(* Theorems about the match handler: what a sealed statement asserts of    *)
(* its request, for every set of images, files, scores and thresholds and  *)
(* any number of concurrent requests.                                      *)
(*                                                                         *)
(* The rules are proved first, as facts about one plaintext.  The          *)
(* invariant then says that whatever a handler ended in is what the rules  *)
(* make of the plaintext its own request carried.                          *)
(***************************************************************************)
EXTENDS MatchHandler, TLAPS

-----------------------------------------------------------------------------
(* The rules. *)

\* evaluate yields claims only for a plaintext whose match held, and the claims
\* repeat what the plaintext said.
LEMMA ClaimsAreEarned ==
    ASSUME NEW in \in MatchInputs, Evaluate(in).kind = "claims",
           Representable(Evaluate(in).coefficient)
    PROVE  /\ Evaluate(in) = Claims(in, in.hashes)
           /\ MatchHeld(in)
<1>1. /\ ~in.lightGuard
      /\ Commits[in.hashes] = in.credential
      /\ Scored(in)
      /\ ~Below(LiveScore(in), in.threshold)
      /\ ~Below(ChallengeScore(in), in.threshold)
      /\ Evaluate(in) = Claims(in, in.hashes)
  BY DEF Evaluate, BindCredentialClaim, Rejected
<1>2. in.threshold \in Int \cup {NaN}
  BY RulesAssumption DEF MatchInputs
<1>3. LiveScore(in) \in Int \cup {NaN} /\ ChallengeScore(in) \in Int \cup {NaN}
  <2>1. <<in.live, in.credential>> \in Images \X Images /\ <<in.challenge, in.credential>> \in Images \X Images
    BY DEF MatchInputs
  <2>. QED BY <1>1, <2>1, RulesAssumption DEF Scored, LiveScore, ChallengeScore
<1>4. \A score \in {LiveScore(in), ChallengeScore(in)} :
          score # NaN /\ in.threshold # NaN => score >= in.threshold
  BY <1>1, <1>2, <1>3 DEF Below
<1>5. Representable(LiveScore(in))
  BY <1>1 DEF Claims
<1>. QED BY <1>1, <1>4, <1>5 DEF MatchHeld

\* What a sealed success says of the plaintext it was made from.
Earned(p, sealed) ==
    /\ p # Garbage
    /\ MatchHeld(p)
    /\ sealed.result.claims = Claims(p, p.hashes)

LEMMA SuccessIsEarned ==
    ASSUME NEW p \in Plaintexts, NEW d, NEW s, s = Sealed(Run(p, d)),
           s.kind = "sealed", s.result.kind = "success"
    PROVE  Earned(p, s)
<1>1. s.result = Run(p, d) /\ Run(p, d).kind = "success"
  BY DEF Sealed
<1>2. p # Garbage
  BY <1>1 DEF Run, Rejected
<1>3. p \in MatchInputs
  BY <1>2 DEF Plaintexts
<1>4. /\ Evaluate(p).kind = "claims"
      /\ Representable(Evaluate(p).coefficient)
      /\ Run(p, d).claims = Evaluate(p)
  <2>1. Evaluate(p).kind \in {"panic", "failed", "claims"}
    BY DEF Evaluate, BindCredentialClaim, Rejected, Claims
  <2>. QED BY <1>1, <1>2, <2>1 DEF Run
<1>. QED BY <1>1, <1>2, <1>3, <1>4, ClaimsAreEarned DEF Earned

\* A plaintext that meets none of the faults ends in a sealed result.
LEMMA FaultlessIsSealed ==
    ASSUME NEW p \in Plaintexts, NEW d, ~MeetsFault(p)
    PROVE  Sealed(Run(p, d)).kind = "sealed"
<1>1. DocumentFits
  BY DEF MeetsFault
<1>2. CASE p = Garbage
  BY <1>2 DEF Run, Sealed, Rejected
<1>3. CASE p # Garbage
  <2>1. ~p.lightGuard /\ (Scored(p) => Representable(LiveScore(p)))
    BY <1>3 DEF MeetsFault
  <2>2. CASE Evaluate(p).kind # "claims"
    <3>1. Evaluate(p).kind = "failed"
      BY <2>1, <2>2 DEF Evaluate, BindCredentialClaim, Rejected, Claims
    <3>. QED BY <1>3, <2>2, <3>1 DEF Run, Sealed
  <2>3. CASE Evaluate(p).kind = "claims"
    <3>1. Evaluate(p) = Claims(p, p.hashes) /\ Scored(p)
      BY <2>3 DEF Evaluate, BindCredentialClaim, Rejected
    <3>2. Representable(Evaluate(p).coefficient)
      BY <2>1, <3>1 DEF Claims
    <3>. QED BY <1>1, <1>3, <2>3, <3>2 DEF Run, Sealed
  <2>. QED BY <2>2, <2>3
<1>. QED BY <1>2, <1>3

-----------------------------------------------------------------------------
(* The invariant. *)

\* What a handler ended in: nothing yet, one of the two outcomes that do not
\* depend on the plaintext, or what run and seal make of its own plaintext.
OutcomeOf(r) ==
    \/ outcome[r] \in {NotDone, Lost, NotOpened}
    \/ stage[r] = "done" /\ outcome[r] = Sealed(Run(plaintext[r], carried[r]))

\* What the host told the caller: nothing, that it gave up, or the outcome.
ApiOf(r) ==
    /\ stage[r] = "idle" => api[r] = NoAnswer
    /\ stage[r] # "done" => outcome[r] = NotDone /\ api[r] \in {NoAnswer, MatchAnswer(TimedOut)}
    /\ stage[r] = "done" =>
        /\ outcome[r] # NotDone
        /\ outcome[r] \notin {Lost, NotOpened} =>
                api[r] \in {MatchAnswer(CallOutcome(outcome[r])), MatchAnswer(TimedOut)}

Shape ==
    /\ stage \in [Requests -> Stages]
    /\ plaintext \in [Requests -> Plaintexts]
    /\ DOMAIN carried = Requests /\ carried = [r \in Requests |-> carried[r]]
    /\ DOMAIN outcome = Requests /\ outcome = [r \in Requests |-> outcome[r]]
    /\ DOMAIN api = Requests /\ api = [r \in Requests |-> api[r]]

IInv == Shape /\ \A r \in Requests : OutcomeOf(r) /\ ApiOf(r)

\* No request is done before the first call.
LEMMA InvInit == Init => IInv
<1>. SUFFICES ASSUME Init PROVE IInv
  OBVIOUS
<1>1. Shape
  BY DEF Init, Shape, Stages, Plaintexts
<1>2. ASSUME NEW r \in Requests PROVE OutcomeOf(r) /\ ApiOf(r)
  BY DEF Init, OutcomeOf, ApiOf
<1>. QED BY <1>1, <1>2 DEF IInv

\* The end of a handler: its outcome is the result, and the answer follows it.
LEMMA FinishStep ==
    ASSUME IInv, NEW r \in Requests, NEW result, Finish(r, result),
           UNCHANGED <<plaintext, carried>>, stage[r] # "done",
           result = NotOpened \/ result = Sealed(Run(plaintext[r], carried[r])),
           result # NotDone, result # Lost
    PROVE  IInv'
<1>1. Shape'
  BY DEF IInv, Shape, Finish, Stages
<1>2. ASSUME NEW q \in Requests PROVE OutcomeOf(q)' /\ ApiOf(q)'
  <2>1. CASE q # r
    BY <2>1, <1>1 DEF IInv, Shape, Finish, OutcomeOf, ApiOf
  <2>2. CASE q = r
    <3>1. /\ stage'[r] = "done" /\ outcome'[r] = result
          /\ plaintext'[r] = plaintext[r] /\ carried'[r] = carried[r]
          /\ api'[r] \in {MatchAnswer(CallOutcome(result)), MatchAnswer(TimedOut)}
      BY DEF IInv, Shape, Finish, ApiOf
    <3>. QED BY <2>2, <3>1 DEF OutcomeOf, ApiOf
  <2>. QED BY <2>1, <2>2
<1>. QED BY <1>1, <1>2 DEF IInv

\* What run and seal return is neither the initial outcome nor a lost handler.
LEMMA SealedKinds ==
    ASSUME NEW p \in Plaintexts, NEW d
    PROVE  Sealed(Run(p, d)).kind \in {"sealed", "error", "dropped"}
BY DEF Sealed

\* Every action keeps the invariant.
LEMMA InvStep == IInv /\ [Next]_vars => IInv'
<1>. SUFFICES ASSUME IInv, [Next]_vars PROVE IInv'
  OBVIOUS
<1>1. ASSUME NEW r \in Requests, Call(r) PROVE IInv'
  <2>0. Offers[r] \subseteq Plaintexts
    BY HandlerAssumption
  <2>1. Shape'
    BY <1>1, <2>0 DEF IInv, Shape, Call, Stages
  <2>2. ASSUME NEW q \in Requests PROVE OutcomeOf(q)' /\ ApiOf(q)'
    BY <1>1, <2>1 DEF IInv, Shape, Call, OutcomeOf, ApiOf
  <2>. QED BY <2>1, <2>2 DEF IInv
<1>2. ASSUME NEW r \in Requests, Open(r) PROVE IInv'
  <2>1. Shape'
    BY <1>2 DEF IInv, Shape, Open, Stages
  <2>2. ASSUME NEW q \in Requests PROVE OutcomeOf(q)' /\ ApiOf(q)'
    BY <1>2, <2>1 DEF IInv, Shape, Open, OutcomeOf, ApiOf
  <2>. QED BY <2>1, <2>2 DEF IInv
<1>3. ASSUME NEW r \in Requests, OpenFails(r) PROVE IInv'
  <2>1. NotOpened # NotDone /\ NotOpened # Lost
    BY DEF NotOpened, NotDone, Lost
  <2>. QED BY <1>3, <2>1, FinishStep DEF OpenFails
<1>4. ASSUME NEW r \in Requests, ReadDocument(r) PROVE IInv'
  <2>1. Shape'
    BY <1>4 DEF IInv, Shape, ReadDocument, Stages
  <2>2. ASSUME NEW q \in Requests PROVE OutcomeOf(q)' /\ ApiOf(q)'
    BY <1>4, <2>1 DEF IInv, Shape, ReadDocument, OutcomeOf, ApiOf
  <2>. QED BY <2>1, <2>2 DEF IInv
<1>5. ASSUME NEW r \in Requests, RunAndSeal(r) PROVE IInv'
  <2>. DEFINE result == Sealed(Run(plaintext[r], carried[r]))
  <2>1. plaintext[r] \in Plaintexts
    BY DEF IInv, Shape
  <2>2. result # NotDone /\ result # Lost
    BY <2>1, SealedKinds DEF NotDone, Lost
  <2>3. /\ Finish(r, result) /\ UNCHANGED <<plaintext, carried>> /\ stage[r] # "done"
    BY <1>5 DEF RunAndSeal
  <2>. HIDE DEF result
  <2>4. result = Sealed(Run(plaintext[r], carried[r]))
    BY DEF result
  <2>. QED BY <2>2, <2>3, <2>4, FinishStep
<1>6. ASSUME NEW r \in Requests, HostGivesUp(r) PROVE IInv'
  <2>1. Shape'
    BY <1>6 DEF IInv, Shape, HostGivesUp
  <2>2. ASSUME NEW q \in Requests PROVE OutcomeOf(q)' /\ ApiOf(q)'
    BY <1>6, <2>1 DEF IInv, Shape, HostGivesUp, OutcomeOf, ApiOf
  <2>. QED BY <2>1, <2>2 DEF IInv
<1>7. ASSUME NEW r \in Requests, CallRefused(r) PROVE IInv'
  <2>1. Shape'
    BY <1>7 DEF IInv, Shape, CallRefused, Stages
  <2>2. Lost # NotDone
    BY DEF Lost, NotDone
  <2>3. ASSUME NEW q \in Requests PROVE OutcomeOf(q)' /\ ApiOf(q)'
    BY <1>7, <2>1, <2>2 DEF IInv, Shape, CallRefused, OutcomeOf, ApiOf
  <2>. QED BY <2>1, <2>3 DEF IInv
<1>8. ASSUME Exit PROVE IInv'
  <2>1. Shape'
    BY <1>8 DEF IInv, Shape, Exit, Stages
  <2>2. Lost # NotDone
    BY DEF Lost, NotDone
  <2>3. ASSUME NEW q \in Requests PROVE OutcomeOf(q)' /\ ApiOf(q)'
    BY <1>8, <2>1, <2>2 DEF IInv, Shape, Exit, OutcomeOf, ApiOf
  <2>. QED BY <2>1, <2>3 DEF IInv
<1>9. CASE Renew \/ AllDone \/ UNCHANGED vars
  BY <1>9 DEF IInv, Shape, Renew, AllDone, vars, OutcomeOf, ApiOf
<1>. QED BY <1>1, <1>2, <1>3, <1>4, <1>5, <1>6, <1>7, <1>8, <1>9 DEF Next, Handler

LEMMA InvAlways == Spec => []IInv
BY InvInit, InvStep, PTL DEF Spec

-----------------------------------------------------------------------------
(* The theorems. *)

\* A statement is issued only for a match that held, and repeats what its own
\* requester sent: concurrent handlers never mix requests.
THEOREM StatementsEarned == Spec => []StatementsAreEarned
<1>1. IInv => StatementsAreEarned
  <2>1. ASSUME IInv, NEW r \in Requests, HasStatement(r)
        PROVE  Earned(plaintext[r], outcome[r])
    <3>1. outcome[r] = Sealed(Run(plaintext[r], carried[r]))
      BY <2>1 DEF IInv, OutcomeOf, HasStatement, NotDone, Lost, NotOpened
    <3>2. plaintext[r] \in Plaintexts
      BY <2>1 DEF IInv, Shape
    <3>. QED BY <2>1, <3>1, <3>2, SuccessIsEarned DEF HasStatement
  <2>2. ASSUME NEW in, NEW c, c = Claims(in, in.hashes)
        PROVE  /\ c.live = in.live
               /\ c.challenger = in.challenge
               /\ c.credentialClaim = in.hashes
               /\ c.coefficient = LiveScore(in)
    BY <2>2 DEF Claims
  <2>. QED BY <2>1, <2>2 DEF StatementsAreEarned, Earned
<1>. QED BY <1>1, InvAlways, PTL

\* What the rules make of a match that held: a statement, if the envelope has
\* room for the document.
LEMMA HeldIsSigned ==
    ASSUME NEW in \in MatchInputs, NEW d, MatchHeld(in), DocumentFits
    PROVE  /\ Sealed(Run(in, d)).kind = "sealed"
           /\ Sealed(Run(in, d)).result.kind = "success"
<1>1. in.threshold \in Int \cup {NaN}
  BY RulesAssumption DEF MatchInputs
<1>2. LiveScore(in) \in Int \cup {NaN} /\ ChallengeScore(in) \in Int \cup {NaN}
  <2>1. <<in.live, in.credential>> \in Images \X Images /\ <<in.challenge, in.credential>> \in Images \X Images
    BY DEF MatchInputs
  <2>. QED BY <2>1, RulesAssumption DEF MatchHeld, Scored, LiveScore, ChallengeScore
<1>3. ~Below(LiveScore(in), in.threshold) /\ ~Below(ChallengeScore(in), in.threshold)
  BY <1>1, <1>2 DEF MatchHeld, Below
<1>4. Commits[in.hashes] = in.credential /\ in.credential # NoCommitment
  BY RulesAssumption DEF MatchHeld, MatchInputs
<1>5. Evaluate(in) = Claims(in, in.hashes)
  BY <1>3, <1>4 DEF MatchHeld, Evaluate, BindCredentialClaim
<1>6. in # Garbage
  BY GarbageAssumption
<1>7. Run(in, d) = [kind |-> "success", claims |-> Evaluate(in), attestation |-> d]
  BY <1>5, <1>6 DEF MatchHeld, Run, Claims
<1>. QED BY <1>7 DEF Sealed

\* The converse of StatementsEarned: a requester whose match held is never turned
\* away.  A handler that opened its request and was not lost ends with a statement
\* exactly when the match held and the envelope has room for the document,
\* whatever the other requests are and whenever the document was renewed.
THEOREM HeldMatchesGetStatements == Spec => []HeldMatchesAreSigned
<1>1. ASSUME IInv, NEW r \in Requests, stage[r] = "done", outcome[r] \notin {Lost, NotOpened}
      PROVE  HasStatement(r) <=>
                 DocumentFits /\ plaintext[r] # Garbage /\ MatchHeld(plaintext[r])
  <2>1. outcome[r] = Sealed(Run(plaintext[r], carried[r])) /\ plaintext[r] \in Plaintexts
    BY <1>1 DEF IInv, Shape, OutcomeOf, ApiOf
  <2>2. ASSUME HasStatement(r)
        PROVE  DocumentFits /\ plaintext[r] # Garbage /\ MatchHeld(plaintext[r])
    <3>1. Earned(plaintext[r], outcome[r])
      BY <2>1, <2>2, SuccessIsEarned DEF HasStatement
    <3>2. DocumentFits
      BY <2>1, <2>2 DEF HasStatement, Sealed
    <3>. QED BY <3>1, <3>2 DEF Earned
  <2>3. ASSUME DocumentFits, plaintext[r] # Garbage, MatchHeld(plaintext[r])
        PROVE  HasStatement(r)
    <3>1. plaintext[r] \in MatchInputs
      BY <2>1, <2>3 DEF Plaintexts
    <3>. QED BY <2>1, <2>3, <3>1, HeldIsSigned DEF HasStatement
  <2>. QED BY <2>2, <2>3
<1>2. IInv => HeldMatchesAreSigned
  BY <1>1 DEF HeldMatchesAreSigned
<1>. QED BY <1>2, InvAlways, PTL DEF Spec

\* The answers of the host tell nothing of an opened plaintext but that it met
\* one of the named faults, that the process died, or that time ran out.
THEOREM HostLearnsOnlyFaults == Spec => []HostSeesOnlyFaults
<1>1. IInv => HostSeesOnlyFaults
  <2>. SUFFICES ASSUME IInv, NEW r \in Requests, stage[r] = "done",
                       outcome[r] \notin {Lost, NotOpened}, ~MeetsFault(plaintext[r])
                PROVE  api[r] \in {ApiOk, MatchAnswer(TimedOut)}
    BY DEF HostSeesOnlyFaults
  <2>1. /\ outcome[r] = Sealed(Run(plaintext[r], carried[r]))
        /\ api[r] \in {MatchAnswer(CallOutcome(outcome[r])), MatchAnswer(TimedOut)}
    BY DEF IInv, OutcomeOf, ApiOf
  <2>2. plaintext[r] \in Plaintexts
    BY DEF IInv, Shape
  <2>3. outcome[r].kind = "sealed"
    BY <2>1, <2>2, FaultlessIsSealed
  <2>4. MatchAnswer(CallOutcome(outcome[r])) = ApiOk
    <3>1. CallOutcome(outcome[r]) = Ok
      BY <2>3 DEF CallOutcome
    <3>2. /\ Ok \notin {TimedOut, Transport}
          /\ Ok # Operation("RequestNotOpened") /\ Ok # Operation("Internal")
      BY DEF Ok, TimedOut, Transport, Operation
    <3>3. MatchAnswer(Ok) = ApiOk
      BY <3>2 DEF MatchAnswer
    <3>. QED BY <3>1, <3>3
  <2>. QED BY <2>1, <2>4
<1>. QED BY <1>1, InvAlways, PTL

\* A sealed rejection names a reason that is true of the plaintext, whatever the
\* tables of commitments and scores say.
LEMMA ReasonsAreTrue ==
    ASSUME NEW in \in MatchInputs, NEW reason, Evaluate(in) = Rejected(reason)
    PROVE  /\ reason # "MalformedInputs"
           /\ reason = "InvalidHashesJson" => Commits[in.hashes] = NoCommitment
           /\ reason = "ThumbnailHashMismatch" =>
                  Commits[in.hashes] \in Images \ {in.credential}
           /\ reason = "ImageAnalysisFailed" => ~Scored(in)
           /\ reason = "MatchBelowThreshold" =>
                  /\ Commits[in.hashes] = in.credential
                  /\ Scored(in)
                  /\ ~MatchHeld(in)
<1>1. Commits[in.hashes] \in Images \cup {NoCommitment}
  BY RulesAssumption DEF MatchInputs
<1>2. CASE Commits[in.hashes] = NoCommitment
  <2>1. reason = "InvalidHashesJson"
    BY <1>2 DEF Evaluate, BindCredentialClaim, Rejected
  <2>. QED BY <1>2, <2>1
<1>3. CASE Commits[in.hashes] \in Images \ {in.credential}
  <2>1. reason = "ThumbnailHashMismatch"
    BY <1>3, RulesAssumption DEF Evaluate, BindCredentialClaim, Rejected
  <2>. QED BY <1>3, <2>1
<1>4. CASE Commits[in.hashes] = in.credential /\ in.credential # NoCommitment
  <2>1. CASE ~Scored(in)
    <3>1. reason = "ImageAnalysisFailed"
      BY <1>4, <2>1 DEF Evaluate, BindCredentialClaim, Rejected
    <3>. QED BY <2>1, <3>1
  <2>2. CASE Scored(in)
    <3>1. reason = "MatchBelowThreshold"
      BY <1>4, <2>2 DEF Evaluate, BindCredentialClaim, Rejected, Claims
    <3>2. Below(LiveScore(in), in.threshold) \/ Below(ChallengeScore(in), in.threshold)
      BY <1>4, <2>2 DEF Evaluate, BindCredentialClaim, Rejected, Claims
    <3>3. in.threshold \in Int \cup {NaN}
      BY RulesAssumption DEF MatchInputs
    <3>4. LiveScore(in) \in Int \cup {NaN} /\ ChallengeScore(in) \in Int \cup {NaN}
      <4>1. <<in.live, in.credential>> \in Images \X Images /\ <<in.challenge, in.credential>> \in Images \X Images
        BY DEF MatchInputs
      <4>. QED BY <2>2, <4>1, RulesAssumption DEF Scored, LiveScore, ChallengeScore
    <3>5. ~MatchHeld(in)
      BY <3>2, <3>3, <3>4 DEF MatchHeld, Below
    <3>. QED BY <1>4, <2>2, <3>1, <3>5
  <2>. QED BY <2>1, <2>2
<1>. QED BY <1>1, <1>2, <1>3, <1>4, RulesAssumption

\* A sealed rejection is what evaluate said, or the decoder's.
LEMMA RejectionComesFromRun ==
    ASSUME NEW p \in Plaintexts, NEW d, NEW reason,
           Sealed(Run(p, d)).kind = "sealed",
           Sealed(Run(p, d)).result = Rejected(reason)
    PROVE  \/ p = Garbage /\ reason = "MalformedInputs"
           \/ p \in MatchInputs /\ Evaluate(p) = Rejected(reason)
<1>1. Run(p, d) = Rejected(reason)
  BY DEF Sealed
<1>2. CASE p = Garbage
  BY <1>1, <1>2 DEF Run, Rejected
<1>3. CASE p # Garbage
  <2>1. Evaluate(p) = Rejected(reason)
    BY <1>1, <1>3 DEF Run, Rejected
  <2>. QED BY <1>3, <2>1 DEF Plaintexts
<1>. QED BY <1>2, <1>3

THEOREM RejectionsTrue == Spec => []RejectionsAreTrue
<1>1. ASSUME IInv, NEW r \in Requests, NEW reason, IsRejected(r, reason)
      PROVE  \/ plaintext[r] = Garbage /\ reason = "MalformedInputs"
             \/ plaintext[r] \in MatchInputs /\ Evaluate(plaintext[r]) = Rejected(reason)
  <2>1. outcome[r] = Sealed(Run(plaintext[r], carried[r]))
    BY <1>1 DEF IInv, OutcomeOf, IsRejected, NotDone, Lost, NotOpened
  <2>2. plaintext[r] \in Plaintexts
    BY <1>1 DEF IInv, Shape
  <2>. QED BY <1>1, <2>1, <2>2, RejectionComesFromRun DEF IsRejected
<1>2. IInv => RejectionsAreTrue
  <2>. SUFFICES ASSUME IInv, NEW r \in Requests
                PROVE  /\ IsRejected(r, "MalformedInputs") => plaintext[r] = Garbage
                       /\ IsRejected(r, "InvalidHashesJson") => Commits[plaintext[r].hashes] = NoCommitment
                       /\ IsRejected(r, "ThumbnailHashMismatch") =>
                               Commits[plaintext[r].hashes] \in Images \ {plaintext[r].credential}
                       /\ IsRejected(r, "ImageAnalysisFailed") => ~Scored(plaintext[r])
                       /\ IsRejected(r, "MatchBelowThreshold") =>
                               /\ Commits[plaintext[r].hashes] = plaintext[r].credential
                               /\ Scored(plaintext[r])
                               /\ ~MatchHeld(plaintext[r])
    BY DEF RejectionsAreTrue
  <2>1. ASSUME IsRejected(r, "MalformedInputs") PROVE plaintext[r] = Garbage
    BY <1>1, <2>1, ReasonsAreTrue
  <2>2. ASSUME IsRejected(r, "InvalidHashesJson")
        PROVE  Commits[plaintext[r].hashes] = NoCommitment
    BY <1>1, <2>2, ReasonsAreTrue
  <2>3. ASSUME IsRejected(r, "ThumbnailHashMismatch")
        PROVE  Commits[plaintext[r].hashes] \in Images \ {plaintext[r].credential}
    BY <1>1, <2>3, ReasonsAreTrue
  <2>4. ASSUME IsRejected(r, "ImageAnalysisFailed") PROVE ~Scored(plaintext[r])
    BY <1>1, <2>4, ReasonsAreTrue
  <2>5. ASSUME IsRejected(r, "MatchBelowThreshold")
        PROVE  /\ Commits[plaintext[r].hashes] = plaintext[r].credential
               /\ Scored(plaintext[r])
               /\ ~MatchHeld(plaintext[r])
    BY <1>1, <2>5, ReasonsAreTrue
  <2>. QED BY <2>1, <2>2, <2>3, <2>4, <2>5
<1>. QED BY <1>2, InvAlways, PTL

-----------------------------------------------------------------------------
(* The document that goes with a statement. *)

\* A handler's document lies between the one cached when its request was opened
\* and the one cached now.
DocumentOf(r) ==
    /\ stage[r] \in {"opened", "attested"} => openedAt[r] <= document
    /\ stage[r] = "attested" => carried[r] \in openedAt[r] .. document
    /\ HasStatement(r) => outcome[r].result.attestation \in openedAt[r] .. document

Counters ==
    /\ document \in Nat
    /\ openedAt \in [Requests -> Nat]
    /\ carried \in [Requests -> Nat]

DInv == Counters /\ \A r \in Requests : DocumentOf(r)

\* The attestation of a statement is the document the handler read.
LEMMA StatementCarriesDocument ==
    ASSUME NEW p \in Plaintexts, NEW d, Sealed(Run(p, d)).kind = "sealed",
           Sealed(Run(p, d)).result.kind = "success"
    PROVE  Sealed(Run(p, d)).result.attestation = d
<1>1. Sealed(Run(p, d)).result = Run(p, d) /\ Run(p, d).kind = "success"
  BY DEF Sealed
<1>2. p # Garbage
  BY <1>1 DEF Run, Rejected
<1>3. Evaluate(p).kind \in {"panic", "failed", "claims"}
  BY DEF Evaluate, BindCredentialClaim, Rejected, Claims
<1>4. Run(p, d).attestation = d
  BY <1>1, <1>2, <1>3 DEF Run
<1>. QED BY <1>1, <1>4

LEMMA DocumentInit == Init => DInv
<1>1. Init => Counters
  BY DEF Init, Counters
<1>2. Init => \A r \in Requests : DocumentOf(r)
  BY DEF Init, DocumentOf, HasStatement, NotDone
<1>. QED BY <1>1, <1>2 DEF DInv

LEMMA DocumentStep == IInv /\ DInv /\ [Next]_vars => DInv'
<1>. SUFFICES ASSUME IInv, DInv, [Next]_vars PROVE DInv'
  OBVIOUS
<1>0. /\ Shape /\ Counters
      /\ \A r \in Requests : ApiOf(r) /\ DocumentOf(r)
  BY DEF IInv, DInv
<1>1. ASSUME NEW r \in Requests, Call(r) PROVE DInv'
  <2>1. Counters'
    BY <1>0, <1>1 DEF Counters, Call
  <2>2. ASSUME NEW q \in Requests PROVE DocumentOf(q)'
    BY <1>0, <1>1 DEF Shape, Call, DocumentOf, HasStatement
  <2>. QED BY <2>1, <2>2 DEF DInv
<1>2. ASSUME NEW r \in Requests, Open(r) PROVE DInv'
  <2>1. Counters'
    BY <1>0, <1>2 DEF Counters, Open
  <2>2. ASSUME NEW q \in Requests PROVE DocumentOf(q)'
    <3>1. CASE q = r
      <4>1. outcome[r] = NotDone
        BY <1>0, <1>2 DEF ApiOf, Open
      <4>. QED BY <1>0, <1>2, <3>1, <4>1 DEF Shape, Counters, Open, DocumentOf, HasStatement, NotDone
    <3>2. CASE q # r
      BY <1>0, <1>2, <3>2 DEF Shape, Counters, Open, DocumentOf, HasStatement
    <3>. QED BY <3>1, <3>2
  <2>. QED BY <2>1, <2>2 DEF DInv
<1>3. ASSUME NEW r \in Requests, OpenFails(r) PROVE DInv'
  <2>1. Counters'
    BY <1>0, <1>3 DEF Counters, OpenFails
  <2>2. ASSUME NEW q \in Requests PROVE DocumentOf(q)'
    BY <1>0, <1>3 DEF Shape, OpenFails, Finish, DocumentOf, HasStatement, NotOpened
  <2>. QED BY <2>1, <2>2 DEF DInv
<1>4. ASSUME NEW r \in Requests, ReadDocument(r) PROVE DInv'
  <2>1. Counters'
    BY <1>0, <1>4 DEF Counters, ReadDocument
  <2>2. ASSUME NEW q \in Requests PROVE DocumentOf(q)'
    BY <1>0, <1>4 DEF Shape, Counters, ReadDocument, DocumentOf, HasStatement
  <2>. QED BY <2>1, <2>2 DEF DInv
<1>5. ASSUME NEW r \in Requests, RunAndSeal(r) PROVE DInv'
  <2>. DEFINE result == Sealed(Run(plaintext[r], carried[r]))
  <2>1. Counters'
    BY <1>0, <1>5 DEF Counters, RunAndSeal
  <2>2. result.kind = "sealed" /\ result.result.kind = "success"
            => result.result.attestation = carried[r]
    BY <1>0, StatementCarriesDocument DEF Shape
  <2>3. /\ Finish(r, result) /\ stage[r] = "attested"
        /\ UNCHANGED <<document, openedAt, carried>>
    BY <1>5 DEF RunAndSeal
  <2>. HIDE DEF result
  <2>4. ASSUME NEW q \in Requests PROVE DocumentOf(q)'
    BY <1>0, <2>2, <2>3 DEF Shape, Finish, DocumentOf, HasStatement
  <2>. QED BY <2>1, <2>4 DEF DInv
<1>6. ASSUME NEW r \in Requests, HostGivesUp(r) \/ CallRefused(r) PROVE DInv'
  <2>1. Counters'
    BY <1>0, <1>6 DEF Counters, HostGivesUp, CallRefused
  <2>2. ASSUME NEW q \in Requests PROVE DocumentOf(q)'
    BY <1>0, <1>6 DEF Shape, HostGivesUp, CallRefused, DocumentOf, HasStatement, Lost
  <2>. QED BY <2>1, <2>2 DEF DInv
<1>7. ASSUME Renew PROVE DInv'
  <2>1. Counters'
    BY <1>0, <1>7 DEF Counters, Renew
  <2>2. ASSUME NEW q \in Requests PROVE DocumentOf(q)'
    BY <1>0, <1>7 DEF Counters, Renew, DocumentOf, HasStatement
  <2>. QED BY <2>1, <2>2 DEF DInv
<1>8. ASSUME Exit PROVE DInv'
  <2>1. Counters'
    BY <1>0, <1>8 DEF Counters, Exit
  <2>2. ASSUME NEW q \in Requests PROVE DocumentOf(q)'
    BY <1>0, <1>8 DEF Shape, Exit, DocumentOf, HasStatement, Lost
  <2>. QED BY <2>1, <2>2 DEF DInv
<1>9. CASE AllDone \/ UNCHANGED vars
  BY <1>0, <1>9 DEF AllDone, vars, DInv, Counters, DocumentOf, HasStatement
<1>. QED BY <1>1, <1>2, <1>3, <1>4, <1>5, <1>6, <1>7, <1>8, <1>9 DEF Next, Handler

\* The attestation beside a statement was in the cache while its request was
\* handled, however handlers, renewals and the exit interleave.
THEOREM DocumentsAreHandled == Spec => []StatementsCarryAHandledDocument
<1>1. DInv => StatementsCarryAHandledDocument
  BY DEF DInv, DocumentOf, StatementsCarryAHandledDocument
<1>. QED BY <1>1, InvAlways, DocumentInit, DocumentStep, PTL DEF Spec

-----------------------------------------------------------------------------
(* The shape of the state. *)

\* Whatever became of the call, the host answers one of five statuses.
LEMMA StatusIsKnown ==
    ASSUME NEW o
    PROVE  MatchAnswer(o).status \in {200, 409, 500, 503, 504}
<1>1. /\ ApiOk.status = 200
      /\ EnclaveUnreachable(o).status \in {503, 504}
      /\ ApiError(409, "reassign_required", TRUE).status = 409
      /\ ApiError(500, "internal_error", TRUE).status = 500
      /\ EnclaveNotReady.status = 503
  BY DEF ApiOk, EnclaveUnreachable, EnclaveNotReady, ApiError
<1>2. /\ Ok \notin {TimedOut, Transport}
      /\ Operation("RequestNotOpened") \notin {Ok, TimedOut, Transport}
      /\ Operation("Internal") \notin {Ok, TimedOut, Transport}
      /\ Operation("RequestNotOpened") # Operation("Internal")
  BY DEF Ok, TimedOut, Transport, Operation
<1>3. CASE o = Ok
  <2>1. MatchAnswer(o) = ApiOk
    BY <1>2, <1>3 DEF MatchAnswer
  <2>. QED BY <1>1, <2>1
<1>4. CASE o \in {TimedOut, Transport}
  <2>1. MatchAnswer(o) = EnclaveUnreachable(o)
    BY <1>2, <1>4 DEF MatchAnswer
  <2>. QED BY <1>1, <2>1
<1>5. CASE o = Operation("RequestNotOpened")
  <2>1. MatchAnswer(o) = ApiError(409, "reassign_required", TRUE)
    BY <1>2, <1>5 DEF MatchAnswer
  <2>. QED BY <2>1 DEF ApiError
<1>6. CASE o = Operation("Internal")
  <2>1. MatchAnswer(o) = ApiError(500, "internal_error", TRUE)
    BY <1>2, <1>6 DEF MatchAnswer
  <2>. QED BY <2>1 DEF ApiError
<1>7. CASE o \notin {Ok, TimedOut, Transport, Operation("RequestNotOpened"), Operation("Internal")}
  <2>1. MatchAnswer(o) = EnclaveNotReady
    BY <1>7 DEF MatchAnswer
  <2>. QED BY <1>1, <2>1
<1>. QED BY <1>3, <1>4, <1>5, <1>6, <1>7

LEMMA TypeInit == Init => TypeOK
BY HandlerAssumption DEF Init, TypeOK, Stages, Plaintexts, Results, NotDone, NoAnswer

\* The end of a handler keeps the types, whatever it ended in.
LEMMA FinishType ==
    ASSUME IInv, TypeOK, NEW r \in Requests, NEW result, Finish(r, result),
           result.kind \in Results, UNCHANGED <<up, document, plaintext, openedAt, carried>>
    PROVE  TypeOK'
<1>1. ASSUME NEW q \in Requests
      PROVE  outcome'[q].kind \in Results /\ api'[q].status \in {0, 200, 409, 500, 503, 504}
  <2>1. MatchAnswer(CallOutcome(result)).status \in {200, 409, 500, 503, 504}
    BY StatusIsKnown
  <2>2. DOMAIN outcome = Requests /\ DOMAIN api = Requests
    BY DEF IInv, Shape
  <2>3. /\ outcome'[q] = IF q = r THEN result ELSE outcome[q]
        /\ api'[q] = IF q = r /\ api[q] = NoAnswer THEN MatchAnswer(CallOutcome(result)) ELSE api[q]
    BY <2>2 DEF Finish
  <2>. QED BY <2>1, <2>3 DEF TypeOK
<1>. QED BY <1>1 DEF TypeOK, Finish, Stages

LEMMA TypeStep == IInv /\ TypeOK /\ [Next]_vars => TypeOK'
<1>. SUFFICES ASSUME IInv, TypeOK, [Next]_vars PROVE TypeOK'
  OBVIOUS
<1>0. /\ MatchAnswer(TimedOut).status \in {200, 409, 500, 503, 504}
      /\ MatchAnswer(Transport).status \in {200, 409, 500, 503, 504}
  BY StatusIsKnown
<1>1. ASSUME NEW r \in Requests, Call(r) \/ Open(r) \/ ReadDocument(r) PROVE TypeOK'
  BY <1>1, HandlerAssumption DEF TypeOK, Call, Open, ReadDocument, Stages
<1>2. ASSUME NEW r \in Requests, OpenFails(r) PROVE TypeOK'
  <2>1. NotOpened.kind \in Results
    BY DEF NotOpened, Results
  <2>. QED BY <1>2, <2>1, FinishType DEF OpenFails
<1>3. ASSUME NEW r \in Requests, RunAndSeal(r) PROVE TypeOK'
  <2>1. Sealed(Run(plaintext[r], carried[r])).kind \in Results
    BY SealedKinds DEF TypeOK, Results
  <2>. QED BY <1>3, <2>1, FinishType DEF RunAndSeal
<1>4. ASSUME NEW r \in Requests, HostGivesUp(r) PROVE TypeOK'
  BY <1>0, <1>4 DEF IInv, Shape, TypeOK, HostGivesUp
<1>5. ASSUME NEW r \in Requests, CallRefused(r) PROVE TypeOK'
  BY <1>0, <1>5 DEF IInv, Shape, TypeOK, CallRefused, Stages, Results, Lost
<1>6. ASSUME Renew PROVE TypeOK'
  BY <1>6, HandlerAssumption DEF TypeOK, Renew
<1>7. ASSUME Exit PROVE TypeOK'
  <2>1. ASSUME NEW r \in Requests
        PROVE  outcome'[r].kind \in Results /\ api'[r].status \in {0, 200, 409, 500, 503, 504}
    <3>1. /\ outcome'[r] \in {Lost, outcome[r]}
          /\ api'[r] \in {MatchAnswer(Transport), api[r]}
      BY <1>7 DEF Exit
    <3>2. Lost.kind \in Results
      BY DEF Lost, Results
    <3>. QED BY <1>0, <3>1, <3>2 DEF TypeOK
  <2>2. stage' \in [Requests -> Stages]
    BY <1>7 DEF TypeOK, Exit, Stages
  <2>3. UNCHANGED <<document, plaintext, openedAt, carried>> /\ up' \in BOOLEAN
    BY <1>7 DEF Exit
  <2>. QED BY <2>1, <2>2, <2>3 DEF TypeOK
<1>8. CASE AllDone \/ UNCHANGED vars
  BY <1>8 DEF AllDone, vars, TypeOK
<1>. QED BY <1>1, <1>2, <1>3, <1>4, <1>5, <1>6, <1>7, <1>8 DEF Next, Handler

\* The bookkeeping has its shape for any number of requests and renewals.
THEOREM TypeCorrect == Spec => []TypeOK
BY InvAlways, TypeInit, TypeStep, PTL DEF Spec

-----------------------------------------------------------------------------
(* The safety half of CallsAreAnswered. *)

\* The await points a handler still has before it, or the call itself.
StepsLeft(r) ==
    CASE stage[r] = "idle" -> 4
      [] stage[r] = "called" -> 3
      [] stage[r] = "opened" -> 2
      [] stage[r] = "attested" -> 1
      [] stage[r] = "done" -> 0

Answered == \A r \in Requests : stage[r] = "done" => api[r] # NoAnswer

LEMMA AnswersAreAnswers ==
    ASSUME NEW o
    PROVE  MatchAnswer(o) # NoAnswer
<1>1. MatchAnswer(o).status # 0
  BY StatusIsKnown
<1>. QED BY <1>1 DEF NoAnswer

LEMMA AnsweredStep == IInv /\ Answered /\ [Next]_vars => Answered'
<1>. SUFFICES ASSUME IInv, Answered, [Next]_vars, NEW r \in Requests, stage'[r] = "done"
              PROVE  api'[r] # NoAnswer
  BY DEF Answered
<1>0. Shape
  BY DEF IInv
<1>1. ASSUME NEW q \in Requests, NEW result, Finish(q, result) PROVE api'[r] # NoAnswer
  <2>1. MatchAnswer(CallOutcome(result)) # NoAnswer
    BY AnswersAreAnswers
  <2>. QED BY <1>0, <1>1, <2>1 DEF Finish, Shape, Answered
<1>2. ASSUME NEW q \in Requests, Call(q) \/ Open(q) \/ ReadDocument(q) PROVE api'[r] # NoAnswer
  <2>1. stage[r] = "done" /\ UNCHANGED api
    BY <1>0, <1>2 DEF Call, Open, ReadDocument, Shape
  <2>. QED BY <2>1 DEF Answered
<1>3. ASSUME NEW q \in Requests, HostGivesUp(q) PROVE api'[r] # NoAnswer
  BY <1>0, <1>3, AnswersAreAnswers DEF HostGivesUp, Shape, Answered
<1>4. ASSUME NEW q \in Requests, CallRefused(q) PROVE api'[r] # NoAnswer
  <2>1. MatchAnswer(Transport) # NoAnswer
    BY AnswersAreAnswers
  <2>. QED BY <1>0, <1>4, <2>1 DEF CallRefused, Shape, Answered
<1>5. ASSUME Exit PROVE api'[r] # NoAnswer
  <2>1. MatchAnswer(Transport) # NoAnswer
    BY AnswersAreAnswers
  <2>. QED BY <1>0, <1>5, <2>1 DEF Exit, Shape, Answered
<1>6. CASE Renew \/ AllDone \/ UNCHANGED vars
  BY <1>6 DEF Renew, AllDone, vars, Answered
<1>. QED BY <1>1, <1>2, <1>3, <1>4, <1>5, <1>6 DEF Next, Handler, OpenFails, RunAndSeal

\* No call ends in silence: once its handler is over, whether it answered, was
\* lost with the process or never began, the host has answered.
THEOREM NoCallEndsUnanswered == Spec => [](\A r \in Requests : stage[r] = "done" => api[r] # NoAnswer)
<1>1. Init => Answered
  BY DEF Init, Answered
<1>. QED BY <1>1, AnsweredStep, InvAlways, PTL DEF Spec, Answered

\* Every step of a handler brings its end nearer, and no step of anybody, not a
\* renewal, the host's deadline or another handler, puts it off: with fair
\* handlers, CallsAreAnswered is what is left to conclude.
THEOREM CallsAreShort ==
    Spec => [][\A r \in Requests :
                  /\ StepsLeft(r) \in 0 .. 4
                  /\ StepsLeft(r)' <= StepsLeft(r)
                  /\ Handler(r) => StepsLeft(r)' < StepsLeft(r)]_vars
<1>1. ASSUME IInv, IInv', Next, NEW r \in Requests
      PROVE  /\ StepsLeft(r) \in 0 .. 4
             /\ StepsLeft(r)' <= StepsLeft(r)
             /\ Handler(r) => StepsLeft(r)' < StepsLeft(r)
  <2>1. Shape /\ stage[r] \in Stages /\ stage'[r] \in Stages
    BY <1>1 DEF IInv, Shape
  <2>2. StepsLeft(r) \in 0 .. 4 /\ StepsLeft(r)' \in 0 .. 4
    BY <2>1 DEF Stages, StepsLeft
  <2>3. Handler(r) => StepsLeft(r)' < StepsLeft(r)
    BY <2>1 DEF Handler, Open, OpenFails, ReadDocument, RunAndSeal, Finish, Shape, StepsLeft
  <2>4. ASSUME stage'[r] = stage[r] PROVE StepsLeft(r)' <= StepsLeft(r)
    BY <2>1, <2>4 DEF Stages, StepsLeft
  <2>5. \/ stage'[r] = stage[r] \/ stage'[r] = "done" \/ Handler(r)
        \/ stage[r] = "idle"
    BY <1>1, <2>1 DEF Next, Call, Handler, Open, OpenFails, ReadDocument, RunAndSeal, Finish,
                      HostGivesUp, CallRefused, Renew, Exit, AllDone, vars, Shape
  <2>6. ASSUME stage'[r] = "done" PROVE StepsLeft(r)' <= StepsLeft(r)
    BY <2>1, <2>6 DEF Stages, StepsLeft
  <2>7. ASSUME stage[r] = "idle" PROVE StepsLeft(r)' <= StepsLeft(r)
    BY <2>1, <2>7 DEF Stages, StepsLeft
  <2>. QED BY <2>2, <2>3, <2>4, <2>5, <2>6, <2>7
<1>2. IInv /\ IInv' /\ [Next]_vars =>
          [\A r \in Requests :
              /\ StepsLeft(r) \in 0 .. 4
              /\ StepsLeft(r)' <= StepsLeft(r)
              /\ Handler(r) => StepsLeft(r)' < StepsLeft(r)]_vars
  BY <1>1
<1>. QED BY <1>2, InvAlways, PTL DEF Spec
===============================================================================
