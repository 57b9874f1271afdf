----------------------------- MODULE MatchRules -----------------------------
(***************************************************************************)
(* What the enclave answers to one opened match request, as operators on   *)
(* its content: binding, scores, thresholds, signing and sealing.          *)
(*                                                                         *)
(* Images and hashes.json files stand for their bytes and, hashing being   *)
(* injective here, for their SHA-256 too.  Scores and thresholds are       *)
(* integers on some scale, or NaN; a comparison with NaN is false.         *)
(*                                                                         *)
(*   sources  verifier/enclave/src/routes/matches.rs, pcp.rs,              *)
(*            face_engine.rs, keys.rs; verifier/protocol/src/match_token.rs*)
(***************************************************************************)
EXTENDS Integers

CONSTANTS
    Images,         \* frames a requester may send
    Unusable,       \* those the analyzer or the template generator refuses
    HashesFiles,    \* raw hashes.json contents
    Commits,        \* per file: the image whose hash it lists, or NoCommitment
    NoCommitment,   \* not JSON, or no usable thumbnail.png entry
    Similarity,     \* per <<probe, reference>>: score, NaN, or NoScore
    NoScore,        \* the matcher failed on well-formed embeddings
    NaN,
    Thresholds,     \* match_threshold values, as the requester sends them
    Garbage,        \* a plaintext that is not the CBOR of MatchInputs
    DocumentFits    \* the attestation leaves room in the response envelope

ASSUME RulesAssumption ==
    /\ Unusable \subseteq Images
    /\ NoCommitment \notin Images
    /\ Commits \in [HashesFiles -> Images \cup {NoCommitment}]
    /\ NaN \notin Int /\ NoScore \notin Int \cup {NaN}
    /\ Similarity \in [Images \X Images -> Int \cup {NaN, NoScore}]
    /\ Thresholds \subseteq Int \cup {NaN}
    /\ DocumentFits \in BOOLEAN

MatchInputs == [live : Images, credential : Images, challenge : Images,
                hashes : HashesFiles, lightGuard : BOOLEAN, threshold : Thresholds]

ASSUME GarbageAssumption == Garbage \notin MatchInputs

Plaintexts == MatchInputs \cup {Garbage}

-----------------------------------------------------------------------------
(* The enclave: evaluate, run and seal. *)

\* Mutant of Below: a score that just meets the threshold is rejected too.
BelowOrEqual(score, threshold) == score # NaN /\ threshold # NaN /\ score <= threshold

\* f32's "<": false when either side is NaN.
Below(score, threshold) == score # NaN /\ threshold # NaN /\ score < threshold

LiveScore(in) == Similarity[<<in.live, in.credential>>]
ChallengeScore(in) == Similarity[<<in.challenge, in.credential>>]

\* compare_reference_to_probes: embeddings first, then both comparisons.
Scored(in) ==
    /\ {in.credential, in.live, in.challenge} \cap Unusable = {}
    /\ LiveScore(in) # NoScore
    /\ ChallengeScore(in) # NoScore

Rejected(reason) == [kind |-> "failed", reason |-> reason]

\* bind_credential_claim: the claim is the hash of the raw file, handed out only
\* when the file parses and lists the image.
BindCredentialClaim(image, file) ==
    IF Commits[file] = NoCommitment THEN Rejected("InvalidHashesJson")
    ELSE IF Commits[file] # image THEN Rejected("ThumbnailHashMismatch")
    ELSE [kind |-> "bound", claim |-> file]

Claims(in, claim) == [kind |-> "claims", live |-> in.live, credentialClaim |-> claim,
                      challenger |-> in.challenge, coefficient |-> LiveScore(in)]

\* Mutant of Evaluate: the challenge frame is scored but gates nothing.
EvaluateWithoutChallenge(in) ==
    LET binding == BindCredentialClaim(in.credential, in.hashes) IN
    IF in.lightGuard THEN [kind |-> "panic"]
    ELSE IF binding.kind # "bound" THEN binding
    ELSE IF ~Scored(in) THEN Rejected("ImageAnalysisFailed")
    ELSE IF Below(LiveScore(in), in.threshold) THEN Rejected("MatchBelowThreshold")
    ELSE Claims(in, binding.claim)

\* Mutant of Evaluate: the faces are compared before the credential is bound.
EvaluateScoresFirst(in) ==
    LET binding == BindCredentialClaim(in.credential, in.hashes) IN
    IF in.lightGuard THEN [kind |-> "panic"]
    ELSE IF ~Scored(in) THEN Rejected("ImageAnalysisFailed")
    ELSE IF Below(LiveScore(in), in.threshold) \/ Below(ChallengeScore(in), in.threshold)
         THEN Rejected("MatchBelowThreshold")
    ELSE IF binding.kind # "bound" THEN binding
    ELSE Claims(in, binding.claim)

\* The binding, then the scores, then the thresholds; the first failure decides.
\* LightGuard inputs are not evaluated at all.
Evaluate(in) ==
    LET binding == BindCredentialClaim(in.credential, in.hashes) IN
    IF in.lightGuard THEN [kind |-> "panic"]
    ELSE IF binding.kind # "bound" THEN binding
    ELSE IF ~Scored(in) THEN Rejected("ImageAnalysisFailed")
    ELSE IF Below(LiveScore(in), in.threshold) \/ Below(ChallengeScore(in), in.threshold)
         THEN Rejected("MatchBelowThreshold")
    ELSE Claims(in, binding.claim)

\* scaled_coefficient refuses what is not finite or is negative (no similarity
\* comes near the u32 limit), and then nothing is signed.
Representable(score) == score # NaN /\ score >= 0

\* Mutant of Run: a plaintext that does not decode is returned as an error.
RunWithOpenDecodeError(plaintext, document) ==
    IF plaintext = Garbage THEN [kind |-> "fault", error |-> "Internal"]
    ELSE LET verdict == Evaluate(plaintext) IN
         IF verdict.kind # "claims" THEN verdict
         ELSE IF Representable(verdict.coefficient)
         THEN [kind |-> "success", claims |-> verdict, attestation |-> document]
         ELSE [kind |-> "fault", error |-> "Internal"]

\* run's result for an opened plaintext: a MatchResult, a panic, or a fault of
\* the enclave.  document is the signing-key attestation read beforehand.
Run(plaintext, document) ==
    IF plaintext = Garbage THEN Rejected("MalformedInputs")
    ELSE LET verdict == Evaluate(plaintext) IN
         IF verdict.kind # "claims" THEN verdict
         ELSE IF Representable(verdict.coefficient)
         THEN [kind |-> "success", claims |-> verdict, attestation |-> document]
         ELSE [kind |-> "fault", error |-> "Internal"]

\* The outcome of the handler: a MatchResult is sealed to the requester if the
\* fixed-size envelope holds it (a rejection always fits).
Sealed(result) ==
    IF result.kind = "failed" \/ (result.kind = "success" /\ DocumentFits)
    THEN [kind |-> "sealed", result |-> result]
    ELSE IF result.kind = "success" THEN [kind |-> "error", error |-> "Internal"]
    ELSE IF result.kind = "fault" THEN [kind |-> "error", error |-> result.error]
    ELSE [kind |-> "dropped"]
=============================================================================
