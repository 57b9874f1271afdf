------------------------------ MODULE MatchToken ------------------------------
(***************************************************************************)
(* A match statement from its claims to a verified token: the fixed-point  *)
(* form of the score, the digest the signature covers, and verify, which   *)
(* rebuilds the claims from the payload and recomputes the digest.         *)
(*                                                                         *)
(* Scores are natural multiples of the finest step a float can take, so    *)
(* that all rounding is integer arithmetic.  The signature scheme and the  *)
(* permutation are external: a signature verifies under the key that made  *)
(* it for the digest it was made for, and digests never collide.           *)
(*                                                                         *)
(*   sources  verifier/protocol/src/match_token.rs,                        *)
(*            verifier/enclave/src/keys.rs                                 *)
(***************************************************************************)
EXTENDS Integers

CONSTANTS
    Hashes,      \* values of a 32-byte hash claim
    SigningKeys, \* boot signing keys
    Significand, \* a float's significand is below this power of two (2^24)
    Exponents,   \* exponents of the floats, as the powers of two they scale by
    Grain,       \* float steps in one unit of the fixed-point form (1 / 2^30)
    MaxScaled,   \* largest fixed-point value (u32::MAX)
    Negative, NotFinite  \* a score below zero; NaN or an infinity

ASSUME TokenAssumption ==
    /\ Significand \in Nat \ {0}
    /\ Exponents \subseteq Nat \ {0} /\ 1 \in Exponents
    /\ Grain \in Nat \ {0}
    /\ MaxScaled \in Nat
    /\ Negative \notin Nat /\ NotFinite \notin Nat

\* Exponents are powers of two, and so is the scale: one unit of the fixed-point
\* form is among them, and a float can be as large as that form.
ASSUME FormatAssumption ==
    /\ Grain \in Exponents
    /\ \A d, e \in Exponents : d <= e => e % d = 0
    /\ \E e \in Exponents : MaxScaled * Grain < Significand * e

\* The non-negative f32 values.
Floats == {m * e : m \in 0 .. Significand - 1, e \in Exponents}
Scores == Floats \cup {Negative, NotFinite}
Versions == 1 .. 2
TOKEN_VERSION == 1

-----------------------------------------------------------------------------
(* The fixed-point form. *)

\* f64::round of score * MATCH_COEFFICIENT_SCALE; the product is exact.
Rounded(score) == (2 * score + Grain) \div (2 * Grain)

\* Mutant of Representable: no upper bound.
RepresentableUnbounded(score) == score \notin {Negative, NotFinite}

\* scaled_coefficient: what it refuses, and what it returns otherwise.
Representable(score) == score \notin {Negative, NotFinite} /\ Rounded(score) <= MaxScaled

\* Mutant of Scaled: kept in an integer no wider than a float's significand.
Wrapped(score) == Rounded(score) % Significand

\* "as u32", which saturates; below the bound it changes nothing.
Scaled(score) == IF Rounded(score) <= MaxScaled THEN Rounded(score) ELSE MaxScaled

\* "as f32": the nearest float, and of two the one with the even significand.
Step(v) == CHOOSE e \in Exponents :
    v < Significand * e /\ \A d \in Exponents : v < Significand * d => e <= d
Narrowed(v) ==
    LET e == Step(v)
        q == v \div e
        twice == 2 * (v % e)
    IN  IF twice > e \/ (twice = e /\ q % 2 = 1) THEN (q + 1) * e ELSE q * e

\* decode_claims: back to the score, through f64 and down to f32.
Unscaled(scaled) == Narrowed(scaled * Grain)

-----------------------------------------------------------------------------
VARIABLES
    claims,    \* the claims to sign
    token,     \* the token as it stands now, or NoToken
    altered,   \* it is not what build_token returned
    verdict    \* what verify returned: claims, or an error

vars == <<claims, token, altered, verdict>>

HashClaims == {"live", "credential", "challenger"}
MatchClaims == [hashes : [HashClaims -> Hashes], score : Scores]
NoToken == [signed |-> FALSE]
Pending == [ok |-> FALSE, error |-> "none"]
Error(e) == [ok |-> FALSE, error |-> e]

Init ==
    /\ claims \in MatchClaims
    /\ token = NoToken
    /\ altered = FALSE
    /\ verdict = Pending

\* Mutant of MessageHash: covers the float itself.
HashOfFloat(hashes, score) ==
    <<hashes["live"], hashes["credential"], hashes["challenger"], score>>

\* message_hash: the three hashes and the scaled score; not the version.
MessageHash(hashes, score) ==
    <<hashes["live"], hashes["credential"], hashes["challenger"], Scaled(score)>>

\* sign_claims: claims that cannot commit to their score are not signed at all.
Sign(key) ==
    /\ token = NoToken
    /\ Representable(claims.score)
    /\ token' = [signed |-> TRUE, version |-> TOKEN_VERSION, hashes |-> claims.hashes,
                 coefficient |-> Scaled(claims.score),
                 signature |-> [key |-> key, digest |-> MessageHash(claims.hashes, claims.score)]]
    /\ UNCHANGED <<claims, altered, verdict>>

RefuseToSign ==
    /\ token = NoToken
    /\ ~Representable(claims.score)
    /\ verdict' = Error("UnrepresentableCoefficient")
    /\ UNCHANGED <<claims, token, altered>>

\* A field of the encoded token changes on its way to the verifier.
Alter ==
    /\ token # NoToken
    /\ verdict = Pending
    /\ ~altered
    /\ \/ \E v \in Versions \ {token.version} : token' = [token EXCEPT !.version = v]
       \/ \E c \in HashClaims : \E h \in Hashes \ {token.hashes[c]} :
            token' = [token EXCEPT !.hashes[c] = h]
       \/ \E s \in (0 .. MaxScaled) \ {token.coefficient} : token' = [token EXCEPT !.coefficient = s]
    /\ altered' = TRUE
    /\ UNCHANGED <<claims, verdict>>

\* Mutant of Verdict: the version is left to the digest.
VerdictWithoutVersion(t, key) ==
    LET score == Unscaled(t.coefficient) IN
    IF ~Representable(score) THEN Error("UnrepresentableCoefficient")
    ELSE IF t.signature = [key |-> key, digest |-> MessageHash(t.hashes, score)]
    THEN [ok |-> TRUE, claims |-> [hashes |-> t.hashes, score |-> score]]
    ELSE Error("SignatureInvalid")

\* verify: the version is compared, all else is covered by the digest, which is
\* recomputed from the decoded claims.
Verdict(t, key) ==
    LET score == Unscaled(t.coefficient) IN
    IF t.version # TOKEN_VERSION THEN Error("UnsupportedTokenVersion")
    ELSE IF ~Representable(score) THEN Error("UnrepresentableCoefficient")
    ELSE IF t.signature = [key |-> key, digest |-> MessageHash(t.hashes, score)]
    THEN [ok |-> TRUE, claims |-> [hashes |-> t.hashes, score |-> score]]
    ELSE Error("SignatureInvalid")

Verify(key) ==
    /\ token # NoToken
    /\ verdict = Pending
    /\ verdict' = Verdict(token, key)
    /\ UNCHANGED <<claims, token, altered>>

\* A token is signed once and verified once.
Done == verdict # Pending /\ UNCHANGED vars

Next ==
    \/ \E key \in SigningKeys : Sign(key) \/ Verify(key)
    \/ RefuseToSign \/ Alter \/ Done

Spec == Init /\ [][Next]_vars

-----------------------------------------------------------------------------
\* Every token the enclave issues verifies under the key that signed it: the
\* score goes through two conversions and two roundings and scales to the same
\* integer again, although it need not come back as the same float.
IssuedTokensVerify ==
    token # NoToken /\ ~altered => Verdict(token, token.signature.key).ok

\* What verify returns is what was signed, whatever happened to the token on the
\* way: the same hashes, this version, and a score of the same fixed-point form.
VerifiedClaimsWereSigned ==
    verdict.ok =>
        /\ verdict.claims.hashes = claims.hashes
        /\ Scaled(verdict.claims.score) = Scaled(claims.score)
        /\ token.version = TOKEN_VERSION

\* The verified score is the one the face engine gave, exactly wherever a float
\* is no finer than the fixed-point form, and to half a unit elsewhere.
ScoreSurvives ==
    verdict.ok =>
        /\ 2 * (verdict.claims.score - claims.score) <= Grain
        /\ 2 * (claims.score - verdict.claims.score) <= Grain
        /\ claims.score % Grain = 0 => verdict.claims.score = claims.score

\* The consumer of a statement compares fixed-point forms.  It accepts every
\* score that meets the requirement and, where floats are no finer than the
\* fixed-point form, no other.
Comparable == {f \in Floats : Representable(f)}
ComparisonSurvives ==
    token # NoToken /\ ~altered => \A required \in Comparable :
        /\ claims.score >= required => token.coefficient >= Scaled(required)
        /\ required % Grain = 0 /\ claims.score % Grain = 0 =>
                (token.coefficient >= Scaled(required) => claims.score >= required)

\* The consumer in the end-to-end program instead compares the verified score
\* itself with the threshold it sent, and looks at the three hashes.
HarnessAccepts(verified, threshold, sent) ==
    verified.score >= threshold /\ verified.hashes = sent

\* No match that met its threshold is turned down there: the verified score does
\* not drop below a threshold the fixed-point form can hold.  (0.9, the default,
\* is one.)
MatchesAreAccepted ==
    verdict.ok => \A threshold \in Floats :
        threshold % Grain = 0 /\ claims.score >= threshold
            => HarnessAccepts(verdict.claims, threshold, claims.hashes)
=============================================================================
