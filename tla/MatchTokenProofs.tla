--------------------------- MODULE MatchTokenProofs ---------------------------
(***************************************************************************)
(* Proofs about match tokens for every float format, grain and set of      *)
(* keys: issued tokens verify, what verify accepts was signed, scaling     *)
(* keeps the order of scores, and reading back loses nothing more.         *)
(*                                                                         *)
(* The invariant is that a signature on a token covers the claims it was   *)
(* made from, whatever happened to the other fields since, and that an     *)
(* accepted token's digest is the one recomputed from what it holds.       *)
(***************************************************************************)
EXTENDS MatchToken, WellFoundedInduction, TLAPS

-----------------------------------------------------------------------------
(* Scaling. *)

\* Division rounds down.
LEMMA DivRoundsDown ==
    ASSUME NEW a \in Nat, NEW b \in Nat \ {0}
    PROVE  /\ a \div b \in Nat
           /\ b * (a \div b) <= a
           /\ a < b * (a \div b) + b
OBVIOUS

\* A quotient is the only number whose multiple lies so close below.
LEMMA DivIsUnique ==
    ASSUME NEW a \in Nat, NEW b \in Nat \ {0}, NEW q \in Nat, b * q <= a, a < b * q + b
    PROVE  a \div b = q
OBVIOUS

\* A higher dividend has no lower quotient.
LEMMA DivIsMonotone ==
    ASSUME NEW a \in Nat, NEW c \in Nat, NEW b \in Nat \ {0}, a <= c
    PROVE  a \div b <= c \div b
OBVIOUS

LEMMA FloatsAreNat == Floats \subseteq Nat
BY TokenAssumption DEF Floats

LEMMA ScaledIsNat == ASSUME NEW s \in Nat PROVE Rounded(s) \in Nat /\ Scaled(s) \in Nat
<1>1. 2 * s + Grain \in Nat /\ 2 * Grain \in Nat \ {0}
  BY TokenAssumption
<1>2. Rounded(s) \in Nat
  BY <1>1, DivRoundsDown DEF Rounded
<1>. QED BY <1>2, TokenAssumption DEF Scaled

LEMMA RoundedIsMonotone ==
    ASSUME NEW s \in Nat, NEW t \in Nat, s <= t
    PROVE  Rounded(s) <= Rounded(t)
<1>1. 2 * s + Grain \in Nat /\ 2 * t + Grain \in Nat /\ 2 * Grain \in Nat \ {0}
  BY TokenAssumption
<1>2. 2 * s + Grain <= 2 * t + Grain
  BY TokenAssumption
<1>. QED BY <1>1, <1>2, DivIsMonotone DEF Rounded

\* A higher score has no lower fixed-point form.
LEMMA ScaledIsMonotone ==
    ASSUME NEW s \in Nat, NEW t \in Nat, s <= t
    PROVE  Scaled(s) <= Scaled(t)
BY RoundedIsMonotone, ScaledIsNat, TokenAssumption DEF Scaled

\* A multiple of the grain is rounded to what it is a multiple by.
LEMMA RoundedOnGrain ==
    ASSUME NEW q \in Nat
    PROVE  Rounded(Grain * q) = q
<1>1. Grain \in Nat \ {0} /\ Grain * q \in Nat
  BY TokenAssumption
<1>2. /\ (2 * Grain) * q <= 2 * (Grain * q) + Grain
      /\ 2 * (Grain * q) + Grain < (2 * Grain) * q + 2 * Grain
  BY <1>1
<1>3. 2 * (Grain * q) + Grain \in Nat /\ 2 * Grain \in Nat \ {0}
  BY <1>1
<1>. QED BY <1>2, <1>3, DivIsUnique DEF Rounded

\* On multiples of the grain within the bound scaling loses nothing.
LEMMA ScaledIsExact ==
    ASSUME NEW s \in Nat, s % Grain = 0, Rounded(s) <= MaxScaled
    PROVE  s = Grain * Scaled(s)
<1>1. Grain \in Nat \ {0}
  BY TokenAssumption
<1>2. s \div Grain \in Nat /\ s = Grain * (s \div Grain)
  BY <1>1, DivRoundsDown
<1>3. Rounded(s) = s \div Grain
  BY <1>2, RoundedOnGrain
<1>. QED BY <1>2, <1>3 DEF Scaled

-----------------------------------------------------------------------------
(* Scaling back. *)

LEMMA LeastNatural ==
    ASSUME NEW T, T \subseteq Nat, T # {}
    PROVE  \E x \in T : \A y \in T : x <= y
<1>1. \E x \in T : \A y \in T : <<y, x>> \notin OpToRel(<, Nat)
  BY NatLessThanWellFounded, WFMin
<1>2. PICK x \in T : \A y \in T : <<y, x>> \notin OpToRel(<, Nat)
  BY <1>1
<1>3. ASSUME NEW y \in T PROVE x <= y
  <2>1. ~(y < x)
    BY <1>2 DEF OpToRel
  <2>. QED BY <2>1
<1>. QED BY <1>3

LEMMA Multiples ==
    ASSUME NEW v \in Nat, NEW e \in Nat \ {0}
    PROVE  /\ v % e = 0 => v = e * (v \div e)
           /\ \A q \in Nat : v = e * q => v % e = 0
<1>1. v = e * (v \div e) + (v % e)
  OBVIOUS
<1>2. v \div e \in Nat /\ v % e \in Int
  OBVIOUS
<1>3. v % e = 0 => v = e * (v \div e)
  BY <1>1, <1>2
<1>4. ASSUME NEW q \in Nat, v = e * q PROVE v % e = 0
  <2>1. e * q <= v /\ v < e * q + e
    BY <1>4
  <2>2. v \div e = q
    BY <2>1, DivIsUnique
  <2>. QED BY <1>1, <1>2, <1>4, <2>2
<1>. QED BY <1>3, <1>4

\* A multiple of a multiple is a multiple.
LEMMA MultiplesChain ==
    ASSUME NEW v \in Nat, NEW e \in Nat \ {0}, NEW d \in Nat \ {0}, v % e = 0, e % d = 0
    PROVE  v % d = 0
<1>. DEFINE q == v \div e
            p == e \div d
<1>1. v = e * q /\ e = d * p /\ q \in Nat /\ p \in Nat
  BY Multiples, DivRoundsDown
<1>. HIDE DEF q, p
<1>2. v = d * (p * q) /\ p * q \in Nat
  BY <1>1
<1>. QED BY <1>2, Multiples

\* A number within the floats' range has a least exponent that reaches it.
LEMMA StepIsLeast ==
    ASSUME NEW v \in Nat, \E e \in Exponents : v < Significand * e
    PROVE  /\ Step(v) \in Exponents
           /\ v < Significand * Step(v)
           /\ \A d \in Exponents : v < Significand * d => Step(v) <= d
<1>. DEFINE Reach == {e \in Exponents : v < Significand * e}
<1>1. \E e \in Reach : \A d \in Reach : e <= d
  BY LeastNatural, TokenAssumption
<1>2. \E e \in Exponents : v < Significand * e /\ \A d \in Exponents : v < Significand * d => e <= d
  BY <1>1
<1>. QED BY <1>2 DEF Step

\* Narrowing keeps multiples of the step, and yields nothing else.
LEMMA NarrowedToSteps ==
    ASSUME NEW v \in Nat, Step(v) \in Nat \ {0}
    PROVE  /\ Narrowed(v) \in Nat
           /\ Narrowed(v) % Step(v) = 0
           /\ v % Step(v) = 0 => Narrowed(v) = v
<1>. DEFINE e == Step(v)
            q == v \div e
<1>1. e \in Nat \ {0} /\ q \in Nat /\ v % e \in Nat
  BY DivRoundsDown
<1>2. Narrowed(v) = (q + 1) * e \/ Narrowed(v) = q * e
  BY DEF Narrowed
<1>3. v % e = 0 => Narrowed(v) = q * e
  BY <1>1 DEF Narrowed
<1>4. v % e = 0 => v = e * q
  BY <1>1, Multiples
<1>. HIDE DEF e, q
<1>5. \E n \in Nat : Narrowed(v) = e * n
  <2>1. q * e = e * q /\ (q + 1) * e = e * (q + 1) /\ q + 1 \in Nat
    BY <1>1
  <2>. QED BY <1>1, <1>2, <2>1
<1>6. Narrowed(v) \in Nat
  BY <1>1, <1>5
<1>7. Narrowed(v) % e = 0
  BY <1>1, <1>5, <1>6, Multiples
<1>8. v % e = 0 => Narrowed(v) = v
  BY <1>1, <1>3, <1>4
<1>. QED BY <1>6, <1>7, <1>8 DEF e

\* What a fixed-point value is read back as lies on the grain.
LEMMA UnscaledOnGrain ==
    ASSUME NEW c \in 0 .. MaxScaled
    PROVE  Unscaled(c) \in Nat /\ Unscaled(c) % Grain = 0
<1>. DEFINE v == c * Grain
            e == Step(v)
<1>0. Grain \in Nat \ {0} /\ Significand \in Nat \ {0} /\ MaxScaled \in Nat /\ c \in Nat /\ c <= MaxScaled
  BY TokenAssumption
<1>1. v \in Nat /\ v <= MaxScaled * Grain /\ v % Grain = 0
  <2>1. v = Grain * c
    BY <1>0
  <2>. QED BY <1>0, <2>1, Multiples
<1>2. \E d \in Exponents : v < Significand * d
  <2>1. PICK d \in Exponents : MaxScaled * Grain < Significand * d
    BY FormatAssumption
  <2>2. d \in Nat
    BY TokenAssumption
  <2>3. v < Significand * d
    <3>. DEFINE top == MaxScaled * Grain
                reach == Significand * d
    <3>1. top \in Nat /\ reach \in Nat /\ v <= top /\ top < reach
      BY <1>0, <1>1, <2>1, <2>2
    <3>. HIDE DEF top, reach, v
    <3>2. v < reach
      BY <1>1, <3>1
    <3>. QED BY <3>2 DEF reach
  <2>. QED BY <2>3
<1>. HIDE DEF v
<1>3. e \in Exponents /\ e \in Nat \ {0}
  BY <1>1, <1>2, StepIsLeast, TokenAssumption
<1>4. Narrowed(v) \in Nat /\ Narrowed(v) % e = 0 /\ (v % e = 0 => Narrowed(v) = v)
  BY <1>1, <1>3, NarrowedToSteps
<1>5. Narrowed(v) % Grain = 0
  <2>1. CASE e <= Grain
    <3>1. Grain % e = 0
      BY <1>3, <2>1, FormatAssumption
    <3>2. v % e = 0
      BY <1>0, <1>1, <1>3, <3>1, MultiplesChain
    <3>. QED BY <1>1, <1>4, <3>2
  <2>2. CASE Grain <= e
    <3>1. e % Grain = 0
      BY <1>3, <2>2, FormatAssumption
    <3>. QED BY <1>0, <1>3, <1>4, <3>1, MultiplesChain
  <2>. QED BY <1>0, <1>3, <2>1, <2>2
<1>. QED BY <1>4, <1>5 DEF Unscaled, v

\* The fixed-point form is the nearest: half a unit away at most.
LEMMA RoundedIsNear ==
    ASSUME NEW s \in Nat
    PROVE  /\ 2 * (Grain * Rounded(s)) <= 2 * s + Grain
           /\ 2 * s + Grain < 2 * (Grain * Rounded(s)) + 2 * Grain
<1>. DEFINE k == Rounded(s)
<1>1. k \in Nat /\ Grain \in Nat
  BY ScaledIsNat, TokenAssumption
<1>2. (2 * Grain) * k <= 2 * s + Grain /\ 2 * s + Grain < (2 * Grain) * k + 2 * Grain
  <2>1. 2 * s + Grain \in Nat /\ 2 * Grain \in Nat \ {0}
    BY TokenAssumption
  <2>. QED BY <2>1, DivRoundsDown DEF Rounded
<1>. HIDE DEF k
<1>3. (2 * Grain) * k = 2 * (Grain * k)
  BY <1>1
<1>. QED BY <1>2, <1>3 DEF k

LEMMA ProductIsMonotone ==
    ASSUME NEW a \in Nat, NEW b \in Nat, NEW c \in Nat, a <= b
    PROVE  a * c <= b * c
OBVIOUS

\* A score's fixed-point form is read back exactly: either the score is itself
\* on the grain, or the form is below the floats that are coarser than it.
LEMMA ReadBackExactly ==
    ASSUME NEW s \in Floats, Rounded(s) <= MaxScaled
    PROVE  Unscaled(Rounded(s)) = Grain * Rounded(s)
<1>. DEFINE k == Rounded(s)
            v == Grain * k
            e == Step(v)
<1>0. /\ Grain \in Nat \ {0} /\ Significand \in Nat \ {0} /\ MaxScaled \in Nat
      /\ s \in Nat /\ k \in Nat /\ k <= MaxScaled
  BY TokenAssumption, FloatsAreNat, ScaledIsNat
<1>1. PICK m \in 0 .. Significand - 1, d \in Exponents : s = m * d
  BY DEF Floats
<1>2. d \in Nat \ {0} /\ m \in Nat /\ m <= Significand - 1
  BY <1>1, TokenAssumption
<1>3. 2 * v <= 2 * s + Grain
  BY <1>0, RoundedIsNear
<1>. HIDE DEF k
<1>4. v \in Nat /\ v % Grain = 0
  BY <1>0, Multiples
<1>5. s % d = 0 /\ s < Significand * d
  <2>1. s = d * m
    BY <1>1, <1>2
  <2>2. m * d <= (Significand - 1) * d
    BY <1>0, <1>2, ProductIsMonotone
  <2>3. (Significand - 1) * d < Significand * d
    BY <1>0, <1>2
  <2>4. m * d \in Nat /\ (Significand - 1) * d \in Nat /\ Significand * d \in Nat
    BY <1>0, <1>2
  <2>. QED BY <1>0, <1>1, <1>2, <2>1, <2>2, <2>3, <2>4, Multiples
<1>6. e \in Exponents /\ e \in Nat \ {0} /\ v % e = 0
  <2>1. CASE d <= Grain
    <3>1. v < Significand * Grain
      <4>1. m * d <= (Significand - 1) * d
        BY <1>0, <1>2, ProductIsMonotone
      <4>2. d * (Significand - 1) <= Grain * (Significand - 1)
        BY <1>0, <1>2, <2>1, ProductIsMonotone
      <4>3. /\ d * (Significand - 1) = (Significand - 1) * d
            /\ Grain * (Significand - 1) = Significand * Grain - Grain
            /\ Significand * Grain \in Nat /\ (Significand - 1) * d \in Nat
        BY <1>0, <1>2
      <4>4. s <= Significand * Grain - Grain
        BY <1>0, <1>1, <4>1, <4>2, <4>3
      <4>. DEFINE top == Significand * Grain
      <4>5. top \in Nat /\ s <= top - Grain
        BY <4>3, <4>4
      <4>. HIDE DEF top, v
      <4>6. v < top
        BY <1>0, <1>3, <1>4, <4>5
      <4>. QED BY <4>6 DEF top
    <3>2. e \in Exponents /\ e <= Grain
      BY <1>4, <3>1, StepIsLeast, FormatAssumption
    <3>. HIDE DEF v, e
    <3>3. Grain % e = 0 /\ e \in Nat \ {0}
      BY <3>2, FormatAssumption, TokenAssumption
    <3>. QED BY <1>0, <1>4, <3>2, <3>3, MultiplesChain
  <2>2. CASE Grain <= d
    <3>1. s % Grain = 0
      <4>1. d % Grain = 0
        BY <2>2, FormatAssumption
      <4>. QED BY <1>0, <1>2, <1>5, <4>1, MultiplesChain
    <3>2. v = s
      <4>1. s = Grain * Scaled(s) /\ Scaled(s) = k
        BY <1>0, <3>1, ScaledIsExact DEF k, Scaled
      <4>. QED BY <4>1
    <3>3. e \in Exponents /\ e <= d
      BY <1>4, <1>5, <3>2, StepIsLeast
    <3>. HIDE DEF v, e
    <3>4. d % e = 0 /\ e \in Nat \ {0}
      BY <3>3, FormatAssumption, TokenAssumption
    <3>. QED BY <1>0, <1>2, <1>5, <3>2, <3>3, <3>4, MultiplesChain
  <2>. QED BY <1>0, <1>2, <2>1, <2>2
<1>7. Narrowed(v) = v
  BY <1>4, <1>6, NarrowedToSteps
<1>8. k * Grain = v
  BY <1>0
<1>. QED BY <1>7, <1>8 DEF Unscaled, k

-----------------------------------------------------------------------------
(* The invariant. *)

Tokens == [signed : {TRUE}, version : Versions, hashes : [HashClaims -> Hashes],
           coefficient : 0 .. MaxScaled, signature : [key : SigningKeys, digest : {MessageHash(claims.hashes, claims.score)}]]

\* The signature covers the claims; the other fields do until one changes.
TokenOf ==
    /\ claims \in MatchClaims
    /\ altered \in BOOLEAN
    /\ token # NoToken =>
        /\ token \in Tokens
        /\ Representable(claims.score)
        /\ ~altered =>
            /\ token.version = TOKEN_VERSION
            /\ token.hashes = claims.hashes
            /\ token.coefficient = Scaled(claims.score)

\* An accepted token is of this version, and its claims have the signed digest.
VerdictOf ==
    verdict.ok =>
        /\ token # NoToken
        /\ token.version = TOKEN_VERSION
        /\ verdict.claims.hashes = token.hashes
        /\ verdict.claims.score = Unscaled(token.coefficient)
        /\ Representable(verdict.claims.score)
        /\ MessageHash(verdict.claims.hashes, verdict.claims.score)
                = MessageHash(claims.hashes, claims.score)

TInv == TokenOf /\ VerdictOf

LEMMA TokenInit == Init => TInv
<1>. SUFFICES ASSUME Init PROVE TInv
  OBVIOUS
<1>1. TokenOf
  BY DEF Init, TokenOf
<1>2. verdict.ok = FALSE
  BY DEF Init, Pending
<1>. QED BY <1>1, <1>2 DEF TInv, VerdictOf

LEMMA ScoreIsNat ==
    ASSUME claims \in MatchClaims, Representable(claims.score)
    PROVE  claims.score \in Nat
BY FloatsAreNat DEF MatchClaims, Representable, Scores

\* What a token that verify accepts shows.
LEMMA AcceptedVerdict ==
    ASSUME NEW t, NEW key, Verdict(t, key).ok
    PROVE  /\ t.version = TOKEN_VERSION
           /\ Verdict(t, key).claims.hashes = t.hashes
           /\ Verdict(t, key).claims.score = Unscaled(t.coefficient)
           /\ Representable(Verdict(t, key).claims.score)
           /\ t.signature.digest = MessageHash(Verdict(t, key).claims.hashes, Verdict(t, key).claims.score)
<1>. DEFINE score == Unscaled(t.coefficient)
<1>1. /\ t.version = TOKEN_VERSION
      /\ Representable(score)
      /\ t.signature = [key |-> key, digest |-> MessageHash(t.hashes, score)]
      /\ Verdict(t, key) = [ok |-> TRUE, claims |-> [hashes |-> t.hashes, score |-> score]]
  BY DEF Verdict, Error
<1>2. Verdict(t, key).claims.score = Unscaled(t.coefficient)
  BY <1>1
<1>. HIDE DEF score
<1>. QED BY <1>1, <1>2

LEMMA TokenStep == TInv /\ [Next]_vars => TInv'
<1>. SUFFICES ASSUME TInv, [Next]_vars PROVE TInv'
  OBVIOUS
<1>1. ASSUME NEW key \in SigningKeys, Sign(key) PROVE TInv'
  <2>1. claims.score \in Nat /\ Scaled(claims.score) \in 0 .. MaxScaled
    BY <1>1, ScoreIsNat, ScaledIsNat, TokenAssumption DEF TInv, TokenOf, Sign, Scaled
  <2>2. /\ token'.hashes = claims.hashes /\ token'.coefficient = Scaled(claims.score)
        /\ token'.signed = TRUE
        /\ token' \in Tokens'
    BY <1>1, <2>1 DEF TInv, TokenOf, Sign, Tokens, MatchClaims, Versions, TOKEN_VERSION
  <2>3. token' # NoToken
    BY <2>2 DEF NoToken
  <2>4. TokenOf'
    BY <1>1, <2>2 DEF TInv, TokenOf, Sign
  <2>5. VerdictOf'
    BY <1>1 DEF TInv, VerdictOf, Sign
  <2>. QED BY <2>4, <2>5 DEF TInv
<1>2. ASSUME RefuseToSign PROVE TInv'
  BY <1>2 DEF TInv, TokenOf, VerdictOf, RefuseToSign, Error
<1>3. ASSUME Alter PROVE TInv'
  <2>0. token \in Tokens /\ UNCHANGED <<claims, verdict>> /\ altered' = TRUE /\ ~verdict.ok
    BY <1>3 DEF TInv, TokenOf, Alter, Pending
  <2>1. token' \in Tokens
    <3>1. CASE \E v \in Versions : token' = [token EXCEPT !.version = v]
      BY <2>0, <3>1 DEF Tokens
    <3>2. CASE \E c \in HashClaims : \E h \in Hashes : token' = [token EXCEPT !.hashes[c] = h]
      <4>1. PICK c \in HashClaims, h \in Hashes : token' = [token EXCEPT !.hashes[c] = h]
        BY <3>2
      <4>2. [token.hashes EXCEPT ![c] = h] \in [HashClaims -> Hashes]
        BY <2>0 DEF Tokens
      <4>3. token' = [token EXCEPT !.hashes = [token.hashes EXCEPT ![c] = h]]
        BY <2>0, <4>1 DEF Tokens
      <4>. QED BY <2>0, <4>2, <4>3 DEF Tokens
    <3>3. CASE \E s \in 0 .. MaxScaled : token' = [token EXCEPT !.coefficient = s]
      <4>1. PICK s \in 0 .. MaxScaled : token' = [token EXCEPT !.coefficient = s]
        BY <3>3
      <4>. QED BY <2>0, <4>1 DEF Tokens
    <3>. QED BY <1>3, <3>1, <3>2, <3>3 DEF Alter
  <2>2. Tokens' = Tokens
    BY <2>0 DEF Tokens
  <2>3. TokenOf'
    BY <1>3, <2>0, <2>1, <2>2 DEF TInv, TokenOf, Alter
  <2>. QED BY <2>0, <2>3 DEF TInv, VerdictOf
<1>4. ASSUME NEW key \in SigningKeys, Verify(key) PROVE TInv'
  <2>1. TokenOf'
    BY <1>4 DEF TInv, TokenOf, Verify, Tokens
  <2>2. token.signature.digest = MessageHash(claims.hashes, claims.score)
    BY <1>4 DEF TInv, TokenOf, Verify, Tokens
  <2>3. VerdictOf'
    <3>. SUFFICES ASSUME Verdict(token, key).ok PROVE VerdictOf'
      BY <1>4 DEF VerdictOf, Verify
    <3>. QED BY <1>4, <2>2, AcceptedVerdict DEF VerdictOf, Verify
  <2>. QED BY <2>1, <2>3 DEF TInv
<1>5. CASE Done \/ UNCHANGED vars
  BY <1>5 DEF TInv, TokenOf, VerdictOf, Done, vars, Tokens
<1>. QED BY <1>1, <1>2, <1>3, <1>4, <1>5 DEF Next

LEMMA TokenAlways == Spec => []TInv
BY TokenInit, TokenStep, PTL DEF Spec

-----------------------------------------------------------------------------
(* The theorems. *)

\* The digest fixes the hashes and the fixed-point form of the score.
LEMMA VerifiedInv == TInv => VerifiedClaimsWereSigned
<1>. SUFFICES ASSUME TInv, verdict.ok
              PROVE  /\ verdict.claims.hashes = claims.hashes
                     /\ Scaled(verdict.claims.score) = Scaled(claims.score)
                     /\ token.version = TOKEN_VERSION
  BY DEF VerifiedClaimsWereSigned
<1>1. /\ token.version = TOKEN_VERSION /\ verdict.claims.hashes = token.hashes
      /\ MessageHash(token.hashes, verdict.claims.score) = MessageHash(claims.hashes, claims.score)
      /\ token.hashes \in [HashClaims -> Hashes] /\ claims.hashes \in [HashClaims -> Hashes]
  BY DEF TInv, TokenOf, VerdictOf, Tokens, MatchClaims
<1>2. /\ \A c \in HashClaims : token.hashes[c] = claims.hashes[c]
      /\ Scaled(verdict.claims.score) = Scaled(claims.score)
  BY <1>1 DEF MessageHash, HashClaims
<1>. QED BY <1>1, <1>2

\* What verify returns is what was signed, whatever field of the token changed
\* on its way: the digest, which leaves the version out, suffices together with
\* the check of the version.
THEOREM VerifiedMeansSigned == Spec => []VerifiedClaimsWereSigned
BY VerifiedInv, TokenAlways, PTL

\* Comparing fixed-point forms accepts every score that meets the requirement,
\* and on multiples of the grain no other, in every float format.
THEOREM ComparisonsSurvive == Spec => []ComparisonSurvives
<1>1. TInv => ComparisonSurvives
  <2>. SUFFICES ASSUME TInv, token # NoToken, ~altered, NEW required \in Comparable
                PROVE  /\ claims.score >= required => token.coefficient >= Scaled(required)
                       /\ required % Grain = 0 /\ claims.score % Grain = 0 =>
                              (token.coefficient >= Scaled(required) => claims.score >= required)
    BY DEF ComparisonSurvives
  <2>1. required \in Nat
    BY FloatsAreNat DEF Comparable
  <2>2. claims.score \in Nat /\ token.coefficient = Scaled(claims.score)
    BY ScoreIsNat DEF TInv, TokenOf
  <2>3. Scaled(required) \in Nat /\ Scaled(claims.score) \in Nat
    BY <2>1, <2>2, ScaledIsNat
  <2>4. claims.score >= required => token.coefficient >= Scaled(required)
    BY <2>1, <2>2, <2>3, ScaledIsMonotone
  <2>5. ASSUME required % Grain = 0, claims.score % Grain = 0, token.coefficient >= Scaled(required)
        PROVE  claims.score >= required
    <3>1. required = Grain * Scaled(required) /\ claims.score = Grain * Scaled(claims.score)
      <4>1. Rounded(required) <= MaxScaled /\ Rounded(claims.score) <= MaxScaled
        BY DEF Comparable, TInv, TokenOf, Representable
      <4>. QED BY <2>1, <2>2, <2>5, <4>1, ScaledIsExact
    <3>. QED BY <2>2, <2>3, <2>5, <3>1, TokenAssumption
  <2>. QED BY <2>4, <2>5
<1>. QED BY <1>1, TokenAlways, PTL

\* The score that verify returns is the fixed-point form of the signed one, read
\* back without loss.
LEMMA VerifiedScore ==
    ASSUME TInv, verdict.ok
    PROVE  /\ claims.score \in Nat
           /\ verdict.claims.score = Grain * Scaled(claims.score)
           /\ Scaled(claims.score) = Rounded(claims.score)
           /\ verdict.claims.hashes = claims.hashes
<1>. DEFINE read == verdict.claims.score
<1>1. /\ token.coefficient \in 0 .. MaxScaled /\ read = Unscaled(token.coefficient)
      /\ Representable(read) /\ Representable(claims.score)
  BY DEF TInv, TokenOf, VerdictOf, Tokens
<1>2. /\ Scaled(read) = Scaled(claims.score) /\ verdict.claims.hashes = claims.hashes
  BY VerifiedInv DEF VerifiedClaimsWereSigned
<1>3. read \in Nat /\ read % Grain = 0
  BY <1>1, UnscaledOnGrain
<1>. HIDE DEF read
<1>4. read = Grain * Scaled(read)
  BY <1>1, <1>3, ScaledIsExact DEF Representable
<1>5. claims.score \in Nat /\ Scaled(claims.score) = Rounded(claims.score)
  BY <1>1, ScoreIsNat DEF TInv, TokenOf, Representable, Scaled
<1>. QED BY <1>2, <1>4, <1>5 DEF read

\* The verified score differs from the signed one by half a fixed-point unit at
\* most, and not at all where floats are no finer, also when the coefficient in
\* the token was replaced by another that still verifies.
THEOREM ScoresSurvive == Spec => []ScoreSurvives
<1>1. TInv => ScoreSurvives
  <2>. SUFFICES ASSUME TInv, verdict.ok
                PROVE  /\ 2 * (verdict.claims.score - claims.score) <= Grain
                       /\ 2 * (claims.score - verdict.claims.score) <= Grain
                       /\ claims.score % Grain = 0 => verdict.claims.score = claims.score
    BY DEF ScoreSurvives
  <2>. DEFINE s == claims.score
              read == Grain * Rounded(s)
  <2>1. s \in Nat /\ verdict.claims.score = read /\ Scaled(s) = Rounded(s)
    BY VerifiedScore
  <2>2. 2 * read <= 2 * s + Grain /\ 2 * s + Grain < 2 * read + 2 * Grain
    BY <2>1, RoundedIsNear
  <2>3. read \in Nat /\ Grain \in Nat
    BY <2>1, ScaledIsNat, TokenAssumption
  <2>4. s % Grain = 0 => s = read
    BY <2>1, ScaledIsExact DEF TInv, TokenOf, VerdictOf, Representable
  <2>. HIDE DEF s, read
  <2>5. 2 * (read - s) <= Grain /\ 2 * (s - read) <= Grain
    BY <2>1, <2>2, <2>3
  <2>. QED BY <2>1, <2>4, <2>5 DEF s
<1>. QED BY <1>1, TokenAlways, PTL

\* The verified score never drops below a threshold on the grain that the match
\* met, so the end-to-end program turns none away.
THEOREM MatchesAccepted == Spec => []MatchesAreAccepted
<1>1. TInv => MatchesAreAccepted
  <2>. SUFFICES ASSUME TInv, verdict.ok, NEW threshold \in Floats,
                       threshold % Grain = 0, claims.score >= threshold
                PROVE  HarnessAccepts(verdict.claims, threshold, claims.hashes)
    BY DEF MatchesAreAccepted
  <2>. DEFINE s == claims.score
  <2>1. /\ s \in Nat /\ verdict.claims.score = Grain * Scaled(s) /\ Scaled(s) = Rounded(s)
        /\ verdict.claims.hashes = claims.hashes
    BY VerifiedScore
  <2>2. threshold \in Nat /\ threshold <= s
    BY <2>1, FloatsAreNat
  <2>3. Rounded(s) <= MaxScaled
    BY DEF TInv, TokenOf, VerdictOf, Representable
  <2>. HIDE DEF s
  <2>4. Rounded(threshold) <= Rounded(s)
    BY <2>1, <2>2, RoundedIsMonotone
  <2>5. Rounded(threshold) <= MaxScaled /\ Rounded(threshold) \in Nat /\ Rounded(s) \in Nat
    BY <2>1, <2>2, <2>3, <2>4, ScaledIsNat, TokenAssumption
  <2>6. threshold = Grain * Rounded(threshold)
    BY <2>2, <2>5, ScaledIsExact DEF Scaled
  <2>7. Rounded(threshold) * Grain <= Rounded(s) * Grain
    BY <2>4, <2>5, ProductIsMonotone, TokenAssumption
  <2>8. verdict.claims.score >= threshold
    BY <2>1, <2>5, <2>6, <2>7, TokenAssumption
  <2>. QED BY <2>1, <2>8 DEF HarnessAccepts
<1>. QED BY <1>1, TokenAlways, PTL

\* Every token the enclave issues verifies under the key that signed it: its
\* coefficient is read back exactly, and scales to itself again.
THEOREM IssuedTokensVerifyAlways == Spec => []IssuedTokensVerify
<1>1. TInv => IssuedTokensVerify
  <2>. SUFFICES ASSUME TInv, token # NoToken, ~altered
                PROVE  Verdict(token, token.signature.key).ok
    BY DEF IssuedTokensVerify
  <2>. DEFINE s == claims.score
              read == Grain * Rounded(s)
  <2>1. /\ token.version = TOKEN_VERSION /\ token.hashes = claims.hashes
        /\ token.coefficient = Scaled(s)
        /\ token.signature = [key |-> token.signature.key, digest |-> MessageHash(claims.hashes, s)]
        /\ claims \in MatchClaims /\ Representable(s)
    BY DEF TInv, TokenOf, Tokens
  <2>2. s \in Nat /\ s \in Floats /\ Rounded(s) <= MaxScaled /\ Scaled(s) = Rounded(s)
    BY <2>1, ScoreIsNat DEF MatchClaims, Scores, Representable, Scaled
  <2>3. Unscaled(token.coefficient) = read
    BY <2>1, <2>2, ReadBackExactly
  <2>4. read \in Nat /\ Rounded(read) = Rounded(s)
    BY <2>2, ScaledIsNat, RoundedOnGrain, TokenAssumption
  <2>. HIDE DEF read
  <2>5. Scaled(read) = Scaled(s)
    BY <2>4 DEF Scaled
  <2>6. Representable(read)
    BY <2>2, <2>4, TokenAssumption DEF Representable
  <2>7. MessageHash(token.hashes, read) = MessageHash(claims.hashes, s)
    BY <2>1, <2>5 DEF MessageHash
  <2>. QED BY <2>1, <2>3, <2>6, <2>7 DEF Verdict
<1>. QED BY <1>1, TokenAlways, PTL
===============================================================================
