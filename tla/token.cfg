\* Floats of three significant bits, half of their range finer than the grain.
SPECIFICATION Spec
CONSTANTS
    Hashes = {h1, h2}
    SigningKeys = {k1, k2}
    Significand = 8
    Exponents = {1, 2, 4, 8, 16, 32, 64}
    Grain = 4
    MaxScaled = 63
    Negative = Negative
    NotFinite = NotFinite
INVARIANTS
    IssuedTokensVerify
    VerifiedClaimsWereSigned
    ScoreSurvives
    ComparisonSurvives
    MatchesAreAccepted
