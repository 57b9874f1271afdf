\* What a test's comment says of negative coefficients.
SPECIFICATION Spec
CONSTANTS
    Requests = {"r1"}
    Offers <- MCOffers
    MaxRenewals = 0
    Images <- MCImages
    Unusable <- MCUnusable
    HashesFiles <- MCHashesFiles
    Commits <- MCCommits
    NoCommitment = NoCommitment
    Similarity <- MCSimilarity
    NoScore = NoScore
    NaN = NaN
    Thresholds <- MCThresholds
    Garbage = Garbage
    DocumentFits = TRUE
INVARIANTS
    NegativeCoefficientUnreachable
