\* Every kind of plaintext at one request, a match at the other.
SPECIFICATION FairSpec
CONSTANTS
    Requests = {"r1", "r2"}
    Offers <- MCOffers
    MaxRenewals = 1
    Images <- MCImages
    Unusable <- MCUnusable
    HashesFiles <- MCHashesFiles
    Commits <- MCCommits
    NoCommitment = NoCommitment
    Similarity <- MCSimilarity
    NoScore = NoScore
    NaN = NaN
    Thresholds <- MCThresholds
    Garbage = Garbage
    DocumentFits = TRUE
INVARIANTS
    TypeOK
    StatementsAreEarned
    HeldMatchesAreSigned
    RejectionsAreTrue
    HostSeesOnlyFaults
    StatementsCarryAHandledDocument
PROPERTIES
    CallsAreAnswered
