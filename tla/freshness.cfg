\* The cache with a client beside it.  Bounds below, at and above what one refresh
\* cycle needs (6), and what covers an outage too (9).
SPECIFICATION FairFreshnessSpec
CONSTANTS
    MaxCachedAge = 2
    MaxServableAge = 5
    MaxAttestTime = 1
    Bounds = {5, 6, 9}
    MaxTransit = 1
INVARIANTS
    TypeOK
    ServedDocumentsBounded
    AgeUnderratedByOneAttest
    GivesUpOnlyAfterOutage
    GenerousClientsAreServed
    RefusalsFollowFailures
PROPERTIES
    NeverReplacedByOlder
    ImplementsServedDocument
    OutageEndsTheProcess
    DocumentsKeepBeingRenewed
    RefusalsPass
