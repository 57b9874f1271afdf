\* Two requests that overlap the signals and the drain.
SPECIFICATION FairSpec
CONSTANT Requests = {r1, r2}
INVARIANTS
    RejectedIsNotForwarded
PROPERTIES
    DrainLosesNobody
    DrainEnds
