\* Two workers and four matches, each of which may take twice as long as the probe's deadline.
SPECIFICATION FairSpec
CONSTANTS
    Workers = {w1, w2}
    Requests = {m1, m2, m3, m4}
    MatchTime = 4
    ProbeDeadline = 2
    NoTask = NoTask
INVARIANTS
    ControlWaitsOnlyForMatches
PROPERTIES
    PodsComeBack
