\* Two callers of one FaceVerifierClient, and no enclave ever exits or is slow.
SPECIFICATION Spec
CONSTANTS
    Clients = {c1, c2}
    Jars <- MCJars
    Jar <- OneJar
    Pods = {p1, p2}
    MaxBoots = 1
    MaxDisturbances = 0
    NoPod = NoPod
INVARIANTS
    MatchesReachTheAssigned
