\* Two callers of one FaceVerifierClient, two pods of two boots, any two disturbances.
SPECIFICATION Spec
CONSTANTS
    Clients = {c1, c2}
    Jars <- MCJars
    Jar <- OneJar
    Pods = {p1, p2}
    MaxBoots = 2
    MaxDisturbances = 2
    NoPod = NoPod
SYMMETRY Symmetric
INVARIANTS
    ReassignsAreDeserved
