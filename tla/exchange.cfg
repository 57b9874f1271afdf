\* One client, two pods of three boots, any three disturbances.
SPECIFICATION FairSpec
CONSTANTS
    Clients = {c1}
    Jars <- MCJars
    Jar <- OneJar
    Pods = {p1, p2}
    MaxBoots = 3
    MaxDisturbances = 3
    NoPod = NoPod
INVARIANTS
    TypeOK
    OpenedByTheAttestedBoot
PROPERTIES
    ImplementsSealedOperation
    OperationsEnd
