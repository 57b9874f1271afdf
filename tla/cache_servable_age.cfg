SPECIFICATION Spec
CONSTANTS
    MaxCachedAge = 10
    MaxServableAge = 60
    MaxAttestTime = 1
INVARIANTS
    ServedWithinServableAge
