\* Two images, so that a list can name PCR0 twice; bounds of 0 to 2 milliseconds.
SPECIFICATION Spec
CONSTANTS
    Images = {imgA, imgB}
    Zero = Zero
    WrongSize = WrongSize
    Indices <- MCIndices
    Policies <- MCPolicies
    MaxMillis = 2
    DefaultAge = 1
    PerMilli = 2
INVARIANTS
    AcceptedInFull
    DebugNeverAccepted
    RefusalsAreDue
CHECK_DEADLOCK FALSE
