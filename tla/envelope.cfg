\* Two byte lengths wrap at nine; encodings of 1 to 12 bytes; every envelope.
SPECIFICATION OpenSpec
CONSTANTS
    Base = 3
    EnvelopeLen = 7
    Results <- MCResults
INVARIANTS
    ResultsSurvive
    SameSize
    NothingInThePadding
