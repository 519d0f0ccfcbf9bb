SPECIFICATION Spec
CONSTANTS
    Fields <- MCFields
    MaxFields = 4
    DigestLength = 2
    IntMax = 2
    LongMax = 99
INVARIANTS
    InfoHashFaithful
    GeometryRight
CHECK_DEADLOCK FALSE
