\* All pairs of digests of three bytes of two binary digits.
SPECIFICATION Spec
CONSTANTS
    Radix = 2
    DigestLength = 3
INVARIANTS
    MismatchCharacterised
CHECK_DEADLOCK FALSE
