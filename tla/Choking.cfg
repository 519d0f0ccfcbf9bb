\* Three peers for one slot; the second lock may end in any way.
SPECIFICATION Spec
CONSTANTS
    Peer = {p1, p2, p3}
    NoPeer = NoPeer
    Slots = 1
    Relock <- AnyOutcome
INVARIANT Consistent
PROPERTIES
    StuckForGood
    UnchokedOrFrozen
CHECK_DEADLOCK FALSE
