\* Two slots, three launches: every safety property of the slot accounting.
CONSTANTS
    Channels = 2
    Launches = {l1, l2, l3}
    Nil = Nil
SYMMETRY LaunchSymmetry
SPECIFICATION Spec
INVARIANTS SlotsHoldSessions JoinedSlotIsStable LaunchHasOneOwner SlotBooks
PROPERTY ImplementsLifecycle
