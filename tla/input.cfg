\* Two clients, one of which leaves, two keys of which one is bound to the other, two timers.
CONSTANTS
    Sessions = {a, b}
    Leaving = {a}
    shift = shift
    lshift = lshift
    Keys <- MCKeys
    Binding <- MCBinding
    Ids = {i1, i2}
    Nil = Nil
SPECIFICATION Spec
INVARIANTS WhatIsHeldIsKnown OneRepeat
PROPERTY LeftIsReleased
CHECK_DEADLOCK FALSE
