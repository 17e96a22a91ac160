\* Two sessions, overlapping or one after the other: all properties.
CONSTANTS
    Sessions = {s1, s2}
    Kinds = {"video"}
    Nil = Nil
SPECIFICATION Spec
INVARIANTS ServedSessionsAreAlive BroadcastOutlivesSessions ThreadsEndBeforeTheSession NotStoppedWhileStarting
PROPERTIES ImplementsLifecycle StoppedSessionsAreFreed ToldSessionsEnd
CHECK_DEADLOCK FALSE
