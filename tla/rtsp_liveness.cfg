\* One slot, two launches: what the threads must eventually do.
CONSTANTS
    Channels = 1
    Launches = {l1, l2}
    Nil = Nil
SPECIFICATION Spec
PROPERTIES StoppedSessionsAreReaped ThreadsGoOn
