\* rtsp.cpp:715: all stopped sessions are cleaned up.
CONSTANTS
    Channels = 2
    Launches = {l1, l2}
    Nil = Nil
SPECIFICATION Spec
PROPERTY AllStoppedSessionsAreReaped
