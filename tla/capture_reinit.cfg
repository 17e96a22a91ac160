\* video.cpp:677: the other shared_ptr's of the display are destroyed.
CONSTANTS
    CaptureSessions = {s1, s2}
    Count = 2
    MaxReinits = 1
    NoImage = NoImage
    Old = Old
SPECIFICATION CaptureSpec
INVARIANT OldDisplayIsDestroyed
CHECK_DEADLOCK FALSE
