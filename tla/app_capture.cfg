\* Three launches, or two sessions that capture with two images; the display changes once.
CONSTANTS
    Desktop = Desktop
    game = game
    tool = tool
    Nil = Nil
    Apps <- MCApps
    Placebos <- MCPlacebos
    Preps <- MCPreps
    MaxLaunches = 3
    MaxEffect = 1
    CaptureSessions = {s1, s2}
    Count = 2
    MaxReinits = 1
    NoImage = NoImage
    Old = Old
    Requests = {"launch", "cancel", "close", "refresh", "exit"}
SPECIFICATION PartSpec
INVARIANTS UndoMatchesDo RunningAppIsPrepared NothingIsLeftBehind CaptureServesItsSessions DisplayIsUsedAlone
PROPERTIES CallsReturn WaitsEnd
CHECK_DEADLOCK FALSE
