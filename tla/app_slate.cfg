\* process.cpp:62: an application starts from a clean slate.
CONSTANTS
    Desktop = Desktop
    game = game
    tool = tool
    Nil = Nil
    Apps <- MCApps
    Placebos <- MCPlacebos
    Preps <- MCPreps
    MaxLaunches = 2
    MaxEffect = 1
    Requests = {"launch", "refresh"}
SPECIFICATION Spec
INVARIANT StartsFromCleanSlate
CHECK_DEADLOCK FALSE
