\* Two workers and three tasks, pushed again and again, over three points of time.
CONSTANTS
    Tasks = {t1, t2, t3}
    Workers = {w1, w2}
    Delays = {1, 2}
    MaxTime = 2
    None = None
SPECIFICATION Spec
INVARIANT SleepIsSafe
PROPERTIES KeepsPromise IsPrompt
CHECK_DEADLOCK FALSE
