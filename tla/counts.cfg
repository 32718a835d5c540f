CONSTANTS
    w1 = w1
    w2 = w2
    MaxHeight = 3
    Handler = {w1, w2}
    DowntimeHandler = {w2}
    MaxFaults = 0
    MaxRestarts = 1
    MaxRepeats = 1
    Limit = 2
SPECIFICATION Spec
INVARIANT CountExplained
