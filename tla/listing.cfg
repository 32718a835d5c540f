CONSTANTS
    w1 = w1
    w2 = w2
    MaxHeight = 4
    Handler = {w1}
    DowntimeHandler = {w1}
    MaxFaults = 1
    MaxRestarts = 1
    MaxRepeats = 0
    Limit = 2
SPECIFICATION Spec
INVARIANTS TypeOK WalkOnce WalkComplete PrevReturns ErrorCauses LastFits 
