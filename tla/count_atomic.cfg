CONSTANTS
    l1 = l1
    l2 = l2
    d1 = d1
    e1 = e1
    v1 = v1
    v2 = v2
    MaxHeight = 4
    MaxFaults = 0
    MaxTicks = 0
    MaxCrashes = 0
    LatestWorker = {l1, l2}
    DowntimeWorker = {d1}
    ErrorWorker = {e1}
    Tick = tick
    CatchupDisabled = TRUE
    Validator = {v1, v2}
    Proposer <- MCProposer
SPECIFICATION Spec
PROPERTY AtomicIncrement
CHECK_DEADLOCK FALSE
