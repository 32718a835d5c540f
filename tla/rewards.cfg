CONSTANTS
    alice = alice
    module = module
    l1 = l1
    m1 = m1
    d1 = d1
    k1 = k1
    k2 = k2
    NoAddress = none
    Address = {alice, module}
    MaxTx = 2
    MaxFaults = 1
    MaxCrashes = 1
    Refetched = {2}
    Kind <- MCRewardKind
    Sender <- MCAlice
    Receiver <- MCModule
    FirstRecipient <- MCNobody
    Second <- MCOneSecond
    Task = {k1, k2}
    LatestTxWorker = {l1}
    MissedTxWorker = {}
    DowntimeTxWorker = {d1}
SPECIFICATION Spec
INVARIANTS NeverClaimedTwice RewardCurrent
CHECK_DEADLOCK FALSE
