CONSTANTS
    alice = alice
    module = module
    l1 = l1
    m1 = m1
    d1 = d1
    k1 = k1
    k2 = k2
    NoAddress = none
    Address = {alice}
    MaxTx = 3
    MaxFaults = 1
    MaxCrashes = 1
    Refetched = {3}
    Kind <- MCContractKind
    Sender <- MCAlice
    Receiver <- MCNobody
    FirstRecipient <- MCNobody
    Second <- MCOneSecond
    Task = {}
    LatestTxWorker = {l1}
    MissedTxWorker = {m1}
    DowntimeTxWorker = {d1}
SPECIFICATION FairSpec
INVARIANTS TypeOK TxAccounted NeverOverCounted VotesFollow LogLossCauses
PROPERTY DowntimeStored
CHECK_DEADLOCK FALSE
