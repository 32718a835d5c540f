----------------------------- MODULE TxPipeline -----------------------------
(***************************************************************************)
(* How transactions reach Postgres.  The chain commits them in order; the  *)
(* WebSocket brings them to LATEST_TXS while it is open, and a block that  *)
(* was fetched by height brings their hashes to DOWNTIME_TXS (BlockPipeline *)
(* and its TxsFollow say when); one transaction may come both ways.  The   *)
(* indexer may crash and start again at any point.                         *)
(***************************************************************************)
EXTENDS TxConsumers

CONSTANTS
    MaxCrashes,  \* crashes in a behaviour
    Refetched    \* transactions whose block may be fetched by height, a bound

ASSUME CrashesAssumption == MaxCrashes \in Nat
ASSUME RefetchedAssumption == Refetched \subseteq Tx

VARIABLES
    committed,  \* transactions the chain has committed
    up,         \* the indexer process is running
    crashes     \* crashes so far

worldVars == <<committed, up, crashes>>
vars == <<txStoreVars, rewardVars, jobVars, worldVars>>

TypeOK ==
    /\ TxStoreTypeOK /\ RewardTypeOK /\ JobTypeOK
    /\ committed \in 0 .. MaxTx
    /\ up \in BOOLEAN
    /\ crashes \in Nat

Init ==
    /\ TxStoreInit /\ RewardInit /\ JobInit
    /\ committed = 0
    /\ up = TRUE
    /\ crashes = 0

-----------------------------------------------------------------------------
\* The chain commits a transaction; an open WebSocket tells of it.
CommitTx ==
    /\ committed < MaxTx
    /\ committed' = committed + 1
    /\ \/ up /\ Bring("LATEST_TXS", committed + 1, "ws")
       \/ UNCHANGED <<queued, seen>>
    /\ UNCHANGED <<tables, faults, rewardVars, jobVars, up, crashes>>

\* Its block is fetched by height.
FetchByHeight ==
    /\ up
    /\ \E t \in Refetched :
          t <= committed /\ "downtime" \notin seen[t] /\ Bring("DOWNTIME_TXS", t, "downtime")
    /\ UNCHANGED <<tables, faults, rewardVars, jobVars, worldVars>>

Crash ==
    /\ up
    /\ crashes < MaxCrashes
    /\ crashes' = crashes + 1
    /\ up' = FALSE
    /\ Requeue
    /\ task' = [k \in Task |-> Resting]
    /\ UNCHANGED <<tables, seen, faults, rewards, rewardsHash, overlapped, early,
                   committed>>

Boot ==
    /\ ~up
    /\ up' = TRUE
    /\ UNCHANGED <<txStoreVars, rewardVars, jobVars, committed, crashes>>

Consume ==
    /\ up
    /\ \E w \in TxWorker, t \in Tx : Deliver(w, t)
    /\ UNCHANGED worldVars

Handle(w) == TxStep(w) /\ UNCHANGED worldVars
HandleFails(w) == TxFails(w) /\ UNCHANGED worldVars

Reward(k) == RewardStep(k) /\ UNCHANGED <<queued, tables, seen, jobVars, worldVars>>
RewardFault(k) == RewardFails(k) /\ UNCHANGED <<queued, tables, seen, jobVars, worldVars>>
Expire == ExpireRewards /\ UNCHANGED <<queued, tables, seen, jobVars, worldVars>>

Next ==
    \/ CommitTx \/ FetchByHeight \/ Crash \/ Boot \/ Consume
    \/ \E w \in TxWorker : Handle(w) \/ HandleFails(w)
    \/ \E k \in Task : Reward(k) \/ RewardFault(k)
    \/ Expire

Spec == Init /\ [][Next]_vars

\* As in BlockPipeline: the broker delivers, replies come, the container is
\* started again.
Fairness ==
    /\ WF_vars(Boot) /\ WF_vars(Consume)
    /\ \A w \in TxWorker : WF_vars(Handle(w))
    /\ \A k \in Task : WF_vars(Reward(k))

FairSpec == Spec /\ Fairness

-----------------------------------------------------------------------------
(* Properties *)

\* A transaction whose hash came through DOWNTIME_TXS is never given up,
\* whatever fails or crashes; one that only the WebSocket told of is given up
\* only after a request for it failed.
TxAccounted ==
    \A t \in Tx :
        \/ seen[t] = {}
        \/ Stored(t) \/ Pending(t)
        \/ seen[t] = {"ws"} /\ failed[t] > 0

\* However handlers of one address overlap and whatever is delivered twice, no
\* user is credited with more transactions than the table holds for it.
NeverOverCounted == \A a \in Address : users[a] <= Roles(a)

\* A vote the WebSocket told of leaves a row for its voter, also when a crash
\* came between the transaction's row and the vote's, unless a request failed.
VotesFollow ==
    \A t \in Tx :
        Kind[t] = "vote" /\ "ws" \in seen[t] /\ ~Pending(t) /\ failed[t] = 0
            => votes[Sender[t]] # 0

\* The log of an execute the WebSocket told of is missing only for a failed
\* request or because the execute overtook the row of its contract.
LogLossCauses ==
    \A t \in Tx :
        Kind[t] = "execute" /\ "ws" \in seen[t] /\ ~Pending(t)
            => t \in contractLogs \/ failed[t] > 0 \/ t \in early

\* What came through DOWNTIME_TXS is stored in the end.
DowntimeStored == \A t \in Tx : "downtime" \in seen[t] ~> Stored(t)

\* Redis never adds a withdrawal to itself, unless it came both ways: then the
\* fraction of the second makes the later one newer.
NeverClaimedTwice ==
    \A a \in Address :
        LET f == rewardsHash[a] IN
        f.amount # 0 /\ f.amount = f.added => seen[f.amount] = {"ws", "downtime"}

\* The tasks of a are over and every transaction of it has been handled.
Calm(a) == \A t \in Tx : Sender[t] = a => ~Pending(t) /\ Busy(a) = {}

\* With no failure, no crash and no two tasks of an address at once, the row
\* carries the time of its newest withdrawal, and Redis, unless expired, the
\* same time.
RewardCurrent ==
    \A a \in Address :
        /\ Calm(a) /\ a \notin overlapped /\ crashes = 0 /\ faultsLeft = MaxFaults
        => /\ \A t \in Tx : Sender[t] = a =>
                \A way \in seen[t] :
                    PaysReward(t, way) => rewards[a].timeStamp >= TimeOf(t, way)
           /\ rewardsHash[a] = NoField \/ rewardsHash[a].timeStamp = rewards[a].timeStamp
=============================================================================
