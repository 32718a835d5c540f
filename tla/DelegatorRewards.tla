-------------------------- MODULE DelegatorRewards --------------------------
(***************************************************************************)
(* processDelegatorRewards: what a delegator has withdrawn, kept in the    *)
(* Rewards table and in the Redis hash REWARDS.  The transaction handlers  *)
(* start it and do not wait for it, so that its tasks interleave with each *)
(* other and outlive the message they were started for.                    *)
(*                                                                         *)
(* An amount is named by the transaction it was withdrawn in, 0 being the  *)
(* amount zero; Redis holds the sum of two.                                *)
(***************************************************************************)
EXTENDS TxStore

CONSTANTS
    Task,    \* tasks under way at once, a bound
    Second   \* Second[t]: the block time of t, in seconds

ASSUME RewardAssumption == IsFiniteSet(Task) /\ Second \in [Tx -> Nat \ {0}]

VARIABLES
    task,         \* task[k]: how far task k has come
    rewards,      \* rewards[a]: its row in Rewards (timeStamp 0: none)
    rewardsHash,  \* rewardsHash[a]: its field in Redis (timeStamp 0: none)
    overlapped    \* history: addresses that had two tasks at once

rewardVars == <<task, rewards, rewardsHash, overlapped>>

Time == Nat
Amount == 0 .. MaxTx
NoRow == [timeStamp |-> 0, amount |-> 0]
NoField == [timeStamp |-> 0, amount |-> 0, added |-> 0]
Resting == [stage |-> "idle", tx |-> 1, timeStamp |-> 0, amount |-> 0, before |-> 0]

RewardTypeOK ==
    /\ task \in [Task -> [stage : {"idle", "find", "cache", "update", "create", "fill"},
                          tx : Tx, timeStamp : Time, amount : Amount, before : Amount]]
    /\ rewards \in [Address -> [timeStamp : Time, amount : Amount]]
    /\ rewardsHash \in [Address -> [timeStamp : Time, amount : Amount, added : Amount]]
    /\ overlapped \in SUBSET Address

RewardInit ==
    /\ task = [k \in Task |-> Resting]
    /\ rewards = [a \in Address |-> NoRow]
    /\ rewardsHash = [a \in Address |-> NoField]
    /\ overlapped = {}

\* The WebSocket path takes the timestamp of the transaction, which the chain
\* gives in whole seconds; the downtime path takes the block header's, which
\* has a fraction.  Here a second has two parts.
TimeOf(t, way) == IF way = "ws" THEN 2 * Second[t] ELSE 2 * Second[t] + 1

\* processMissedTxs strips the denomination off a plain withdrawal, and
\* processDelegatorRewards takes an amount without it for zero.
AmountOf(t, way) == IF way = "downtime" /\ Kind[t] = "withdraw" THEN 0 ELSE t

\* processMissedTxs looks for the rewards of an undelegation nowhere.
PaysReward(t, way) ==
    Kind[t] \in {"withdraw", "redelegate"} \/ (Kind[t] = "undelegate" /\ way = "ws")

Busy(a) == {k \in Task : task[k].stage # "idle" /\ Sender[task[k].tx] = a}

\* The call that is not awaited, up to findFirst.
Launch(t, way) ==
    \/ /\ ~PaysReward(t, way)
       /\ UNCHANGED rewardVars
    \/ /\ PaysReward(t, way)
       /\ LET free == {k \in Task : task[k].stage = "idle"} IN
          /\ free # {}
          /\ task' = [task EXCEPT ![CHOOSE k \in free : TRUE] =
                         [stage |-> "find", tx |-> t, timeStamp |-> TimeOf(t, way),
                          amount |-> AmountOf(t, way), before |-> 0]]
       /\ overlapped' = IF Busy(Sender[t]) = {} THEN overlapped
                                                 ELSE overlapped \cup {Sender[t]}
       /\ UNCHANGED <<rewards, rewardsHash>>

GoOn(k, stage) == task' = [task EXCEPT ![k].stage = stage]
Ends(k) == task' = [task EXCEPT ![k] = Resting]

\* Slip: the times are not compared.
FindRewardAnyway(k) ==
    LET row == rewards[Sender[task[k].tx]] IN
    /\ task[k].stage = "find"
    /\ \/ row.timeStamp = 0 /\ GoOn(k, "create")
       \/ /\ row.timeStamp # 0
          /\ task' = [task EXCEPT ![k] = [@ EXCEPT !.stage = "cache", !.before = row.amount]]
    /\ UNCHANGED <<rewards, rewardsHash, overlapped, faults>>

FindReward(k) ==
    LET row == rewards[Sender[task[k].tx]] IN
    /\ task[k].stage = "find"
    /\ \/ row.timeStamp = 0 /\ GoOn(k, "create")
       \/ /\ row.timeStamp # 0 /\ task[k].timeStamp > row.timeStamp
          /\ task' = [task EXCEPT ![k] = [@ EXCEPT !.stage = "cache", !.before = row.amount]]
       \/ row.timeStamp # 0 /\ task[k].timeStamp <= row.timeStamp /\ Ends(k)
    /\ UNCHANGED <<rewards, rewardsHash, overlapped, faults>>

SetHash(k) ==
    rewardsHash' = [rewardsHash EXCEPT ![Sender[task[k].tx]] =
                       [timeStamp |-> task[k].timeStamp, amount |-> task[k].amount,
                        added |-> task[k].before]]

SetRow(k) ==
    rewards' = [rewards EXCEPT ![Sender[task[k].tx]] =
                   [timeStamp |-> task[k].timeStamp, amount |-> task[k].amount]]

\* Redis gets the sum with what the row holds, the row only the new amount.
CacheReward(k) ==
    /\ task[k].stage = "cache"
    /\ SetHash(k) /\ GoOn(k, "update")
    /\ UNCHANGED <<rewards, overlapped, faults>>

UpdateReward(k) ==
    /\ task[k].stage = "update"
    /\ SetRow(k) /\ Ends(k)
    /\ UNCHANGED <<rewardsHash, overlapped, faults>>

\* Rewards.address is unique: of two creates the second throws.
CreateReward(k) ==
    /\ task[k].stage = "create"
    /\ \/ rewards[Sender[task[k].tx]] = NoRow /\ SetRow(k) /\ GoOn(k, "fill")
       \/ rewards[Sender[task[k].tx]] # NoRow /\ Ends(k) /\ UNCHANGED rewards
    /\ UNCHANGED <<rewardsHash, overlapped, faults>>

FillReward(k) ==
    /\ task[k].stage = "fill"
    /\ SetHash(k) /\ Ends(k)
    /\ UNCHANGED <<rewards, overlapped, faults>>

\* setHset swallows its failures; a failed query ends the task in its catch.
RewardFails(k) ==
    /\ FaultFor(task[k].tx)
    /\ \/ task[k].stage = "cache" /\ GoOn(k, "update")
       \/ task[k].stage \in {"find", "update", "create", "fill"} /\ Ends(k)
    /\ UNCHANGED <<rewards, rewardsHash, overlapped>>

\* setHset gives the whole hash a time to live.
ExpireRewards ==
    /\ \E a \in Address : rewardsHash[a] # NoField
    /\ rewardsHash' = [a \in Address |-> NoField]
    /\ UNCHANGED <<task, rewards, overlapped, faults>>

RewardStep(k) ==
    \/ FindReward(k) \/ CacheReward(k) \/ UpdateReward(k)
    \/ CreateReward(k) \/ FillReward(k)
=============================================================================
