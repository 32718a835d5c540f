----------------------------- MODULE TxConsumers ----------------------------
(***************************************************************************)
(* The consumers of LATEST_TXS and MISSED_TXS, which run processTxns, and  *)
(* of DOWNTIME_TXS, which runs processMissedTxs.  As in BlockConsumers a   *)
(* worker is one unacknowledged delivery, and an action is one reply and   *)
(* all that runs up to the next await.                                     *)
(***************************************************************************)
EXTENDS DelegatorRewards

CONSTANTS
    LatestTxWorker,   \* deliveries of consumeLatestTransaction
    MissedTxWorker,   \* deliveries of consumeMissedTxs
    DowntimeTxWorker  \* deliveries of consumeDownTransaction

TxWorker == LatestTxWorker \cup MissedTxWorker \cup DowntimeTxWorker

ASSUME TxWorkerAssumption ==
    /\ IsFiniteSet(TxWorker)
    /\ LatestTxWorker \cap MissedTxWorker = {}
    /\ LatestTxWorker \cap DowntimeTxWorker = {}
    /\ MissedTxWorker \cap DowntimeTxWorker = {}

VARIABLES
    job,   \* job[w]: how far the handler run by w has come
    early  \* history: executes delivered before their contract's row was saved

jobVars == <<job, early>>
restVars == <<votes, contract, contractLogs, seen, early>>

Role == {"to", "from"}

\* user and count: for each party of the transaction, the read-modify-write of
\* its row in Users and the value read and not written back yet.
TxJob == [stage : {"idle", "tx", "time", "save", "users", "follow"},
          tx : Tx,
          user : [Role -> {"find", "write", "done"}], count : [Role -> Nat]]

Idle == [stage |-> "idle", tx |-> 1, user |-> [r \in Role |-> "done"],
         count |-> [r \in Role |-> 0]]

JobTypeOK == job \in [TxWorker -> TxJob] /\ early \in SUBSET Tx
JobInit == job = [w \in TxWorker |-> Idle] /\ early = {}

QueueOf(w) == IF w \in LatestTxWorker THEN "LATEST_TXS"
              ELSE IF w \in MissedTxWorker THEN "MISSED_TXS" ELSE "DOWNTIME_TXS"

\* Where a handler that failed puts its message back.
RetryQueue(w) == IF w \in DowntimeTxWorker THEN "DOWNTIME_TXS" ELSE "MISSED_TXS"

Way(w) == IF w \in DowntimeTxWorker THEN "downtime" ELSE "ws"

Holds(w, t) == job[w].stage # "idle" /\ job[w].tx = t

Pending(t) == \/ \E q \in TxQueue : queued[q][t] > 0
              \/ \E w \in TxWorker : Holds(w, t)

To(w, stage) == job' = [job EXCEPT ![w].stage = stage]
End(w) == job' = [job EXCEPT ![w] = Idle]
Retry(w) == Publish(RetryQueue(w), job[w].tx) /\ End(w)

\* The recipient processTxns takes is the second transfer's, if there are two;
\* processMissedTxs takes that of the first transfer event, also for a contract,
\* whose message it does not know.
RecipientOf(w, t) ==
    IF w \in DowntimeTxWorker /\ Kind[t] \in {"send", "instantiate", "execute"}
    THEN FirstRecipient[t] ELSE Receiver[t]

\* What processTxns does after the save; processMissedTxs only returns.
Follows(w, t) ==
    w \notin DowntimeTxWorker /\ Kind[t] \in {"vote", "instantiate", "execute"}

AfterSave(w) == IF Follows(w, job[w].tx) THEN To(w, "follow") ELSE End(w)

-----------------------------------------------------------------------------
Deliver(w, t) ==
    /\ job[w].stage = "idle"
    /\ Take(QueueOf(w), t)
    /\ job' = [job EXCEPT ![w] = [Idle EXCEPT
                  !.stage = IF w \in DowntimeTxWorker THEN "tx" ELSE "time",
                  !.tx = t]]
    /\ early' = IF Kind[t] = "execute" /\ ~contract THEN early \cup {t} ELSE early
    /\ UNCHANGED <<tables, seen, faults, rewardVars>>

\* GET /tx?hash=... of processMissedTxs
FetchTx(w) ==
    /\ job[w].stage = "tx"
    /\ To(w, "time")
    /\ UNCHANGED <<queued, tables, seen, early, faults, rewardVars>>

\* Slip: the message is acknowledged and not published again.
FetchTxFailsForGood(w) ==
    /\ job[w].stage = "tx"
    /\ FaultFor(job[w].tx)
    /\ End(w)
    /\ UNCHANGED <<queued, tables, seen, early, rewardVars>>

FetchTxFails(w) ==
    /\ job[w].stage = "tx"
    /\ FaultFor(job[w].tx)
    /\ Retry(w)
    /\ UNCHANGED <<tables, seen, early, rewardVars>>

\* The timestamp arrives; the rewards are started before the save.
FetchTime(w) ==
    /\ job[w].stage = "time"
    /\ Launch(job[w].tx, Way(w))
    /\ To(w, "save")
    /\ UNCHANGED <<queued, tables, seen, early, faults>>

\* The request for it fails.  The timestamp stays empty, which Prisma refuses
\* wherever it is stored: the transaction, a contract and a log are not saved,
\* a reward changes nothing.  processTxns does not notice and goes on to a
\* vote, processMissedTxs reports the failed save.
FetchTimeFails(w) ==
    LET t == job[w].tx IN
    /\ job[w].stage = "time"
    /\ FaultFor(t)
    /\ \/ w \in DowntimeTxWorker /\ Retry(w)
       \/ /\ w \notin DowntimeTxWorker /\ UNCHANGED queued
          /\ IF Kind[t] = "vote" THEN To(w, "follow") ELSE End(w)
    /\ UNCHANGED <<tables, seen, early, rewardVars>>

\* It is answered by something that holds no timestamp: both handlers throw.
FetchTimeUnusable(w) ==
    /\ job[w].stage = "time"
    /\ FaultFor(job[w].tx)
    /\ Retry(w)
    /\ UNCHANGED <<tables, seen, early, rewardVars>>

\* Slip: what follows the create runs for a duplicate, too.
SaveTxCountsTwice(w) ==
    LET t == job[w].tx  to == RecipientOf(w, t) IN
    /\ job[w].stage = "save"
    /\ transactions' = IF Stored(t) THEN transactions
                       ELSE transactions \cup {[txhash |-> t, toAddress |-> to]}
    /\ job' = [job EXCEPT ![w] = [@ EXCEPT !.stage = "users",
                  !.user = [r \in Role |-> IF r = "to" /\ to = NoAddress
                                           THEN "done" ELSE "find"]]]
    /\ UNCHANGED <<queued, users, restVars, faults, rewardVars>>

\* Slip: the handler of a duplicate returns at once.
SaveTxReturns(w) ==
    LET t == job[w].tx  to == RecipientOf(w, t) IN
    /\ job[w].stage = "save"
    /\ \/ /\ ~Stored(t)
          /\ transactions' = transactions \cup {[txhash |-> t, toAddress |-> to]}
          /\ job' = [job EXCEPT ![w] = [@ EXCEPT !.stage = "users",
                        !.user = [r \in Role |-> IF r = "to" /\ to = NoAddress
                                                 THEN "done" ELSE "find"]]]
       \/ Stored(t) /\ End(w) /\ UNCHANGED transactions
    /\ UNCHANGED <<queued, users, restVars, faults, rewardVars>>

\* prisma.transactions.create, then userSave; a duplicate skips userSave and
\* counts as saved.
SaveTx(w) ==
    LET t == job[w].tx  to == RecipientOf(w, t) IN
    /\ job[w].stage = "save"
    /\ \/ /\ ~Stored(t)
          /\ transactions' = transactions \cup {[txhash |-> t, toAddress |-> to]}
          /\ job' = [job EXCEPT ![w] = [@ EXCEPT !.stage = "users",
                        !.user = [r \in Role |-> IF r = "to" /\ to = NoAddress
                                                 THEN "done" ELSE "find"]]]
       \/ Stored(t) /\ AfterSave(w) /\ UNCHANGED transactions
    /\ UNCHANGED <<queued, users, restVars, faults, rewardVars>>

\* processTxns does not look at the result of the save.
SaveTxFails(w) ==
    /\ job[w].stage = "save"
    /\ FaultFor(job[w].tx)
    /\ \/ w \in DowntimeTxWorker /\ Retry(w)
       \/ w \notin DowntimeTxWorker /\ AfterSave(w) /\ UNCHANGED queued
    /\ UNCHANGED <<tables, seen, early, rewardVars>>

-----------------------------------------------------------------------------
(* userSave: both parties in parallel, each by find, then update or create *)

Party(w, r) ==
    IF r = "from" THEN Sender[job[w].tx] ELSE RecipientOf(w, job[w].tx)

UserTo(w, r, step, n) ==
    job' = [job EXCEPT ![w] = [@ EXCEPT !.user[r] = step, !.count[r] = n]]

FindUser(w, r) ==
    /\ job[w].stage = "users" /\ job[w].user[r] = "find"
    /\ UserTo(w, r, "write", users[Party(w, r)])
    /\ UNCHANGED <<txStoreVars, early, rewardVars>>

\* A create that meets a row made since the find fails, and is only logged.
WriteUser(w, r) ==
    LET a == Party(w, r)  n == job[w].count[r] IN
    /\ job[w].stage = "users" /\ job[w].user[r] = "write"
    /\ users' = IF n = 0 /\ users[a] > 0 THEN users ELSE [users EXCEPT ![a] = n + 1]
    /\ UserTo(w, r, "done", 0)
    /\ UNCHANGED <<queued, transactions, restVars, faults, rewardVars>>

UserFails(w, r) ==
    /\ job[w].stage = "users" /\ job[w].user[r] # "done"
    /\ Fault
    /\ UserTo(w, r, "done", 0)
    /\ UNCHANGED <<queued, tables, seen, early, rewardVars>>

EndUsers(w) ==
    /\ job[w].stage = "users"
    /\ \A r \in Role : job[w].user[r] = "done"
    /\ AfterSave(w)
    /\ UNCHANGED <<txStoreVars, early, rewardVars>>

-----------------------------------------------------------------------------
(* saveVoters, saveContractDeployTx, saveContractLogs *)

SaveVoter(w) ==
    LET t == job[w].tx IN
    /\ job[w].stage = "follow" /\ Kind[t] = "vote"
    /\ votes' = [votes EXCEPT ![Sender[t]] = t]
    /\ End(w)
    /\ UNCHANGED <<queued, transactions, users, contract, contractLogs, seen,
                   early, faults, rewardVars>>

SaveContract(w) ==
    /\ job[w].stage = "follow" /\ Kind[job[w].tx] = "instantiate"
    /\ contract' = TRUE
    /\ End(w)
    /\ UNCHANGED <<queued, transactions, users, votes, contractLogs, seen,
                   early, faults, rewardVars>>

\* The log refers to the rows of its transaction and of its contract; without
\* one of them the insert fails, and is only logged.
SaveLog(w) ==
    LET t == job[w].tx IN
    /\ job[w].stage = "follow" /\ Kind[t] = "execute"
    /\ contractLogs' = IF contract /\ Stored(t) THEN contractLogs \cup {t}
                                                ELSE contractLogs
    /\ End(w)
    /\ UNCHANGED <<queued, transactions, users, votes, contract, seen, early,
                   faults, rewardVars>>

\* All three swallow a failure.
FollowFails(w) ==
    /\ job[w].stage = "follow"
    /\ FaultFor(job[w].tx)
    /\ End(w)
    /\ UNCHANGED <<queued, tables, seen, early, rewardVars>>

-----------------------------------------------------------------------------
TxStep(w) ==
    \/ FetchTx(w) \/ FetchTime(w) \/ SaveTx(w)
    \/ \E r \in Role : FindUser(w, r) \/ WriteUser(w, r)
    \/ EndUsers(w)
    \/ SaveVoter(w) \/ SaveContract(w) \/ SaveLog(w)

TxFails(w) ==
    \/ FetchTxFails(w) \/ FetchTimeFails(w) \/ FetchTimeUnusable(w)
    \/ SaveTxFails(w) \/ (\E r \in Role : UserFails(w, r)) \/ FollowFails(w)

\* Slip: the consumers were opened with noAck, so nothing comes back.
RequeueNothing == UNCHANGED queued /\ job' = [w \in TxWorker |-> Idle]

\* The process stops: every unacknowledged message returns to its queue.
Requeue ==
    /\ queued' = [q \in TxQueue |-> [t \in Tx |->
           queued[q][t]
             + Cardinality({w \in TxWorker : QueueOf(w) = q /\ Holds(w, t)})]]
    /\ job' = [w \in TxWorker |-> Idle]
=============================================================================
