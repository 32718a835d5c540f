------------------------------- MODULE TxStore ------------------------------
(***************************************************************************)
(* What the indexer keeps of transactions outside its process: the three   *)
(* transaction queues and the tables Transactions, Users, Voters,          *)
(* Contracts and ContractLogs.  All of it survives a crash.                *)
(*                                                                         *)
(* A transaction is its place in the chain.  There is one proposal to vote *)
(* on and one contract.  Tokens and Holders, which are filled after a      *)
(* contract and read by no other handler, and every payload are left out.  *)
(***************************************************************************)
EXTENDS Naturals, FiniteSets

CONSTANTS
    MaxTx,          \* transactions the chain commits
    MaxFaults,      \* failed requests in a behaviour
    Address,        \* users' addresses, and the message paths stored as such
    NoAddress,      \* the empty address
    Kind,           \* Kind[t]: what the message of t does
    Sender,         \* Sender[t]
    Receiver,       \* Receiver[t] as its events tell over the WebSocket
    FirstRecipient  \* the recipient of its first transfer event, the fee's

Tx == 1 .. MaxTx
TxQueue == {"LATEST_TXS", "MISSED_TXS", "DOWNTIME_TXS"}
TxKind == {"send", "vote", "instantiate", "execute",
           "withdraw", "redelegate", "undelegate"}

ASSUME TxBoundAssumption == MaxTx \in Nat \ {0} /\ MaxFaults \in Nat
ASSUME TxAssumption ==
    /\ NoAddress \notin Address
    /\ Kind \in [Tx -> TxKind]
    /\ Sender \in [Tx -> Address]
    /\ Receiver \in [Tx -> Address \cup {NoAddress}]
    /\ FirstRecipient \in [Tx -> Address \cup {NoAddress}]

VARIABLES
    queued,        \* queued[q][t]: ready messages about t in queue q
    transactions,  \* rows of the Transactions table
    users,         \* users[a]: Users.txn (0: no row)
    votes,         \* votes[a]: the vote of a in Voters (0: no row)
    contract,      \* the contract has its row in Contracts
    contractLogs,  \* transactions that have a row in ContractLogs
    \* History, read by the properties and never by an action's guard:
    seen,          \* seen[t]: the ways in which t came to the indexer
    failed,        \* failed[t]: failed requests made on behalf of t
    faultsLeft     \* failures that may still happen

tables == <<transactions, users, votes, contract, contractLogs>>
faults == <<failed, faultsLeft>>
txStoreVars == <<queued, tables, seen, faults>>

TxRow == [txhash : Tx, toAddress : Address \cup {NoAddress}]

TxStoreTypeOK ==
    /\ queued \in [TxQueue -> [Tx -> Nat]]
    /\ transactions \in SUBSET TxRow
    /\ users \in [Address -> Nat]
    /\ votes \in [Address -> 0 .. MaxTx]
    /\ contract \in BOOLEAN
    /\ contractLogs \in SUBSET Tx
    /\ seen \in [Tx -> SUBSET {"ws", "downtime"}]
    /\ failed \in [Tx -> Nat]
    /\ faultsLeft \in Nat

TxStoreInit ==
    /\ queued = [q \in TxQueue |-> [t \in Tx |-> 0]]
    /\ transactions = {}
    /\ users = [a \in Address |-> 0]
    /\ votes = [a \in Address |-> 0]
    /\ contract = FALSE
    /\ contractLogs = {}
    /\ seen = [t \in Tx |-> {}]
    /\ failed = [t \in Tx |-> 0]
    /\ faultsLeft = MaxFaults

-----------------------------------------------------------------------------
\* RabbitMq.inQueueData; queues are bags, as for blocks.
Publish(q, t) == queued' = [queued EXCEPT ![q][t] = @ + 1]

\* Slip: an acknowledgement for a message that was not delivered.
TakeAnyway(q, t) == queued' = [queued EXCEPT ![q][t] = @ - 1]

Take(q, t) ==
    /\ queued[q][t] > 0
    /\ queued' = [queued EXCEPT ![q][t] = @ - 1]

\* t is brought into the indexer through q.
Bring(q, t, way) ==
    /\ Publish(q, t)
    /\ seen' = [seen EXCEPT ![t] = @ \cup {way}]

\* Transactions.txhash is unique.
Stored(t) == \E r \in transactions : r.txhash = t

\* How often a is a party of a stored transaction: what users[a] counts.
Roles(a) ==
    Cardinality({r \in transactions : r.toAddress = a})
      + Cardinality({r \in transactions : Sender[r.txhash] = a})

\* A request fails that is not about one transaction, or only about its users.
Fault ==
    /\ faultsLeft > 0
    /\ faultsLeft' = faultsLeft - 1
    /\ UNCHANGED failed

\* A request made for transaction t fails.
FaultFor(t) ==
    /\ faultsLeft > 0
    /\ faultsLeft' = faultsLeft - 1
    /\ failed' = [failed EXCEPT ![t] = @ + 1]
=============================================================================
