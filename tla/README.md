# TLA+ models and proofs for Autheo's explorer

The repository holds three programs around an Autheo (Cosmos SDK) chain:

- **chain-native-indexer** reads blocks and transactions from a node over
  WebSocket and HTTP, passes them through RabbitMQ to itself, and writes
  Postgres, with counters and watermarks in Redis;
- **chain-native-api-service** answers queries from Postgres, Redis and the node;
- **chain-validator-frontend** is the React dashboard for validators.

The indexer holds the logic that is hard to test: seven queue consumers whose
handlers interleave, a WebSocket with an HTTP fallback, a catch-up at boot, a
cron job that replaces whole tables while they are read, and counters kept by
read-modify-write in two stores. This project models how *blocks* and
*transactions* travel through it, what the cron job copies from the chain, and
how the API pages through the blocks meanwhile; it checks the models with TLC
and proves the invariants and refinements with TLAPS.

Paths below are relative to `src/chain-native-indexer/src/` unless they start
with `src/`.

## 1. Inventory

| Component | State | Operations | What makes it correct |
|---|---|---|---|
| WebSocket manager `libs/ws.helper.ts` | `websocket`, `reconnecting`, `inFailoverMode`, `reconnectTimeout`, `retryCount` | `connect`, `onOpen`, `onMessage`, `onError`, `onClose`, `reconnect` | a lost socket is always replaced; a healthy one is never closed; the fallback runs exactly while the socket is away |
| HTTP block sync `services/httpBlockSync.service.ts` | `isRunning`, `isTickRunning`, `interval` | `start`, `stop`, `safeTick`, `syncMissingBlocks`, `processLatestBlock` | one tick at a time, no timer left behind, no block missed or stored twice |
| RabbitMQ consumers `services/rabbitmq.service.ts` | seven queues, up to 7 unacknowledged deliveries per consumer | one consumer per queue, `inQueueData` | a message is acknowledged only when its work is done or passed on |
| Block processing `libs/process.helper.ts` | none of its own | `processLatestBlock`, `processErrorBlock`, `updateBlockCount`, `downTimeBlocks`, `processMissedBlocks` | a block is stored once, with its own hash, its transactions follow, counters agree with rows |
| Transaction processing `libs/process.helper.ts` | none of its own | `processTxns`, `processMissedTxs` | every transaction of a stored block is stored once; users, votes, contracts and logs follow it |
| Delegator rewards `libs/process.helper.ts` | a floating promise per call | `processDelegatorRewards` | row and Redis agree, a withdrawal is added once |
| Postgres access `libs/db.helper.ts`, `libs/utility/prismaError.ts` | tables `Blocks`, `Transactions`, `ValidatedBlocksCount`, `users`, ... | `saveBlockData`, `upsertValidatorsCount`, `saveTransactions`, `saveValidators`, ... | a repeated write is harmless, a failed one is reported |
| Redis access `services/redis.service.ts` | `LATEST_BLOCK`, `NATIVE_BLOCKS_COUNT`, rewards, ... | `getString`, `setString`, `setHset` | failures are swallowed: `getString` answers `[]` |
| Boot `server.ts`, `libs/caching.helper.ts` | - | `initializeCount`, `downTimeBlocks`, subscriptions | nothing it starts is awaited, so it must commute with the consumers |
| Cron jobs `cron/index.ts`, `libs/validator.helper.ts`, `libs/proposal.helper.ts` | tables `Validator`, `Delegator`, `ValidatorStake`, `Proposals` | `getValidatorsInfo`, `getProposalsInfo`, again 5 s later | the tables agree and catch up with the chain; frozen proposals are final and stay frozen |
| API: block listing `src/chain-native-api-service/src/modules/block/block.service.ts` | none; seeds `NATIVE_BLOCKS_COUNT` | `getAllLatestBlock`, `cursorPagination` | a walk shows every block once while blocks are being stored |
| API: other modules | none | queries; publishes fetched blocks to `MISSED_BLOCK` | what it publishes is consumed |
| Frontend `src/chain-validator-frontend` | request controllers, onboarding and licence hooks, redux | HTTP requests, wallet calls | an answer is applied to the state it was asked for |

**Interactions.** The node pushes `NewBlock` and `Tx` events to the WebSocket
manager, which publishes them to `LATEST_BLOCKS` and `LATEST_TXS`. A consumer
runs `processLatestBlock`; if it fails the height goes to `ERROR_BLOCK`, where
`processErrorBlock` tries once more. The boot catch-up and the HTTP sync put
heights in `DOWNTIME_BLOCK`, handled by `processErrorBlock` too, with
`ERROR_BLOCK` after a failure. Handlers of blocks fetched by height publish the
transactions to `DOWNTIME_TXS`, where `processMissedTxs` fetches and stores
them; `LATEST_TXS` and its retries in `MISSED_TXS` go to `processTxns`. Both
start `processDelegatorRewards` without waiting for it. All paths meet in the `Blocks` table and in the
Redis keys `LATEST_BLOCK` (from which catch-up and HTTP sync start) and
`NATIVE_BLOCKS_COUNT`, which the API reads, and sets when it is missing. The
cron job shares only the process with all this; its tables are read by the API.

**Hard behaviours.** Handlers interleave at every `await`; every request may
fail, and each place treats a failure its own way; the process may die between
any two steps and RabbitMQ then returns unacknowledged messages;
`reconnect()` waits for a whole HTTP tick before it sets its flags; a
transaction may come over the WebSocket and by height, with different
timestamps and amounts; the status, the tally and the pool of a proposal come
from three requests; a page of blocks from four queries. The full
list, line by line, is under `hazards` in `PROJECT.json`.

## 2. Modules

| Module | Models | Lines it stands for |
|---|---|---|
| `IndexerStore` | what survives a crash: queues, tables, Redis keys, the chain; the helpers `Publish`, `Take`, `SaveBlock`, `Fault` | `inQueueData`, `saveBlockData`, `PrismaErrorHandler`, `schema.prisma` |
| `BlockFeed` | abstract specification of the feed: WebSocket, HTTP, or neither | what the rest of the indexer sees of `ws.helper.ts` |
| `BlockConsumers` | consumers of `LATEST_BLOCKS`, `DOWNTIME_BLOCK`, `ERROR_BLOCK` and their handlers, one action per awaited reply | `rabbitmq.service.ts`, `process.helper.ts`, `upsertValidatorsCount` |
| `HttpBlockSync` | a tick of the HTTP sync | `httpBlockSync.service.ts` |
| `BootCatchUp` | `initializeCount` and `downTimeBlocks` | `caching.helper.ts`, `process.helper.ts` 938-984 |
| `BlockPipeline` | composes the above with chain growth, crashes and restarts; the properties | `server.ts`, `docker-compose.yml` |
| `BlockLedger` | abstract specification of the record: heights known, rows, blocks given up, `LATEST_BLOCK` | what a reader of the tables may rely on |
| `MCBlockPipeline` | constants of the TLC instances | |
| `WsFailover` | `WebSocketManager` with `start`, `stop` and the interval of the HTTP sync | `ws.helper.ts`, `httpBlockSync.service.ts` 30-81 |
| `TxStore` | transaction queues, the tables `Transactions`, `Users`, `Voters`, `Contracts`, `ContractLogs` | `schema.prisma`, `inQueueData` |
| `DelegatorRewards` | `processDelegatorRewards`: the `Rewards` row and the Redis hash, one task per call | `process.helper.ts`, the function and its callers |
| `TxConsumers` | consumers of `LATEST_TXS`, `MISSED_TXS`, `DOWNTIME_TXS` and their handlers | `rabbitmq.service.ts`, `processTxns`, `processMissedTxs`, `saveTransactions`, `userSave`, `saveVoters`, `saveContractDeployTx`, `saveContractLogs` |
| `TxPipeline` | composes them with the chain, crashes and restarts; the properties | |
| `CronStore` | the chain's staking and governance state and the tables it is copied to | `schema.prisma` |
| `ValidatorRound` | `getValidatorsInfo`, one action per request | `validator.helper.ts`, `saveValidators`, `saveDelegator`, `saveDelegatorStakeData` |
| `ProposalRound` | `getProposalsInfo`, one action per request | `proposal.helper.ts`, `getFinalizedProposalIds`, `saveProposals` |
| `ExplorerCron` | the rounds one after the other, beside the chain, with crashes; the properties | `cron/index.ts` |
| `BlockCount` | the three writers of `NATIVE_BLOCKS_COUNT`, and the saves that do and do not move it | `updateBlockCount`, `consumeDownTimeBlocks`, `consumeErrorBlocks`, `initializeCount`, `getAllLatestBlock` |
| `BlockListing` | a reader paging through `GET /blocks`; the properties | `getAllLatestBlock`, `cursorPagination` |
| `MCTxPipeline`, `MCExplorerCron`, `MCBlockListing` | constants of the TLC instances | |
| `BlockPipelineProofs`, `BlockLedgerProofs`, `BlockFaultProofs`, `WsFailoverProofs`, `TxPipelineProofs`, `TxCountProofs`, `BlockListingProofs`, `ExplorerCronProofs` | theorems, see section 4 | |

`BlockPipeline` takes its feed from `BlockFeed`; `WsFailover` refines
`BlockFeed`, which is what justifies the composition. In turn `BlockPipeline`
refines `BlockLedger`, in which queues, handlers, failures and crashes have
disappeared: a block is heard of, gets its only row or is given up, and
`LATEST_BLOCK` moves to a block that is resolved. `TxPipeline` brings a
transaction to `DOWNTIME_TXS` when its block is fetched by height; that this
happens for every such block is `TxsFollow` of `BlockPipeline`. `BlockListing`
lets rows come in any order, which covers every order `BlockPipeline` produces.

**How state corresponds.** A block is its height; its hash is the height again,
so `h - 1` is the hash of the block before. `queued[q][h]` counts the ready
messages for `h`: queues are bags, because seven deliveries per consumer finish
in any order and a requeued one comes again. `job[w]` is one unacknowledged
delivery: `stage` is the `await` its handler has reached, and `cnt` and `val`
are the two chains that `Promise.all` runs in parallel at the end of
`processLatestBlock` (the block count, and the validator's count), each with
the value it has read and not yet written. `job[Tick]` is the HTTP tick, which
shares those steps. `latestBlock`, `blockCount` and `validated` are the Redis
keys and the column.

**How actions correspond.** An action is one reply and everything the code runs
from it to its next `await`. Each request has its failing twin (`...Fails`),
which follows the code: `getString` swallows a failure and answers `[]`, which
is truthy and converts to 0; `upsertValidatorsCount` and `updateBlockCount`
log and go on; a failed insert throws in `processLatestBlock` and is ignored in
`processErrorBlock`; a failed count in `consumeDownTimeBlocks` reaches the one
`catch` that does not acknowledge (stage `"stuck"`).

**Transactions.** A transaction is its place in the chain; `Kind`, `Sender`,
`Receiver` and `FirstRecipient` say what its message and events hold. The two
handlers read them differently (`RecipientOf`): over the WebSocket the
recipient is the second transfer's, by height the first one's, which pays the
fee. `job[w].user` holds the two read-modify-writes of `userSave`, which run in
parallel, `job[w].count` the values read. `FetchTimeFails` and
`FetchTimeUnusable` are the two ways in which the request for the timestamp
goes wrong: an error leaves it empty and the handler goes on, an answer without
it throws. A time in `DelegatorRewards` has two parts per second, because one
path stores whole seconds and the other the block's fraction of them.

**Cron.** `at` is the request or statement the job has reached; `round` and
`pass` hold what a round has read. `EndDelegators` with `beyond` is the loop
that runs to the total number of delegations over a page that holds fewer.
The pool is the number of stake changes so far, so that it can be seen to be
older or newer than the end of a voting; a tally is whether the one vote came.

**Listing.** `request` is the request being answered, `reply` the page the
reader looks at, from which it may ask for the next or the previous one. A
cursor is the height it stands for and 0 is `null`.

**Count.** In `BlockCount` any block may come to a handler at any time, also one
that is stored: this covers the catch-up that queues a height again and the
delivery that comes back after a crash. `SaveRow`, `SaveAgain` and `SaveFails`
are the saves after which the code counts the block: a new row, a unique
violation, and in `consumeDownTimeBlocks` a failed insert. `SaveUncounted` is
`consumeErrorBlocks`, which stores a row and counts nothing. The update that
follows is one read-modify-write; the copy of it in `consumeDownTimeBlocks`
differs in what a failed row count does (stage `"stuck"`). `drift` is the
history of what the count should be off by. In `BlockConsumers` the same update
is `cnt`, where `"init"` writes a count of the rows and `"add"` the old count
plus one.

`feeds`, `lost`, `seen`, `failed`, `early`, `overlapped`, `drift`, `clean`, `endedAt`,
`crashes`, `ticks`, `overtaken`, `failures`, `walk` and `back` are history.
Guards read some of them only to bound a behaviour.

**What is abstracted.** Payloads, fees, formatting, socket.io emissions,
logging, the requests whose result a handler does not depend on (analytics,
node earnings), delays, and `retryCount`, which only sets a delay. `Tokens` and
`Holders`, which are filled after a contract and read by no other handler; the
message types that differ from a modelled one in their label only; figures that
are put in Redis and only displayed; more than one contract or proposal to vote
on. A failed Postgres query of `GET /blocks` only yields the error page and is
left out.
`WebSocketManager.unsubscribe` has no caller and `healthCheckInterval` is never
set. Definitions marked *Slip* are not part of any specification: each is a
plausible mistake in the code, put in the place of the real definition to see
that a property notices.

## 3. Runs

The instances of `BlockPipeline` have two validators, of whom one proposes all
blocks after the first (the tip the indexer starts with), so that the handlers
of those blocks meet on its row.

| Run | Instance | Properties | Shows |
|---|---|---|---|
| `boot_faults` | 3 blocks, 1 failure | `WatermarkKnown` `NeverAhead` `TxsFollow` `CatchUpCovers` | the catch-up racing consumers and the chain queues exactly what is due; `LATEST_BLOCK` names a known block |
| `crashes` | 3 blocks, 2 crashes, two deliveries on `LATEST_BLOCKS` | `TypeOK` `Accounted` `NeverOverCredited` | no block disappears over two crashes and restarts; validators are never over-credited |
| `http` | 2 blocks, 1 failure, 1 tick, catch-up disabled | `RowHashes` `TxsFollow` `ImplementsLedger` | the hashes a row may carry when both paths store blocks; refinement of `BlockLedger` |
| `live` | 2 blocks, 2 failures, fair | `LossCauses` `EventuallyResolved` | a block is lost only in the places the code drops it, after the failures that takes; every block is resolved in the end |
| `ws_failover` | 5 socket failures, fair | all properties of `WsFailover` | reconnection, the fallback and their race; refinement of `BlockFeed` |
| `txs` | a contract, a call of it and a vote, which also comes by height; one delivery per queue, 1 failure, 1 crash, fair | `TypeOK` `TxAccounted` `NeverOverCounted` `VotesFollow` `LogLossCauses` `DowntimeStored` | what may be given up and why; counts of users never exceed their rows; what comes by height is stored in the end |
| `rewards` | two withdrawals of one delegator in one second, one coming both ways; two tasks, 1 failure, 1 crash, the hash expiring | `NeverClaimedTwice` `RewardCurrent` | when a withdrawal is added twice, and when row and hash carry the newest one |
| `cron` | 2 validators, 2 delegators, pages of 1, one proposal, one change of a stake, 1 failure, 1 crash, fair | `TypeOK` `TablesAgree` `FrozenTruly` `FrozenForGood` `EndedFrozen` `TablesCatchUp` | the tables agree between replacements and catch up; ended proposals are frozen, truly and for good |
| `listing` | 4 heights, pages of 2, one handler, 1 failure, 1 restart | `TypeOK` `WalkOnce` `WalkComplete` `PrevReturns` `ErrorCauses` `LastFits` | what a walk shows and misses while blocks are stored, when it errs |
| `counts` | 3 heights, pages of 2, two handlers, 1 restart, 1 repeated block | `CountExplained` | by how much the count is off, over redelivery after a crash, rows that are not counted and recounts |
| `count_atomic` | 4 blocks, no failure, catch-up disabled | `AtomicIncrement` (violated) | finding 1 |
| `duplicate` | 2 blocks, 1 tick, no failure | `DuplicatesAreStored` (violated) | finding 2 |

**Bounds.** `MaxHeight` 3 is the smallest chain on which the catch-up does
anything after a block was saved (`diff > 1`); 2 is enough for two handlers to
race on one row and for a hash to meet its predecessor. Two failures are what
it takes to lose a block through `ERROR_BLOCK`. Two crashes let a message be
returned, delivered and returned again. Five socket failures let two
`reconnect` calls be parked and overtaken more than once. Each run leaves out
(bound 0) what its question does not need. In `txs` the call can overtake its
contract, because they travel through three queues; in `rewards` one second and
two ways are what makes two times of one transaction differ. In `cron` a page
of 1 with two delegators is the smallest case where a page does not hold all
delegations, and one change of a stake is enough for a delegation to move
between two requests of a round. In `listing` 4 heights and pages of 2 give
full pages, partial ones and gaps filled behind the reader. In `counts` one
restart and one repeat make the case of a block saved, recounted by the boot and
counted again; failures are left out because the property is about runs without
them. Three blocks through the WebSocket are what it takes for the count to lose
one (`count_atomic`; the first height is the tip the indexer starts with). The invariants proved below hold for every
value of these bounds. `crashes` uses symmetry of the two
`LATEST_BLOCKS` deliveries; it checks only invariants.

**Deadlock** is checked in `cron`, `listing` and `counts`, which never end. In the other
runs it is off: once the chain has stopped growing and the
failures, ticks and crashes of an instance are used up, every message is
handled and nothing is left to do. That nothing stops early is what
`EventuallyResolved`, `DowntimeStored` and `Recovers` say.

**Fairness** (`BlockPipeline`): the broker delivers while a consumer has room,
every awaited reply comes or fails (axios has a timeout of 10 s), Docker
restarts the process (`restart: unless-stopped`), and the interval of the HTTP
sync fires. Handlers are fair one by one, since each is its own chain of
promises. Nothing is assumed of the chain, the WebSocket, crashes or failures.
`TxPipeline` assumes the same, and that started reward tasks go on.
(`ExplorerCron`): every request is answered or given up after 10 s, the timer
of 5 s fires, the container is restarted; the chain need not do anything.
(`WsFailover`): the event loop runs what is due, timers fire, ticks end
(`finally`), a socket that has erred closes, and when failures have ceased a
connection attempt succeeds. Weak fairness is enough: none of these is
disabled again by others while it waits.

**Findings.**

1. `updateBlockCount` is documented as atomic (`libs/process.helper.ts:1112`)
   but is a `GET` and a `SET` with other handlers between them. Without any
   failure, two overlapping deliveries both read 1 and both write 2: three rows
   are stored, no update is under way any more, and the count is 2. The property
   asks nothing of a handler that found the key unset and counts the rows, nor
   while another update may still make up for it. The same shape in
   `upsertValidatorsCount` loses updates too, but never invents one
   (`NeverOverCredited`).
2. The HTTP sync stores `last_commit.block_id.hash`, the hash of the *previous*
   block, in a unique column. When that block is stored with its own hash the
   insert is a unique violation, which `PrismaErrorHandler` answers as an
   acceptable duplicate (`libs/utility/prismaError.ts:63`): the block is
   reported as saved and is missing.

What the properties of the passing runs concede is worth knowing as well: a
second failure drops a block for good, and so does *one* failed insert in
`processErrorBlock` (`LossCauses`); the HTTP sync may leave interval timers
behind, stay off, or a healthy socket may be closed, but only when the socket
opened while `reconnect()` was still waiting for the first tick
(`LeaksBounded`, `BlindOnlyIfOvertaken`, `HealthyKept`); a failed row count
takes a delivery of `consumeDownTimeBlocks` away for good
(`EventuallyResolved`). Of transactions: one the WebSocket told of is dropped
after one failed save, because `processTxns` ignores the result
(`TxAccounted`); a call that overtakes its contract's row loses its log
(`LogLossCauses`); a withdrawal that comes both ways is added to itself in
Redis (`NeverClaimedTwice`), the plain withdrawal fetched by height counts as
zero (`AmountOf`), and Redis shows the sum of the last two withdrawals while
the row shows the last. Of the cron job: a validator with more delegations than
a page stops every round before the tables are replaced, hence the premise of
`TablesCatchUp`; one failed read of the finalized ids lets a round rewrite what
was frozen (`FrozenForGood`); a turnout frozen without the pool stays 0
(`FrozenTruly`); a proposal beyond the first page is never seen
(`EndedFrozen`). Of the listing: block 1 as a cursor is taken for page 1
(`PrevReturns`), exactly one stored block gives an error (`ErrorCauses`), and a
count below a page's size ends a walk early (`WalkComplete`). Of the count: even
if updates never overlap, a duplicate counts as a block, so a crash between a
save and its update leaves the count one too high (the boot counts the row, the
redelivery adds one), a block saved through `ERROR_BLOCK` is not counted, and
only counting the rows again puts either right (`CountExplained`).

## 4. Proofs

Every invariant and every action property that a run checks is also a theorem,
for all values of the constants that the named assumptions allow, and so are
the two refinements. What is only model-checked is liveness.

`Spec` of every module is `Init /\ [][Next]_vars` (fairness is added in
`FairSpec`, which only liveness needs), so a theorem is an inductive invariant
with `Init => Inv`, a step lemma and `Inv => Property`. An invariant rests on
those proved before it, which may be assumed before *and after* the step: types
first, then where the messages are, then what follows from that.

`BlockPipelineProofs`, for every chain length, set of deliveries, assignment of
proposers and bound on failures, ticks and crashes:

- `TypeCorrect`: `Spec => []TypeOK`. `TypeOK` alone is not inductive: a
  handler past its delivery must work on a real height, else its steps index
  the tables outside their domain. `TypeInv` adds that (`ActiveHeights`).
- `NoBlockUnaccounted` (`[]Accounted`) and `WatermarkIsKnown`
  (`[]WatermarkKnown`). The inductive invariant `SettledInv` adds that a
  handler past its save works on a block that is stored or given up
  (`JobSettled`). From it follows that no acknowledgement drops the last trace
  of a block, and that `LATEST_BLOCK` is only ever set to a settled one. The
  proof has one step per action; what all non-crashing handler steps have in
  common (they only add rows and losses, and drop a message only for a settled
  height or one republished) is stated once (`Progresses`) and used for
  consumers and tick alike. `Crash` is the case where every held message must
  be found again in its queue.

`BlockLedgerProofs` proves `RefinesLedger` (`Spec => ImplementsLedger`) and
`NothingAhead` (`Spec => []NeverAhead`). To the invariants above it adds
`HeardInv`: whatever is queued, held, stored, given up or named by
`LATEST_BLOCK` was brought in by a feed, and what was brought in the chain has;
without it a handler could store a block nobody told of, which the ledger does
not allow. A handler step is reduced to what it does to the record of its one
block (`Records`) and to its message (`Passes`), a step of a feed to the
heights it tells of (`Hears`); each of these maps to one step of the ledger.
The tick is the exception, because it hears of its block as it saves it.

`BlockFaultProofs` proves what it takes for something to go wrong:

- `LossesHaveCauses` (`[]LossCauses`), `HashesFit` (`[]RowHashes`) and
  `TransactionsFollow` (`[]TxsFollow`) share the invariant `CauseInv`, since
  all three depend on where the block in a handler's hands came from. Whatever
  is in `ERROR_BLOCK`, or held from it, has failed at least once
  (`RetriesFailed`): only then are two failures what a loss costs. What
  is in `LATEST_BLOCKS` the WebSocket told of (`LatestFromWs`), and a handler
  of a height has published the transactions when it comes to its save
  (`TxsFirst`).
- `CatchUpLosesNone` (`[]CatchUpCovers`). `LoopInv` says that a height the loop
  has passed was told, or failed; that what was told is not lost is then
  `NoBlockUnaccounted`.
- `CreditsOnlyLost` (`[]NeverOverCredited`). The bound is not inductive, as a
  handler holds an old count. `CreditsInv` sets the rows aside whose handler has
  still to credit them, and bounds the count, and every count that was read and
  not yet written, by the others (`FreeRows`, `CreditsCovered`). Each row has
  one such handler because the WebSocket tells of a height once and nothing was
  redelivered (`ToldOnce`): this is why the premise of the property is needed.

`WsFailoverProofs` proves for any number of socket failures `TypeCorrect`,
`SocketNeverStranded`, `TimerLeaksBounded`, `FallbackSound`,
`HealthySocketKept` and `RefinesFeed` from one inductive invariant `Inv`:
besides the types, the retry timer,
`reconnecting` and the absence of a socket go together, and an open socket
excludes failover mode and a running sync (`SockInv`); a lost socket has a
handler to run or a call of `reconnect` under way (`CallInv`); every timer is
paid for by the running sync or by an overtaking, which is what bounds the leak
(`TimerInv`); and until a call is overtaken, failover mode and every call of
`reconnect` mean that the sync runs (`SyncInv`).

`TxPipelineProofs`, for any transactions, users, deliveries, tasks and bounds:

- `TypeCorrect`: `Spec => []TypeOK`. It needs `PartyKnown`: whoever still has a
  row of `Users` to find or write has an address, so that the empty recipient
  of a contract is never counted.
- `NoTxUnaccounted`: `Spec => []TxAccounted`. The invariant `Kept` is stated
  for each *way* a transaction came: on each way it is stored, queued or held
  by a delivery of that way, or (WebSocket only) a request for it failed. Per
  way is what makes it inductive: the delivery of one way says nothing about
  the message of the other. `PastSave` adds that a handler past its save left a
  row or a failure behind. The proof is laid out as for blocks, with
  `Progresses` for what all handler steps have in common.
- `VotesAreSaved` (`[]VotesFollow`) and `LogsHaveCauses` (`[]LogLossCauses`).
  Both are about what follows the transaction's row, so `Kept` is not enough:
  `FollowsUp` says that the WebSocket's way keeps a vote or an execute until it
  is followed up, also past its row, where a crash brings the message back; and
  `HeldEarly` that an execute delivered after its contract's row finds it,
  because rows of contracts are never removed.

`TxCountProofs`, for the two places where an old value is written back:

- `UsersNeverOverCounted` (`[]NeverOverCounted`).
  The bound alone is not inductive, as a handler may hold an old value of
  `Users.txn`. `CountInv` says of the row, and of every value a handler has read
  of it, that it leaves room for all handlers that have still to add 1 (`Due`).
  It holds because the unique row of the transaction is there before its users
  are counted, and a redelivery that finds the row counts nobody.
- `ClaimedOncePerWay` (`[]NeverClaimedTwice`). `ClaimInv` follows an amount
  wherever it is carried, in a task, a row or the hash: it came on a way that
  gives it the time it is carried with, and what is added to it in Redis came
  with an earlier time. The same withdrawal with two times came on two ways.
- `RewardsCurrent` (`[]RewardCurrent`). While nothing has disturbed the tasks
  of a delegator (`Undisturbed`), there is one task at a time, what it has found
  stays true until it writes (`Fits`), and each withdrawal is stored, superseded,
  or still has its task to come or to finish (`NoneSkipped`).

`ExplorerCronProofs`, for any validators, delegators, proposals, page sizes and
bounds:

- `FrozenProposalsAreFinal` (`[]FrozenTruly`) and
  `FrozenProposalsStay` (`Spec => FrozenForGood`). The invariant `CronInv` says
  what makes three requests add up to one truth: the pool is never older than the
  end of a voting (`EndsInv`), what the list showed as ended had ended by then,
  with that tally (`SeenInv`), the pool read afterwards is not older than any end
  the list tells of (`PoolInv`), and a proposal the round still has to handle is
  finalized only if the ids could not be read (`OpenInv`).
- `TypeCorrect` (`[]TypeOK`) and `TablesTellOneStory` (`[]TablesAgree`). That
  the tables agree depends on everything the round has gathered before it
  replaces them: `RoundInv` says that some validator is always bonded and the
  list of a round is never lost (`BondedInv`, `ListedInv`), that a round in
  which nothing failed has read as many stakes of each validator as it notes,
  up to the page at hand (`ReadsAgree`), although the chain moved between two
  pages, and that half way through the replacement the first table is the
  round's (`ReplacedInv`).

`BlockListingProofs`, for any number of heights, handlers, failures and
restarts and any size of a page:

- `CountIsExplained` (`[]CountExplained`). `CountInv` adds that without an
  overlap at most one update of the count is under way (`OneUpdate`), and what
  is then known of the value it carries (`CountTracks`): a handler that has
  still to read is one behind what is due, one that has still to write has it in
  hand, and an empty table has the count 0, so that a recount which writes
  nothing leaves it right. `SavedKeeps` is shared by the saves that are counted.
- *What FirstOf picks* are lemmas on `ORDER BY ... LIMIT n` over any set of
  heights in either order: never more than n (`FirstOfPicks`), an initial
  segment, all of them if fewer than n; and a set of n that nothing precedes is
  what is picked (`FirstOfSegment`). *The steps of a request* state once what
  each query does, as a lemma per action (`FetchPageFacts` and so on), on which
  the invariants below rest; `TypeCorrect` (`[]TypeOK`) comes with them.
- `ErrorsHaveCauses` (`[]ErrorCauses`). `LeadsOn`: beyond every cursor that is
  given out there is a row, namely the end of the table it was compared with,
  and those ends enclose the rows the page was read from although they are read
  later.
- `NoBlockShownTwice`: `Limit # 1` implies `Spec => []WalkOnce`. `ShownBehind`
  says that everything shown is behind the cursor the walk goes on from and
  that cursor 1 is never given out. With pages of one block the last is
  false: the walk from the oldest block gives out cursor 1, which is taken for
  page 1, and shows block 1 for ever.
- `WalksAreComplete` (`[]WalkComplete`). `StillAhead` is the other half:
  whatever was there at the start and is not shown is ahead of the page, which
  is then full, and of the cursor, which is then not withheld.
- `PrevUndoesNext` (`[]PrevReturns`). A page has no gap (`Unbroken`), the page
  after it begins where the rows past its cursor begin (`Follows`), and so,
  with the table unchanged, the page is what is first on the way back
  (`WayBack`).
- `LastLinkFits` (`[]LastFits`). `LastPage` is the counting argument: of the
  rows from the far end on, the end's own left out, the first k end k rows
  before the end.

**Assumptions.** The theorems rest on those named in the modules
(`BoundAssumption`, `ProposerAssumption`, `WorkerAssumption`,
`TicksAssumption`, `CatchupAssumption`, `CrashesAssumption`,
`FailuresAssumption`, `TxBoundAssumption`, `TxAssumption`, `RewardAssumption`,
`TxWorkerAssumption`, `RefetchedAssumption`, `CronAssumption`,
`CronCrashesAssumption`, `BlockCountAssumption`, `LimitAssumption`), which only
say that bounds are natural numbers, that every height has a proposer, that
senders and recipients are addresses (or none), that the chain has a validator,
and that the consumers' deliveries are finite and distinct; TLC evaluates them
in every run.

**Only model-checked** is liveness: `EventuallyResolved`, `Recovers`,
`DowntimeStored`, `EndedFrozen` and `TablesCatchUp`. Liveness under fairness,
and `ENABLED`, are out of the prover's reach.

## 5. Not modelled, and the plan

What is left: `RabbitChannel`, that is `connect`, its retries and the channel
that is never replaced after a connection error.

Not modelled:

- `consumeMissedBlocks` and `processMissedBlocks`: the queue they consume,
  `NATIVE_MISSED_BLOCK`, gets no message. The API publishes to `MISSED_BLOCK`,
  which nobody consumes; a state machine would have nothing to do.
- `calculateData` and `saveTokenPrice`: they overwrite figures that no other
  write depends on.
- `Tokens`, `Holders`, analytics, socket.io emissions, configuration.
- The API's other queries: each reads once and answers. Its rate arithmetic is
  floating point.
- The frontend: wallet and contract calls of one user in one tab, React pages
  and generated code. The race of its onboarding hook is listed as a hazard.

Most lines of the repository are the frontend's generated protobuf types and
codecs, which hold no decisions of this system; the models cover the
hand-written indexer and the part of the API that shares state with it.
