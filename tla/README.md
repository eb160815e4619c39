# horizon-svc in TLA+

horizon-svc indexes the Rarimo core chain (and the bridge contracts of EVM, NEAR and
Solana chains) into PostgreSQL and serves the result over HTTP.  Its core is the
indexing pipeline: producers that walk over a growing chain with a cursor in
Redis, queues in Redis between them, and indexers that derive the state of transfers,
items and collections from events that arrive late, twice or out of order.  Around it are
a cache of rows and lists in Redis, a loader of the genesis file, and an API that
builds deposits and reads chains.  These modules specify all of that; TLC checks them on
small instances and TLAPS proves the central invariants for all parameters.

    chain ──► block range producer ──► queue of ranges ──► events producers
                                                           (rarimo core, token manager)
      bridge contracts ──► bridge producers                      │ five / two queues
                                  │                              ▼
    genesis file ──► saver        └──► withdrawals queue ──► indexers
                       │                                         │
                       └───────► PostgreSQL ◄────────────────────┘
                                  │     ▲ invalidate
                                  ▼     ▼
                          HTTP API ◄──► cache (Redis)

## 1. The parts of the system

| Part | State it keeps | Operations | What makes it hard, and what is correct |
|---|---|---|---|
| Block range producer (`services/blockranges_producer.go`) | cursor in Redis, local start | `RunBlockRangeProducer`, `produceOnce`, `produceSpecialCase` | the process may die or a call may fail between publish and save; no block is skipped, none announced before it exists |
| Queue consumer (`pkg/msgs/consumer.go`) | deliveries in rmq, retry counters | `Run`, `cleanup`, `runConsumingOnce`, `Consume` | retries, panics, cancellation, dead connections; nothing is settled without an effort |
| Publishers (`pkg/msgs/publisher.go`, `multipublisher.go`) | none | `PublishMsgs` | a call that fails may have taken effect; the multi-publisher has no caller |
| Rarimo core operations producer (`services/rarimocore_producer.go`) | page cursor per range | `Handle`, `produceMsgs` | five publishes, a cursor and an insert per page, no transaction around them; no page's events are passed over |
| Token manager events producer (`services/tokenmanager_producer.go`) | block and page cursor per range | `Handle`, `publishBlockEvents`, `publishTxEvents` | as above; the page cursor is removed in the end, the block cursor never |
| Transfer status indexers (`transfers_`, `approval_`, `rejection_`, `confirmations_indexer.go`) | `transfers.status`, evidence tables | four `Handle`s on four queues | they run concurrently and out of order; the status follows the evidence |
| Votes, withdrawals indexers | their tables | `Handle`: one batch insert | foreign keys to transactions that may come later; withdrawals that are there already |
| Items indexer (`services/items_indexer.go`) | `items`, `item_chain_mappings` | six event handlers | several writes per message, no transaction around a batch; the chain is read later than the event; rows found through a cache |
| Collections indexer (`services/collections_indexer.go`) | `collections`, `collection_chain_mappings` | five event handlers | as above, and the items indexer saves collections, too |
| Genesis saver (`services/tokenmanager_saver.go`) | the same tables, a genesis flag in Redis | `ParseAndSaveGenesis`, `SaveItem`, `SaveCollection` | several processes at once; a crash between items and mappings |
| Cached storage (`internal/data/cachedpg`) | cache by id and index, tags | fill on read, invalidate on write | invalidation inside a transaction that has not committed; entries never expire |
| PostgreSQL storage (`internal/data/pg`) | the tables | upsert, status update, selectors, pagination | the page cursor is an id under a sort by time |
| Redis key-value store (`internal/data/redis`) | cursors | `Get`, `Upsert`, `Remove` | calls that fail after they took effect |
| Bridge producers (`services/bridge_producer`) | start cursor per chain | `Run` of the Rarimo, NEAR, Solana and EVM producers | four cursor disciplines; nothing is skipped |
| `POST /buildtx` (`services/api/handlers/build_tx.go`, `pkg/txbuild`, `ethtx`, `soltx`, `neartx`) | the builders made at the start | validation, one builder per chain | two layers that ask for different fields; a nil field ends the handler |
| Balance and metadata requests (`balance.go`, `nft_metadata.go`, `internal/proxy`, `metadata_fetcher`) | none | two reads of the core, a proxy, a fetcher | the core changes between the reads; "not found" against failures that pass |
| Withdrawal stream (`withdrawal_by_hash.go`) | what it told the client | select, look up, write, sleep | transfers and withdrawals are indexed in any order |
| Transfers list, chain list (`transfer_list.go`, `chain_list.go`) | none | pages by cursor; both fill the cache | rows inserted during a walk; pages of different ages in the cache, which an insert does not invalidate; the cache shared with the indexers |
| Amounts, RPC and core clients, configuration, command line | none | conversions, I/O | see "Not modelled" |

Interaction is by queues (at least once, in rmq), by shared rows in PostgreSQL, by cursors
in Redis that only one producer writes, and by cache entries that readers fill and writers
invalidate.  The hazards of the code, with the line where each bites and the properties
that would catch it, are listed in `PROJECT.json`.

## 2. The modules

| Module | Models |
|---|---|
| `CursorLog` | abstract: an at-least-once cursor. Units are handed out in any order and repeatedly; the durable cursor only moves forward, past units handed out. |
| `BlockRangeProducer` | the block range producer, its Redis calls and the growing chain |
| `Consumer` | the consumer of one queue, with an abstract handler |
| `RarimoCoreOpProducer` | the operations producer as the handler of a `Consumer` |
| `TokenManagerOpProducer` | the token manager events producer, with an abstract consumer |
| `TransferStatus` | the four status-writing indexers, the chain and the tables |
| `CachedTransfers` | the cached queries of transfers: readers, writers, tags, commits |
| `CachedEvidence` | the cached lists of votes, confirmations, approvals and rejections |
| `EventQueue` | a queue of events whose handler works one message at a time |
| `ItemsIndexer` | the items indexer, its cache and the chain list (extends `EventQueue`) |
| `CollectionsIndexer` | the collections indexer and `SaveItem` beside it (extends `EventQueue`) |
| `GenesisSaver` | several processes that load the genesis file |
| `BridgeProducer` | a bridge producer of any of the four kinds, and the withdrawals indexer |
| `TransferPages` | a client that walks the transfers list through the cache of its pages |
| `TxBuilder` | the start of the API, the validation and the builders of deposits |
| `ItemRequests` | the balance and metadata requests, proxies and fetcher |
| `WithdrawalStream` | the server-sent events of a withdrawal |
| `*_proofs` | the theorems about the module of that name; `BothEnds_proofs` about the two components of `MCBothEnds`, `SideBySide_proofs` about the seven of `MCSideBySide` |
| `MC*` | instances for TLC |

**BlockRangeProducer.**  `pc` says at which call `produceOnce` stands: `ReadCursor` (the
`Get`), `ChooseRange`/`Return` (the node's latest block and the early returns), `Publish`,
`SaveCursor`.  Each call has a failing form, and the call may have taken effect all the
same: `PublishFails` returns from `produceOnce`; `SaveCursorFails` is only logged and the
loop goes on, as in the code; a failed `Get` changes nothing and is stuttering.  The
latest block is read when the range is chosen.  `StartRunner` publishes the configured special cases at each
start.  `published` is the set of ranges ever queued; `unsaved` is a history variable: a
published range's save was lost.

**Consumer.**  `place` says where rmq has each message.  `Consume` takes a batch,
`HandleOk`, `HandleErr` and `HandlePanic` are the outcomes of an attempt, `Finalize` acks
or rejects.  `HandleErr` follows the code in asking the *outer* context for the attempt
number (`starts`), not the counter of the handler's own retry loop (`attempt`).
`Cancel` (context done, clean-up) and `Crash` may happen anywhere.  rmq and the `running`
library are external; their behaviour is taken from how this file uses them.  The rmq
cleaner normally leaves live connections alone; the model lets it return this
connection's deliveries, too, which happens once the connection's heartbeat has ended.

**RarimoCoreOpProducer** has the consumer's variables and an `INSTANCE` of it.  A
`HandleOk`, `HandleErr` or `HandlePanic` of the consumer is joined to the step of the
handler that returns or fails; all the other consumer steps run independently of it.  `step`
follows `produceMsgs`: fetch a page, five publishes, save the page cursor, insert.  A call
that fails after it took effect is the step followed by `HandleFails`.  `Malformed` is what the
handler panics on when it reads it: a message, an operation, an event or a transaction.  `passedBy` is a
history variable: pages the handler left between the cursor's save and the insert.
Block contents are fixed: a range has `Pages[r]` pages.

**TokenManagerOpProducer.**  `BeginBlocks` is a call of `produceMsgs` for any range.
`FetchBlock`, `PublishBlock` (twice), `SaveBlock` are the loop of `publishBlockEvents`,
`FetchPage`, `PublishPage` (twice), `SavePage`, `InsertTransactions` the one of
`publishTxEvents`; `BlocksDone` and `Finish` are their exits.  `LeaveOff` is a failed call, a
panic or a crash at any point; a call that fails after it took effect is the step followed by
`LeaveOff`.  The consumer is reduced to what this handler can observe: one range at a time,
any range again.  `again`, `leftOff`, `passedBy` and `late` are history variables; an
element of `sent` stands for all events of one block or page in one queue, which one
`PublishMsgs` call adds at once, even if there are none.

**TransferStatus.**  Submitting, approving, rejecting and signing an operation on the
chain puts a message on one of four queues; the four handlers work on disjoint batches
concurrently.  `Apply` is the one database transaction of an evidence indexer.  The
transfers indexer takes several steps per transfer: the operation is fetched
(`GetOperation`), the three tables are read one by one, and the batch is
upserted at the end (`UpsertBatch`).  Failures, crashes and repeated publishes are
`Redeliver`, `GiveUp` and `Republish`, bounded together by `MaxRepeats`.  A handling that
fails for another reason (a missing foreign key, a transfer twice in one batch) is one of
those.  `raced` and `behind` are history variables that name the two races of the code:
evidence stored after the transfers indexer had looked for it, and evidence handled after stronger
evidence of the same transfer.

**CachedTransfers.**  A row is its status; a selector is the set of statuses it lets pass,
so that a list is the rows with such a status.  A writer either upserts a batch, which
commits at once, and invalidates then, or updates a status inside a transaction
(`SetStatusByIndex`), invalidates, and commits or rolls back afterwards; the rows of an
open transaction are locked.  A reader selects, then sets its entries one by one
(`PutList`, `CacheEveryTransfer`).  An entry is found again only through the tag of its
*last* transfer (`IndexTags`): the loop of `transferTags` overwrites its own map.  `outrun`
is a history variable: entries that outlived a write, by one of three ways.

**CachedEvidence.**  A list is its length, since rows are only added.  A list that is not
empty is cached and never invalidated.  The table of votes has many rows per transfer,
those with a unique index one.  Inserting a batch of votes is the whole of the votes
indexer.

**EventQueue, ItemsIndexer, CollectionsIndexer.**  The queue is in order; a batch is its
first messages; each message is one or several steps of its handler (`pc`), `Advance` or
`FailHere` at their end.  A failure begins the batch again at its first message, so that
handled messages are handled twice; after the last attempt the batch is given up (`lost`).
`Crash` puts the batch at the tail and `Repeat` publishes an old event again
(`disturbed`).  The chain changes at any time, and the handlers read its current state.
Each indexer has one item or collection, which may be removed and created again under a
new id; that is what makes an outdated cache entry wrong.  `found` is the row the handler
holds between its steps, `misled` the history variable that it was not the row of the
table, `outrun` as above.  Of the items' cache there are the entries by index, by id and
the list of a network's items, with tags that mix item ids and network ids as the code
does; `MappingsByNetwork`, `ItemByID` and `FillCache` are the chain list request that fills
it.  In `CollectionsIndexer` the `Saver*` actions are `SaveItem` of the items indexer, which
finds or saves the collection at the same time; `late` says that it saved one which was gone
from the chain.

**GenesisSaver.**  The file is there or not, and the database refuses the on-chain data of
some of its entries.  Each saver walks the collections, each in a transaction with its
data, then inserts the items and remembers them, then inserts the mappings of those it
remembers in any order.  A process that ends forgets what it remembers; `left` is the
history of what was forgotten.  `parsed` is the flag the code never sets.

**BridgeProducer.**  One `Run` for all four kinds; `Plan` is what the kind publishes and
saves from where it stands: Rarimo a block at once, NEAR a transaction at a time, EVM
each event with its block as the cursor, Solana the newest page before the
cursor, backwards.  `Restart` asks for the initial cursor again, which
matters while none is saved.  `Handle` and `GiveUp` are the withdrawals indexer and its
consumer.  `passed`, `newest` and `top` are history variables.

**TransferPages.**  A transfer is its id, with a time.  A page holds the first transfers
beyond the cursor, in the order asked for, ties as the database likes; the next cursor is
the id of the last of them.  `cache` has a page under each cursor (the rest of the selector is
the walk's own and does not change); it does not expire, an `Insert` leaves it alone, and
`Invalidate` stands for the writes that reach a page through the tag of its last transfer.
`Select` and `Set` are other clients of the same list, who may put a page in late; `Hit`,
`Miss` and `End` are the three answers the walking client gets.  A page carries the number of
transfers there were when it was read, of which `known` is the least: history of the property.

**TxBuilder.**  A request is which of its fields are present and which of them decode.
`ValidateBuildTx` and the `Valid*` operators are the handler's validation, `Build*` the
builders with what they ask for.  `Complete` reads the request as the API's own schemas
describe it; `Unbuildable` names the documented deposits that are not built.

**ItemRequests.**  One request to one item and one chain.  `ReadItem` and `ReadData` are the
two calls of the core, and `Change` happens between them; at any other time a change is
another initial state.  `BalanceOf`, `NftMetadata` and `GetMetadata` are the proxy and the
fetcher by what they tell apart: schemes, 404s, other failures, documents of no use.  `Uris`
tells an empty uri from one without a known scheme, `Served` the 500 of a gateway that finds
no such link from its other failures.

**WithdrawalStream.**  The loop of the handler in four steps, the storage filled by
`IndexTransfer` and `IndexWithdrawal` at any time.

**MCSideBySide.**  `GenesisSaver`, `BridgeProducer`, `CachedEvidence`, `TransferPages`,
`TxBuilder`, `ItemRequests` and `WithdrawalStream` share no state.  One run checks
them together: `moving` picks the one that moves, one of `Components`, and the others stay
in one initial state.  The state space is their sum, not their product, and each instance is
complete.  A second run has `TransferPages` alone, with more transfers.

**MCBothEnds** does the same for `RarimoCoreOpProducer`, where the way of a transfer begins,
and `CachedTransfers`, where it ends.

## 3. What the runs check

| Run | Bounds | Shows |
|---|---|---|
| `block_range_producer` | height 5, limit 2, a special range | `CursorCovered`: no block below the saved cursor is unpublished. `FreshUnlessUnsaved`, the refinement of `CursorLog`, and under fairness `EveryBlockAnnounced` |
| `block_range_handled` | the same | **violated**: `EveryBlockHandled` (see below) |
| `consumer` | 3 messages, prefetch 2, 2 attempts, 3 runs, 2 starts | `SettledOnlyAfterEffort`, and under fairness `ReadyIsSettled` |
| `consumer_loss` | 1 message, 2 attempts | **violated**: `NothingLost` |
| `both_ends` | 2 messages of 2 ranges, of 2 pages and 1, 2 runs, batches of 2; 2 transfers, 2 writers, 1 reader, 2 selectors, 2 writes | the producer: `PageCursorCovered`, `HandledIsSent`, `RowsMissingOnlyIfPassedBy`, `ImplementsCursorLog`; the cached queries: `FreshUnlessOutrun` |
| `token_manager` | ranges [1, 3] with two pages and [4, 4] with one, 4 deliveries | `CursorsCovered`, `HandledIsSent`, `BlocksInOrder`, `RowsMissingOnlyIfPassedBy`, `ImplementsCursorLog` |
| `transfer_status` | two transfers with one repeat, or a resubmitted transfer with two | `StatusFollowsEvidence`, `QuietIsChain` |
| `items_indexer` | 5 events, 5 ids of rows, batches of 2, 2 attempts, 1 fault, a supported network and one that is not | `QuietIsChain`, `CachedItemFresh`, `CachedListComplete` |
| `collections_indexer` | 5 events, 6 ids of rows, 1 fault, 1 item saved, two networks, one unsupported, 2 values | `QuietIsChain`, `CachedCollectionFresh`, `LostForAReason` |
| `side_by_side` | see below | the saver: `MissingMappingsAreLeft`, `DoneIsSaved`, `SaversFinish`; the bridge: `CursorCovered`, `StoredAtLast`; the evidence cache: `CachedListSound`; the API: `NotBuiltForAReason`, `CrashOnlyOnUndecodedId`, `ServedUnlessDisturbed`, `NotFoundOnlyIfMissing`, `LostOnlyToNewer`, `ListenerLearns` |
| `transfer_pages` | 3 transfers at 2 times, pages of 2, one other reader | `WalkSeesAllOnce` |
| `bridge_solana` | page 2, height 2, 2 withdrawals, 1 fault | **violated**: `SolanaStoredAtLast` |

`collections_indexer` and `side_by_side` check a type invariant, too; those of the other
modules are proved and not checked again.

*Why the bounds are enough.*  Five blocks with a limit of two give a range of one block,
full ranges and a clipped one, with crashes in between.  Three messages with a prefetch
limit of two keep one waiting while a batch fails; three runs let a message be orphaned,
returned and orphaned again.  Two ranges in a batch of two show a failure in the second
after the first is finished, and a redelivery that starts the first from page 1 (the
theorems hold for several messages of one range, too).  Four deliveries of two ranges let
one be left off twice in different passes and then be delivered once more after it was
finished; [4, 4] is the case in which the range's end is one of its blocks.  Two transfers
in one batch show the window between the first look-up and the upsert; one repeat per
behaviour is enough for a redelivery, a lost batch or a repeated publication
of any queue, and a transfer that is resubmitted has two.

Two transfers are the least for a list whose tag is that of the other one; two writes
are an upsert and a later status, from two writers whose steps overlap, and one reader is in
the middle of its fill.  Five events are an item or collection created, mapped, removed,
created again and mapped again under the new id; the supported network has the number of the
second row's id, so that the shared tags collide.  One fault is a failed call, a
crash or a repeated event anywhere.

In `side_by_side`: two savers with two collections, two items and one crash; a bridge with
two blocks, three withdrawals and a page of two, so that Solana's has a second page and a
block has several withdrawals, and one fault; two evidence tables, of one row and of many
per transfer, two transfers and two readers; the list with two transfers; the chains of
`configs/api.yaml` without and with Rarimo and a chain of another type, and every request; every item, token type and request with one change between
the reads; a transaction with two transfers at two times, one failure of the storage.

In `transfer_pages`, three transfers in pages of two give a full page, one that is not, and a
page cached before the third was inserted; times may be equal and may change.  With two times
a walk by time counts with two transfers only; by id it has all three, and the theorem any
number of either.

*Deadlock* is checked for the block range producer only: it can crash and restart for
ever.  In the other runs the messages, events, writes or requests are bounded, so the
system stops.

*Fairness.*  `running.WithBackOff` calls `produceOnce` again whatever it returned, so
each call of the producer that is possible again and again succeeds at last (strong
fairness: a failure sends it back, so the call is not continuously enabled); a stopped
process is restarted by its operator.  For the consumer, `Run`, `Consume` and the ack
are loops that go on until they succeed (weak fairness); rmq takes messages in
order, so none is passed over for ever (strong fairness of `Prefetch`, which the prefetch
limit disables now and then).  A runner that panics is not restarted while the process
lives (`internal/cli/main.go:79`); the liveness results hold from the restart on.  The
bridge producers run under `WithBackOff`, too, with bounded faults, so weak fairness of their
steps is enough; the withdrawals indexer takes all that is in its queue.  A saver that
panicked is started again by its operator, and its steps are not held up for ever.  The
stream's handler loops as long as the process lives; nothing is assumed of the client.  No
fairness is assumed where no liveness is stated.

*Disagreements with what the repository says.*  Three are runs that TLC finds violated:

- The last block of every range of several blocks is in no query: the producer goes on at
  `end + 1`, the consumers ask for heights below `end`.
- A batch whose attempts are used up is acked, not kept for a manual retry: the attempt
  number comes from the wrong context.
- Solana's producer starts at the newest page and moves its cursor back, page by page; what
  arrives after the first page is before no cursor and is never asked for.

The properties that pass say exactly how far others go.

- `RowsMissingOnlyIfPassedBy`: a page's transactions are lost if the handler leaves off
  between the save of the cursor and the insert; events are published before their
  transactions are stored.
- `BlocksInOrder`: the token manager producer queues the block end events of a whole range
  before the first transaction event, so events of one collection or item can be queued
  out of order; those of the blocks are in order.
- `StatusFollowsEvidence`, `QuietIsChain` of `TransferStatus`: a transfer's status is not
  the cumulative state of its events if evidence arrives between look-up and upsert (the
  code's own FIXME), if an approval is handled after the confirmation, or if a transfer is
  resubmitted after a rejection.
- `FreshUnlessOutrun`: a cached list shows outdated transfers for ever, since only its last
  one has a tag that reaches it; and an entry filled between the invalidation and the commit
  stays.  `WalkSeesAllOnce`: a cached page of the transfers list stays as it is when a transfer
  is inserted, so that a walk from the newest to the oldest does not see what was inserted
  after the oldest of its pages was read: with pages of two, [3, 2] is cached, transfer 4
  comes, and a walk that begins then sees 3, 2 and 1.  `CachedListComplete`: a removed mapping
  stays on the cached list of its network.
- `MissingMappingsAreLeft`: an item whose saver ended before its mappings never gets them; of
  two processes that load the genesis at once one may panic, though `CHANGELOG.md:24-25` says
  the parsing was changed to omit races.  `is_genesis_parsed` is never set to true, and
  `disabled` only logs (`saver.go:43-45`).
- `LostForAReason`: an unsupported chain makes the collections indexer fail and give its
  batch up, while the items indexer skips it; a collection with items cannot be removed.
- `NotBuiltForAReason`: documented deposits are not built (`Unbuildable`): a token id in hex
  (`EthTxData.yaml:29`) where a decimal is read; an account without `0x`
  (`AccountExternalIDKey.yaml:8`); a wrapped flag left out; an ERC-721 without an amount; any
  fungible token of Solana.  With a Rarimo chain among its chains, as in
  `configs/api.yaml:75`, the API panics at its start.  The bridge contracts are read once, at
  the start (`builder.go:43`), where `v1@buildtx.yaml:8` promises the most fresh one.
- `CrashOnlyOnUndecodedId`: such ids end the handler by a nil dereference.
- `NotFoundOnlyIfMissing`, `ServedUnlessDisturbed`: failures that may pass are internal
  errors.  The metadata are those of the item's own token, labelled with the token id of the
  request (`nft_metadata.go:96`); a token that is none wraps an error that is nil; a token
  that NEAR answers null for ends the handler; a malformed ERC-1155 id is an internal error.

Seen while modelling, and covered by no property: `TransferByIndexCtx` panics on an unknown
index; the cached query of withdrawals keys its entries inconsistently and would
dereference nil (`cachedpg/withdrawals.go:41,50`), but the API reads the raw storage; the
chain list fails unless a page holds every network; NEAR transactions use the access key's
nonce as it is; an account id that was formatted without `0x` cannot be decoded again; the
comment of `amount/main.go:9` says 18 digits, the constant 24; a transfer's resource id is its
database id while `GET /transfers/{id}` takes the index in hex.

## 4. What is proved

TLAPS proves, for all values of the constants that satisfy the modules' assumptions:

| Theorem | Property |
|---|---|
| `BlockRangeProducer_proofs`: `TypeCorrect`, `NoBlockSkipped`, `NoPhantomBlock`, `NoNeedlessRepeat`, `CursorNeverRewinds`, `Refinement` | `TypeOK`, `CursorCovered`, `PublishedExist`, `FreshUnlessUnsaved`, `CursorMonotone`, `ImplementsCursorLog` |
| `Consumer_proofs`: `TypeCorrect`, `NoEarlySettling` | `TypeOK`, `SettledOnlyAfterEffort` |
| `BothEnds_proofs`, the operations producer: `ConsumerRefinement`, `TypeCorrect`, `NoPageSkipped`, `NoEarlySuccess`, `OnlyOneGap`, `Refinement` | the producer implements `Consumer`; `TypeOK`, `PageCursorCovered`, `HandledIsSent`, `RowsMissingOnlyIfPassedBy`, `ImplementsCursorLog` |
| - the cached transfers: `CacheTyped`, `CacheFresh` | `TypeOK`, `FreshUnlessOutrun` |
| `TokenManagerOpProducer_proofs`: `TypeCorrect`, `CursorsNeverPass`, `NoEarlySuccess`, `BlocksNotRepeated`, `OnlyOneGap`, `InOrder`, `Refinement` | `TypeOK`, `CursorsCovered`, `HandledIsSent`, `BlocksAgainOnlyIfLeftOff`, `RowsMissingOnlyIfPassedBy`, `BlocksInOrder`, `ImplementsCursorLog` |
| `TransferStatus_proofs`: `TypeCorrect`, `StatusIsEvidence`, `QuietStatusIsChain` | `TypeOK`, `StatusFollowsEvidence`, `QuietIsChain` |
| `ItemsIndexer_proofs`: `TypeCorrect`, `CacheHoldsTheRow`, `ListsHaveTheMapped`, `QuietTablesAreTheChain` | `TypeOK`, `CachedItemFresh`, `CachedListComplete`, `QuietIsChain` |
| `CollectionsIndexer_proofs`: `TypeCorrect`, `CacheHoldsTheCollection`, `QuietTablesAreTheChain`, `GivenUpForAReason` | `TypeOK`, `CachedCollectionFresh`, `QuietIsChain`, `LostForAReason` |
| `SideBySide_proofs`, all components: `TypesCorrect` | `TypesOK` |
| - the genesis saver: `TypeCorrect`, `OnlyLeftItemsMissMappings`, `DoneSaversSaved` | `TypeOK`, `MissingMappingsAreLeft`, `DoneIsSaved` |
| - the bridge producers: `CursorLeavesNoneBehind` | `CursorCovered` |
| - the evidence cache: `EvidenceStays` | `CachedListSound` |
| - the transfers list: `WalkIsComplete` | `WalkSeesAllOnce` |
| - the deposits: `DepositIsBuilt`, `OnlyAnIdCrashes` | `NotBuiltForAReason`, `CrashOnlyOnUndecodedId` |
| - the item requests: `RequestIsServed`, `NotFoundIsMissing` | `ServedUnlessDisturbed`, `NotFoundOnlyIfMissing` |
| - the withdrawal stream: `ToldIsKept` | `LostOnlyToNewer` |

The assumptions are those a module states next to its constants: bounds are natural numbers, a
batch, a page or a range limit is at least one, `None` is no number.  Nothing is assumed of
the sizes, so that the theorems hold for any number of messages, blocks, rows, faults.

Each proof has one inductive invariant.

- *BlockRangeProducer.*  `CursorCovered` alone is not inductive: it speaks of the saved
  cursor, while the producer goes on from a local `start` that may lead it after a failed
  save.  The invariant adds that everything below `start` is published while the producer runs,
  that `Cursor <= start` there, and what holds of `end` between the choice of a
  range and its save.
- *Consumer.*  The invariant ties the batch to the deliveries (its messages are unacked),
  `tried` to `attempt` while the batch is handled, and says what a batch due for finalizing
  has behind it: a success or all attempts.
- *RarimoCoreOpProducer.*  The consumer's invariant holds of its instance; the invariant
  adds what is published at each step of the handler: pages below `page`, queues below
  `queue` of the current page, and all pages of the messages of the batch before `idx`.
- *TokenManagerOpProducer.*  `Progress` says what has been sent beyond the cursors at each
  step and that the block pass is over during the page pass, `CursorInRange` that the block
  cursor stays in its range; `HandledIsSent` needs both at `Finish`.  `SentBeyond` bounds the
  block events in the queues that the cursor has not passed: they are of the block at hand
  or of one the handler left off at.  `BlocksAgainOnlyIfLeftOff` rests on it.  `BlocksInOrder`
  has an invariant of its own: pages are sent only when the block cursor is at the end
  (`PagesAfterBlocks`), and no block was left off that it has not come to (`LeftOffBehind`).
- *TransferStatus.*  A row's status was made earlier, from look-ups earlier still, so the
  invariant says of the statuses being made (`MadeFollows`) and of the look-ups done so far
  (`StageFollows`) what `StatusFollowsEvidence` says of rows; evidence that arrives in between
  is in `raced`.  `QuietIsChain` needs that every published message is queued, at
  hand, given up or handled (`Accounted`), and what the published messages tell of
  the operation (`OnChain`).
- *CachedTransfers.*  `TagsCover`: every entry is in the set that the tag of its last
  transfer names, so that an invalidation of that transfer removes it; `OpenOutrun`: an entry
  whose last transfer an open transaction has invalidated is in `outrun` already, since the
  commit itself touches no entry.
- *ItemsIndexer.*  The cache is fresh because a write locks the row and drops its entries
  first, and who caches a row later knows whether it is outdated (`ItemEntries`,
  `ListEntries`; `AtHand` ties what the handler has in hand to its label).  That the tables
  follow the chain is no invariant of the rows: a batch that starts again handles messages a
  second time, and in between the tables go back to what they were.  What stays true
  (`InOrder`) is that the last message about a subject, of those at hand or waiting, tells the
  chain's state, and that the table tells it when none is left; for the seed also that a
  message of its removal comes next to the one that created it (`SeedRemovals`), since the
  handler removes only the seed the message names.
- *CollectionsIndexer.*  `CacheEntry`, `AtHand` and `SaverAtHand` for the cache, and `InOrder`
  for the tables, as for the items; `late` is excepted there, too, since `SaveItem` may save
  a collection after its removal was handled.  `LostForAReason` is about a whole history, and
  the invariant turns it into one of states: as long as nothing was removed, unknown or failed
  (`Calm`), the messages left to handle are in the order in which the chain can emit them, the
  collection once and first, the data of a network once and before its updates, and the tables
  have exactly what those messages do not announce (`InLine`).  So a creation finds no row, its
  data finds the collection, and an update its mapping (`CalmIsSmooth`).
- *GenesisSaver* (`GenesisIInv`).  `OfItems`: what is remembered, left or mapped is an item with a row, so
  that a saver who inserts a new item remembers one that no other does; `Passed`: the entries
  before a saver's place in its loop are in the tables.
- *BridgeProducer* (`BridgeIInv`).  Of the place a run stands at what `CursorCovered` says of
  the cursor (`StartCovered`), and of each step of a plan that its save leaves nothing behind
  that was not published by then (`PlanCovered`), which is proved once for each of the four
  kinds from how it makes its plan.
- *CachedEvidence* (`EvidenceIInv`).  What a reader holds is no more than the table has.
- *TransferPages* (`PagesIInv`).  A page, cached or in a reader's hands, has no gap: whatever the
  table had between its cursor and its last transfer when it was read is on it
  (`PageSound`), which inserts do not change, since new ids are beyond all others.  So a walk
  along the ids has seen all on its side of the cursor, as far as its pages knew, and
  nothing beyond (`AlongIds`).
- *TxBuilder* (`BuilderIInv`).  An API that is up knows only chains it has builders for (`Up`),
  so that an answer is the one of `Build` (`Answered`).
- *ItemRequests* (`ItemIInv`).  What is in hand at each step is what the chain has, unless that
  changed (`InHand`).
- *WithdrawalStream* (`StreamIInv`).  What was told is in the storage (`Told`), and the transfer
  selected was the newest one when it was (`Selected`).

`OneMoves` takes a step of `MCSideBySide` or `MCBothEnds` apart: each component takes a step
of its own or stutters, so that the invariants are proved of one component each.  The
theorems of the operations producer are about its own `Spec`; `ProducerAlone` says that a
behaviour of `MCBothEnds` is one of it.

The refinement theorems map each step to a step of the abstract module or to a stutter.

Three attempts at a proof found flaws of the models, which are corrected: conditions of a `CASE`
in `TxBuilder` and `ItemRequests` that overlapped, so that its value was TLC's choice of the
first; ids in `ItemsIndexer` whose number was bounded by that of the events, although a batch
that is handled again inserts a row again (`MaxIds` bounds them now); and a malformed message
of the operations producer, which could make a later step of the handler fail.

*Only model-checked:* liveness (`EveryBlockAnnounced`, `ReadyIsSettled`, `SaversFinish`,
`StoredAtLast`, `ListenerLearns`): fairness and ENABLED are out of the prover's reach.  Every
invariant and every action property of a run is proved.  *Only proved*, since a run would repeat it: `PublishedExist`,
`CursorMonotone`, `BlocksAgainOnlyIfLeftOff`.

## 5. What is not modelled

- The RPC, gRPC and core clients, the rate limiter, configuration and command line are I/O;
  how their calls fail is in the modules that make them.  The restart of runners is in the
  fairness; which commands share a process is in `GenesisSaver` only.
- Of amounts only the panic at too many decimals is there (`AmountFromBig`); their
  arithmetic has no states.
- Of metadata there is which documents are of use, not what is taken from them, nor the
  credentials of the IPFS gateways.
- The rendering of responses, `GET /transfers/{id}`, generated contract bindings, and
  the queries nobody calls, the multi-publisher among them.
- Foreign keys between tables that different producers fill, and a transaction index of the
  node that lags behind its latest block, except as failures: `Pages` is constant, the index
  complete.  Duplicates within one batch appear as a batch that fails.
- `TransferStatus` reads the tables where the code reads through its cache: of the evidence
  tables only lists that are not empty are cached (`CachedListSound`), and "there is
  evidence" is all that the indexer asks.
- `EventQueue` has one consumer of the queue and keeps its order, `Consumer` has the details
  of settling; the two are not composed.

## 6. Plan

Done: every module is checked, and each of their safety properties is proved.  Left, in this
order:

1. `BridgeProducer` as a refinement of `CursorLog` for the kinds whose cursor is a block.
2. `Pipeline`: the range producer, an events producer and an indexer composed, with the
   foreign keys to transactions and a lagging transaction index.
3. Amounts: conversion between a chain's decimals and the fixed precision, against a
   reference over bounded inputs.
