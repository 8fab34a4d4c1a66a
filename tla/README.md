# bitcoin-chain-graph: specification and proofs

`bitcoin-chain-graph` reads blocks from Bitcoin Core and writes them to Neo4j as
a graph of blocks, transactions, inputs, outputs and addresses. This directory
holds TLA+ modules that model the program, TLC configurations that check them on
small instances, and theorems that TLAPS proves for every instance.

Source paths below are relative to `src/` of the repository's snapshot, that is
`src/main.rs` is the command line program.

## 1. The system

### Components

| Component | Where | State it keeps | Operations |
|---|---|---|---|
| Live command | `src/main.rs` 623-1206 | `current_height`, failure counter, shutdown token, `ShutdownHeightTracker` | catch-up loop, subscription, real-time loop, reorg handling, final save |
| Streaming commands | `src/main.rs` 183-558 | read-ahead batch, block counter | `ingest`, `resume`, completion save |
| Ingestion orchestrator | `src/domain/ingestion.rs` | UTXO cache, snapshot path | `ingest_blocks_batch`, `ingest_block`, `validate_parent_hash`, `rollback_to_height`, `sync_checkpoint_with_db` |
| UTXO cache | `src/domain/utxo/cache.rs` | 16 LRU shards, statistics, pre-warm flag | insert, lookup, remove, pre-warm, save, load |
| Shutdown tracker | `src/domain/shutdown_height.rs` | last committed height | record, read |
| Neo4j writer | `src/writer/neo4j/` | connection pool, `active_txn` | batched writes with retry, transactions, checkpoint, rollback queries |
| Graph | Neo4j (external) | nodes, relationships, `IngestionCheckpoint`, uniqueness constraints | |
| RPC provider | `src/parser/rpc_provider.rs` | none | tip, block hash, block, parallel batch, three attempts per call |
| ZMQ listener | `src/parser/zmq_listener.rs` | socket, last sequence number, counters | connect, receive with timeout, reconnect with backoff |
| Block files and index | `src/parser/block_index.rs`, `block_file.rs`, `single_block_loader.rs` | index of heights, loaded window | main chain walk, batch index, pre-warming |
| Mock writer | `src/writer/mock.rs` | in-memory tables | test double of the writer |
| Models, addresses, configuration | `src/domain/models.rs`, `src/parser/address.rs`, `src/config/` | none | conversions |

### Interaction

The live command is one asynchronous task. It calls the RPC provider for the tip
and for blocks, hands blocks to the orchestrator, and waits for the listener or
for the shutdown token in a `select!`. The orchestrator compares a parent hash
with the graph, opens a transaction through the writer, writes the layers of a
chunk of blocks in phases, moves the checkpoint inside the same transaction,
commits, and saves the cache to a file. A signal task cancels the token at any
moment. Bitcoin Core changes its chain at any moment, and publishes its new tip
to whoever is subscribed then. Neo4j and the cache file survive the process; the
rest does not.

### What is hard

* **Reorganisations** between any two RPC calls: while a batch is in flight,
  while the process is down, while it catches up, while it handles another one.
* **Crashes and failing queries** between two auto-committed queries of a
  rollback, around a commit, between the commit and the snapshot.
* **Shutdown** arriving anywhere, seen at three places of the catch-up and in
  one `select!`, which may prefer a ready notification to it.
* **Lost and merged notifications**: one notification may stand for many blocks,
  many may stand for nothing new.
* **Recovery**: a restart must find out, from the graph alone, what is whole.
* **Limits**: cache shards that evict what is still needed, chunk budgets,
  retries that repeat what was done.

PROJECT.json lists each of these as a hazard at its line, with the properties
aimed at it.

### What makes each component correct

* Live command and rollback: the graph is one chain, a prefix of a chain of the
  node, except within a rollback; it only grows at its end and is only cut at its
  end; a process keeps going until its node has nothing more.
* Checkpoint synchronisation: nothing checkpointed is undone, nothing stored is
  at or above the height resumed from, what is kept is whole; the writers leave
  nothing above the checkpoint but what it can judge.
* Cache snapshot: its height names what the store holds.
* Batch ingestion: every transaction's totals are the sums of its inputs and
  outputs; a failed chunk leaves nothing.
* Writer: what is checkpointed is whole, and what a failed attempt leaves behind
  neither counts as data nor stops the next attempt.
* Streaming: every block up to the limit is ingested once and in order, the cache
  file can be read whenever the process dies, and what the cache lost is found in
  the graph.

## 2. Modules

| Module | Content |
|---|---|
| `BlockTree` | blocks, heights, parents, and the chains the node may have |
| `StoredChain` | the abstract specification: one chain that grows at its end and loses its last block |
| `BlockStore` | the abstract specification of a writer of blocks: how block nodes, transactions and the checkpoint change |
| `LiveSync` | the live command with the orchestrator, the node, the graph and the file |
| `MCLiveSync` | block trees for TLC |
| `LiveSyncProofs` | theorems that hold in every environment, and those for a node that never reorganises |
| `LiveSyncReorgProofs` | theorems through reorgs; `LiveSync` implements `StoredChain` |
| `UtxoCache` | the sharded LRU cache: insert, lookup, remove |
| `BatchChunk` | the phases of one chunk with the cache, the graph and the snapshot |
| `MCBatchChunk` | blocks and transactions for TLC |
| `BatchChunkProofs` | theorems about `BatchChunk` |
| `ChunkWriter` | how chunks are cut and written: queries, the transaction, parallel tasks, retries |
| `MCChunkWriter` | four blocks with a BIP30 pair for TLC |
| `ChunkWriterProofs` | where the orchestrator, the transaction and the tasks can be: types and control |
| `ChunkFactProofs` | what the graph holds then: theorems about facts |
| `BlockIndex` | Bitcoin Core's block index as a scan in hash order |
| `StreamingIngest` | `ingest` and `resume` with the loader, the cache, its pre-warming and its file |
| `StreamingProofs` | theorems about the index and what `ingest` and `resume` store |
| `StreamingCacheProofs` | theorems about their cache, its file and the PERFORMS edges |
| `DataLemmas` | induction over numbers, sequences and finite sets, in a form the provers can use |
| `MCStreamingIngest` | blocks, outputs and scan orders for TLC |

### LiveSync and the code

State:

| Variable | In the code |
|---|---|
| `canon`, `pending` | the node's active chain; notifications queued in the subscribed socket |
| `graph` | per block, which of its layers the graph holds: block node, outputs, transactions, inputs |
| `checkpoint` | the `IngestionCheckpoint` node |
| `snapshot` | the height in the header of the cache file |
| `pc` | where the process is; `down` when there is none |
| `current`, `top`, `batch`, `height`, `fork` | `current_height`; the last height of the batch or `effective_tip`; fetched blocks; the loop variable of the innermost loop; `fork_point` |
| `committed` | `ShutdownHeightTracker.last_committed_height` |
| `failures`, `connected`, `shutdown` | `consecutive_failures`; the listener has a socket; the token |

Actions, in the order of `run_live_ingestion`:

* startup: `Launch`, then `ResumeFromCheckpoint`, or `BeginWalk` with
  `FoundComplete`, `FoundIncomplete`, `DeleteLayer`, `UndoneIncomplete`,
  `WalkedToCheckpoint` for the walk of `sync_checkpoint_with_db`;
* catch-up: `BeginFetch`, one `FetchBlock(k)` per height in any order,
  `Fetched`, `IngestChunk`, `IngestLastChunk`, `ChunkRejected`, `ChunkFails`,
  `LeaveCatchup`;
* transition: `MaxReachedInCatchup`, `Connect`, `ConnectFails`;
* real time: `Receive`, `ReceiveFails`, `ReceiveGivesUp`, `Reconnect`,
  `StopOnSignal`, `AskTip`, `IngestBlock`, `BlockRejected`, `BlockFails`,
  `LoopAgain`, `StopAtMaxHeight`;
* reorg: `ReorgDetected`, `ChainsDisagree`, `ChainsAgree`, then `DeleteLayer`
  and `RolledBackBlock` per block and `RolledBack` for the checkpoint;
* environment: `NewTip`, `Signal`, `Crash`, `RpcFails`.

`Env` says which of the environment's moves an instance has, so that a run can
ask a question about one of them. The steps are as fine as what another actor
can see or a crash can cut: one RPC answer, one auto-committed query, one
committed transaction with the snapshot that follows it.

Choices worth knowing:

* A chunk is one step, because its writes are one database transaction. Its
  commit may report an error after it was applied (`ChunkFails`).
* Where the memory budget ends a chunk is left open up to `ChunkSize`.
* `Insertable` is the uniqueness constraints of `schema.rs`: a CREATE fails if
  the block, or another block of its height, is there. A transaction that two
  competing blocks share fails in the same way as `ChunkFails`.
* Inputs and outputs can only be deleted through transaction nodes, and these through
  the block node (`Attached`), as the rollback queries do.
* The node's chain never gets shorter. Chains of an instance share their genesis
  block, so the error of `find_fork_point` for foreign chains cannot occur.
* `get_block` cannot return `None` (`rpc_provider.rs` 206-216 compares the
  outermost message of the error), so the branch for it is not modelled.
* The store left by a dying `ingest_block` (`PartialStore`) is an initial state:
  the library offers that function, the commands do not call it. The checkpoint
  of such a state is at 0 or higher because `checkpoint_height as u32 + 1` panics
  in a debug build when it is -1. The state between the transactions and their
  HAS_OUTPUT links is not represented.
* A failing `verify_connection` is `RpcFails` at the beginning of the catch-up; a
  signal during the pause after a failed receive is `StopOnSignal`.

### UtxoCache and BatchChunk

`UtxoCache` describes a cache by the place each output has in the recency list of
its shard. `Put`, `Touch` and `Pop` are what `insert`, a lookup and `remove` do to
it; `get_many` and `remove_many` are sequences of them.

`BatchChunk` opens the step `IngestChunk` of `LiveSync`. `Begin` takes a chunk that
continues the stored chain; `Hit`, `LookUpMisses` and `Refill` are the prefetch;
`Create` is the cache's half of Phase 2; `Resolve` is Phase 3b; `Spend` is Phase 7;
`Commit` makes the totals visible and saves the snapshot. `RollbackBlock`, `Die`,
`DieAfterCommit`, `SaveAndStop` and `Launch` are what may happen around it. Every
error ends the command, so a failed call and a crash are the same `Die`.

* A total is represented by the set of inputs added up (`counted`). Phases 3c to 6
  write what was computed; nothing between Phase 3b and the commit changes it.
* Within a phase the code goes through the transactions in order; the model takes
  any order, which only adds orders of eviction.
* A chunk may create more outputs in a shard than the shard holds. `Crowded` names the
  outputs and transactions this can concern, `Roomy` excludes it.
* The cached value of an output is fixed by its key, so a stale entry is never
  wrong, only useless. BIP30 duplicates, for which this fails, are left out.
* Chunks are linked. `v_straddle` shows that this can fail; the inputs of such a
  chunk may be in no stored block.

### ChunkWriter and the code

`ChunkWriter` opens the same step as `BatchChunk` on the other side: what reaches
Neo4j. It has both ways the code writes a block: `mode` is `"batch"` for
`ingest_blocks_batch` and `"single"` for `ingest_block`.

The graph is a set of facts, a node or relationship each; `Effect` says which facts
each query of `queries.rs` adds to those it sees, with the relationships it makes
only if it finds both ends. `HAS_OUTPUT` facts are numbered, since a CREATE adds one
more each time; other relationships are made by MERGE or together with a node whose
key is unique. `txn` is `active_txn` of the writer with what was written in it.

| Action | In the code |
|---|---|
| `Launch` | `sync_checkpoint_with_db` with `check_block_complete` and `rollback_block`, in one step |
| `NextBatch` | the caller's next `READ_AHEAD_BLOCKS`, or its next block |
| `Scan`, `ScanEnds` | `compute_adaptive_chunks`, one iteration per step |
| `Begin`, `Commit`, `Rollback` and `BeginFails`, `CommitFails` | the calls around `process_batch_chunk`; a failed commit may have been applied |
| `Write` | one query of the phases 1 to 5, through `execute_batched`; `AutoCommits` says which do not use the transaction (`write_outputs`, the variant for BIP30) |
| `WriteFails`, `AttemptFails` | a query in the transaction, and an attempt of `run_with_retry`, applied or not |
| `Spawn`, `TaskLooks`, `TaskWrites`, `TaskFindsClosed`, `TaskFails`, `Await` | Phase 6: one task per bucket, which looks for the active transaction once and writes later; the tasks are awaited in order and the first error is returned |
| `UpdateCheckpoint`, `UpdateCheckpointFails` | `update_checkpoint` |
| `Exit`, `Crash` | the error reaches `main`; the process dies |

`adopted` records the heights the synchronisation took over because their
transactions were there, `collided` whether a CREATE met its node.

* A block has one transaction with one output and one input. A BIP30 duplicate is a
  later block with the same transaction (`TxOf`).
* Queries are cut at block boundaries, so `batch_size` is one block's records.
* The parent hash is checked in `LiveSync`, the cache and its snapshot are in
  `BatchChunk`, failures within the synchronisation in `LiveSync`; Neo4j's locks are
  left out, so the tasks write in any order.
* The inputs' query links an input to the output it spends only if that output is there
  (`SpendsOutput`); a coinbase spends none.
* All attempts of a behaviour write in the same `mode`. The commands never call
  `ingest_block`, so a batch does not meet the outputs that one left behind; a program
  that used both in turn would have its chunk refused, since a CREATE would meet them.
* The budget does not change between launches. A restart with a smaller one could
  separate a BIP30 block from the blocks whose outputs its failed chunk has left
  behind, and their CREATE would then meet them.

### BlockIndex, StreamingIngest and the code

`BlockIndex` takes the order of a LevelDB scan as data: a sequence of records with
the two status bits the code looks at. `LoadBatch` is `load_batch_index`, with its
early end and its last-record-wins; `GetMainChain` is `get_main_chain_up_to`.

`StreamingIngest` is `run_streaming_ingestion`: `Ingest` and `Resume` are the two
commands up to it, `Restore` is `load_from_file`, `BeginPrewarm`, `PrewarmBlock` and
`EndPrewarm` are `prewarm_cache` with `insert_prewarm`, `Preload` is
`preload_full_range`, `Load`, `LoadFails`, `ReadFails` and `EndLoop` are the loop,
`IngestChunk`, `ChunkRefused` and `CommitFails` are a chunk of the batch, and
`BeginSave`, `FinishWriting`, `Rename`, `SaveFails` are `save_to_file`: a temporary
file, a sync, a rename.

* A chunk is one step, with the net effect that `BatchChunk` and `ChunkWriter` open.
  `PERFORMS` stands for everything that needs a spent output's data, because it is
  what needs most of it: the address.
* `Sentinel` is the height 255 that `get_checkpoint` reads as "nothing yet": the
  instance has it at 2.
* The blocks of other branches are records in the index, stored if the index yields
  them; the parent of every block is on the main chain.
* `LoadFails` covers a pruned record; other read errors are `ReadFails`.
* `prewarm_cache_targeted` and `block_file.rs` are called by no command.

### StoredChain

`StoredChain` says what the graph is for: `Grow` appends blocks that follow each
other, `DropLast` removes the last. `LiveSync!StoredSequence` maps the stored
block nodes, by height, to such a chain, and `ImplementsStoredChain` is the
abstract specification under that mapping.

### BlockStore

`BlockStore` is what the writers of blocks and the next start agree upon.
`sync_checkpoint_with_db` finds a store that some earlier process has left, looks at
the blocks above the checkpoint, and tells a whole one from one to remove by its
transactions. That is right if nodes, transactions and checkpoint change only so:

| Action | Step | In the code |
|---|---|---|
| `CommitChunk` | nodes, transactions and checkpoint rise together, from a store without a block above the checkpoint | the commit of a chunk |
| `WriteBlock`, `LinkTransactions` | the node of the next block, then its transactions | Phases 1 and 3 of `ingest_block` |
| `EndBlock` | the checkpoint takes in the next block, which has its transactions | the end of `ingest_block`, or the walk, keeping a block |
| `RemoveBlock` | the next block goes, which has no transactions | the walk, removing a block |

It is implemented twice, and each time `ImplementsBlockStore` says so. `ChunkWriter`
does it query by query: everything else it writes, repeats or leaves behind is a
stutter, and so is a query that was applied in a transaction. `LiveSync` does it chunk
by chunk, as long as the node does not reorganise: a reorg removes blocks below the
checkpoint, which is what `StoredChain` is for. The two meet here: the step `LiveSync`
takes for a chunk is the `CommitChunk` that the queries of `ChunkWriter` amount to,
and the half-written store `LiveSync` may begin with is one that `ChunkWriter` can
leave.

## 3. Runs

Passing runs:

| Run | Question | Bounds |
|---|---|---|
| `live_line` | What is stored when the node only grows, whatever fails, and in which steps? | 5 blocks in line; batches of 3, chunks of 2: a batch has two chunks of different length and the chain needs two batches |
| `live_reorg` | Does the graph stay one chain through reorgs? | three branches leaving the trunk at heights 0 and 1, so reorgs of depth 1 and 2 and back again; batches and chunks of up to two blocks; shutdowns, crashes and failures, but no rollback that is cut off; orderly runs |
| `live_any` | What does a restart guarantee when everything can go wrong, and can a rollback that was cut off be repeated? | two branches, all faults that change the store, a half-written block in the initial store; a crash between any two queries of a rollback |
| `live_progress` | Does the process get its work done? | a trunk of three blocks and a branch of five that leaves it at genesis, `--max-height` 3, so both the limit and the tip bind and a reorg removes one block or two; reorgs at any moment, lost notifications, failing receives and reconnects, failing saves |
| `batch_totals` | Which totals are complete? | 5 blocks on two branches, 6 transactions, 6 outputs in two shards of 2 entries: one chunk creates 3 in a shard and spends one of them, the others fit; chunks of up to two blocks |
| `writer` | What do failing, repeated and late queries leave in the graph, and can the next start rely on it? | 4 blocks, the last a BIP30 duplicate of the second, two addresses in two buckets; batches of 3, a budget of 3 with estimates of 1, 2 and 4, so chunks have one to three blocks and some block exceeds the budget; one retry, three faults, both modes |
| `stream` | Do `ingest` and `resume` get the chain into the graph once, in order, with a usable cache? | 5 blocks, seven scan orders with the header of a rival block, an abandoned block at either of two heights, or a pruned record; two shards of 2 entries, the first of which has three outputs; batches and index batches of 2; limits none, 3 (whole batches) and 4 (a partial last batch); pre-warming depth 0 and 2; two faults |

`live_reorg` runs `OrderlySpec`, which leaves out two steps, each of which is known to
break the properties. No chunk has blocks of two branches (`ChunkOfOneBranch`;
`v_straddle` is the run where one has), and a process that was signalled takes no
further notification (`SignalStops`; see below what happens when `select!` does).
Batches may still be fetched across a reorg, and reorgs come at any moment. A rollback
that is cut off is left out because of `v_torn_gap`; what does hold of one is checked by
`live_any`: `RollbackLeavesNoOrphan`, that it can be repeated, whichever of its four
queries was the last. So `StoreIsChain` and `RollbackOnlyAtTip` say nothing of these
cases. What the snapshot is worth when `select!` does not obey a signal is checked by
`live_line`, which leaves out no step.

`live_progress` has chunks of one block: a longer one may straddle a reorg, and what then
is stored (`v_straddle`) is on no chain that could be completed. Nobody need launch the
process again, and a store left half-written (`"partial"`) is not among its initial ones,
because the outputs of a block whose rollback found no transactions stay, and every
launch after that fails on them (see below). `NotificationIngested` and
`CatchupIngests` are stated per chain of the node: once the store is on its branch it gets
all of it, unless the node abandons the chain meanwhile. `ReorgFollowed` says how the
store comes to be on its branch again.

`MaxFailures` is 2, so there is
a failure that is retried and one that is not. `MaxPending` is 2 where notifications
that announce nothing new matter. Three faults in `writer` are a
failed query, the failed retry of it, and one more on the next attempt; two faults
in `stream` are a failure and another one, or a mistaken command, after the resume
that follows. Every action of `Next` fires in one of these runs. `CHECK_DEADLOCK` is
off: nobody need launch the process, a node whose last block is stored leaves the
process waiting for ever, and an ingestion that reached its limit is done.

`ImplementsBlockStore` is a property of two runs: `writer` takes all five actions of
`BlockStore`, while `live_line` begins with a whole store, so only chunks and blocks are
committed there. The theorem `ImplementsContract` also covers the stores that
`live_any` begins with.

`MainChainFound` is about a function and says the same in every state of `stream`:
the seven orders times all heights are its inputs.

`SnapshotUsable` has an exception. `load_batch_index` gives up a scan as soon as every
height was seen, and which of two records of a height it has met by then depends on the
range. Where an abandoned block has a record that is accepted, pre-warming can read
another block than the one that was stored, and the file then names outputs that the
graph does not have. They only take room. One of the seven orders is such a one.

Runs that show a disagreement between the code and what its documents, comments
or log lines say (`findings` of PROJECT.json quotes them):

| Run | Shows |
|---|---|
| `v_torn_gap` | a rollback cut between two blocks leaves a gap in the heights for good |
| `v_straddle` | a batch that straddles a reorg is stored although its blocks do not follow each other |
| `v_catchup_reorg` | a reorg met in catch-up ends the command at every relaunch |
| `v_bip30_edges` | a chunk with a BIP30 duplicate links the shared transaction to its output twice; the query's own comment forbids it, the plan of the BIP30 path (`feature-docs/completed/bip30-duplicate-coinbase.md` 38) accepts it because nothing fails |
| `v_prewarm_address` | pre-warming caches an output to a public key without its address, so its spend has no PERFORMS |

More follow from the actions and have no run of their own:

* a rollback cut inside a block leaves a block node without some of its layers, below a
  checkpoint that no restart looks under (the same cause as `v_torn_gap`); the layers
  are all still attached (`RollbackLeavesNoOrphan`), so another rollback would remove them;
* a shutdown after the last chunk of a catch-up batch leaves the loop before
  `current_height` is advanced; where the `select!` then takes a notification first
  and there was a reorg, the rollback starts at the batch's first height, below the
  blocks it has stored;
* a block mined between the end of the catch-up and the subscription waits for the
  next notification, and so does everything above the fork point after a rollback,
  where `main.rs` logs "re-ingesting";
* after an `ingest_block` that died, a block without inputs counts as complete
  (`adopted`), and the outputs of a block without transactions survive its rollback;
  `docs/enhancements/code-review-2026-02-11.md` mentions the count-only check;
* a chunk that creates more outputs in a shard than the shard holds can miss some of
  them in Phase 3b, and commits totals without them (`TotalsRight` says that nothing else
  is ever missing; in `batch_totals` the chunk of `a1` and `a2` does this);
* a snapshot saved after a chunk is labelled with the chunk's last height, one
  saved on completion with the next height; a load compares it with the height it
  starts from, so a snapshot that is up to date is reported as stale;
* a run without a limit drops the blocks of its last, partly filled batch, and
  `resume` turns back when the block at the limit is the only one missing
  (`RunCompletes` and `RunsToTheEnd` leave just these out);
* the genesis block is never pre-warmed, and pre-warming caches outputs that are
  spent already, where `INGESTION_ARCHITECTURE.md` speaks of unspent ones: they only
  take room;
* `get_main_chain` refuses an index with any block of another branch
  (`MainChainFound` says exactly when), and a comment of `block_index.rs` says
  "valid chain AND has data" where the code takes either.

### Fairness

`FairSpec` adds weak fairness of the process: its event loop runs whatever future
is ready, and every location of the process other than `wait` without a
notification has a step that stays enabled until taken. Nothing is assumed of the
node (it need not mine), of faults, of signals or of the operator.
`RelaunchSpec` adds that a process that ended is launched again, as a service
manager does; only `v_catchup_reorg` uses it, and the property fails in spite of
it.

`ChunkWriter` and `StreamingIngest` assume in their `FairSpec` that the process goes
on (every query has a timeout, or the driver reports the lost connection, and a
spawned task runs) and that a command that ended is launched again, as the messages
of `main.rs` tell the operator to do with `resume`. Faults are not fair, and there
are finitely many: a database that fails for ever stops everybody.

## 4. Proofs

TLAPS proves, for every block tree, every bound and every environment
(`LiveSyncProofs`):

* `TypeCorrect`: `[]TypeOK`;
* `ResumeIsAboveStore`: a restart resumes above everything stored;
* `WalkStopsAtCheckpoint`: the startup walk deletes only above the checkpoint;
* `WalkAlwaysMeetsBlock`: the walk finds a block at every height it looks at;
* `RollbackIsResumable`: no query of a rollback leaves a layer that the next one could not
  delete.

`TypeOK` is not inductive: `FetchBlock` and `NextBlock` index the node's chain, and
`BlockGone` lowers `height`. `Bounds` says, per location, that the indexed height
is below the end of the chain, which holds because chains do not get shorter.
`WalkBelow` says that while the walk is at some height nothing is stored above it.
`IInv` is the conjunction, and each action is shown to keep it.
`WalkInv`, for the last of them, says where a block that is not whole can be: at most one
above the checkpoint, or where a rollback is at work.

For a node that never reorganises and a store no `ingest_block` left half-written
(assumption `Grows`; all other faults are allowed), the same module proves
`StoredIsPrefix`, `SaveHeightIsCheckpoint`, `SnapshotWithinCheckpoint` and
`SnapshotNeverFalls`. The invariant `LineInv` adds to `IInv` that the store is
exactly the node's chain up to the checkpoint, that the fetched batch is a piece of
that chain, and that the loop variables stand where the checkpoint does
(`LoopsFollow`). Its two lemmas `WriteChunkLine` and `WriteBlockLine` say that a
chunk or block that is accepted extends the prefix; `NoReorg` says the reorg
actions are not enabled. `SnapshotNeverFalls` follows because the snapshot is
written at a height at least the checkpoint's before it, which bounds the snapshot.

`ImplementsContract`, in the same module, proves that `LiveSync` implements `BlockStore`.
It assumes only that the node does not reorganise (`Steady`), so the store may begin
with a block that `ingest_block` left half-written, and the startup walk may be cut off
between any two of its queries. `SteadyInv` is weaker than `LineInv` where it must be:
one block may stand above the checkpoint, it is the node's, and the layers the walk does
not look at may be anything. `LoopsKeep` says that it is dealt with before anything is
fetched, and that the walk is at it or right below it.

`LiveSyncReorgProofs` is about reorgs. For every block tree, batch and chunk size, and
any reorgs, crashes between steps, shutdowns and failed calls, it proves of `OrderlySpec`

* `StoreStaysChain`: what is stored is one whole chain that ends at the checkpoint;
* `RollbacksAtTip`: only the tip of what is stored is ever rolled back;
* `ImplementsWithReorgs`: the stored blocks implement `StoredChain`.

It assumes that no rollback is cut off and that no `ingest_block` has left a
half-written block (`Whole`). `Whole` and the two conditions of `OrderlySpec` are
needed: without each of them the code does otherwise, as `v_torn_gap`, `v_straddle`
and the list above show. `ReorgInv` says that the store is one of the chains the node
may serve, up to the checkpoint (`ChainStored`). Which chain that is changes when a chunk
of another branch is accepted: its first block names the stored tip as its parent, its
blocks name each other, so the new chain and the old one agree on everything stored
(`NamedBelow`). `LoopsMeetTip` says where the loops stand to the tip, and `BatchOfChains`
that each fetched block is on some chain of the node. Under `Grows`, and with torn
rollbacks, the refinement follows from `LineInv` (`Implements`): `SequenceIsPrefix`
identifies `StoredSequence` with a prefix of the node's chain.

`BatchChunkProofs` proves, for all blocks, transactions, shards, capacities and
chunk sizes, `BatchTypeCorrect` (no shard exceeds its capacity), `SpentIsOmitted`
(a chunk's snapshot has nothing the chunk spent) and `TotalsAreRight`: if chains spend
only what they create (`SpendsOwn`, a rule of Bitcoin), no stored total lacks an input
but one that its chunk created in a shard it overflows. Such an output may be evicted
before Phase 3b reads it, is not in the graph yet, and the error of the lookup is dropped
(`ingestion.rs` 1107). `TotalsAreComplete` adds that nothing is missing at all if no chunk
creates more outputs in a shard than the shard holds (`Roomy`). `TotalsRight` is not
inductive: `KeysFound` says where each input of the chunk is in each phase, and
`FreshCached` says that the outputs Phase 2 has put in a shard that holds them all are
within the first as many places of it, so that none has been evicted when Phase 3b looks. The lemma
`CreateKeepsFresh` is the heart of it: an insert moves each of them by at most one
place and raises their number by one.

`ChunkWriterProofs` and `ChunkFactProofs` prove about `ChunkWriter`, for all chains,
addresses, buckets, estimates, budgets, batch sizes, numbers of retries and faults:

* `WriterTypeCorrect`: `[]WriterTypeOK`;
* `RetriesAddOne`: in `ingest_block`, no number of repeated queries and restarts
  makes a second `HAS_OUTPUT`;
* `ChunksAreAtomic`: in `ingest_blocks_batch` the graph has nothing beyond the
  checkpoint but addresses and the outputs that may be left near a BIP30 block;
* `CheckpointIsWhole`: what the checkpoint covers is in the graph with all its nodes
  and relationships;
* `ChunksFitBudget`: a chunk of several blocks fits the budget, and none could have taken
  in the next block;
* `CreatesNeverCollide`: no CREATE meets a node that an earlier attempt has left;
* `WriterImplements`: both ways of writing blocks implement `BlockStore`.

The first module is about control. `ScanInv` and `ChunkInv` say that the ranges of
the scan follow each other without a gap and stay within the batch; `TxnInv` and
`PlaceInv` say when the transaction is open and at which block the phase stands;
`TaskInv` says that a task at
work belongs to a batch that has got as far as Phase 6, that one which saw no
transaction finds none later, and that the tasks before the awaited one ended well.
`FitInv` says that the scan's running memory is the sum of the estimates of the open
range (`Totals`), and what every closed range amounts to.

The second module adds the facts. `AtomicInv` says that the transaction holds facts
of its chunk only and that everything in the graph is expected. `LateTaskExpected`
is its heart: a task that outlives its transaction finds the other end of a
relationship only if the transaction is in the graph, and then the relationship is
one of a block below the checkpoint. `WholeInv` adds `Progress`, which says per phase
what has been written of the chunk's blocks, so that everything has when the
checkpoint moves, and `Sound`: a block whose transaction is included is there, and
of several `HAS_OUTPUT` the first. `LaunchWhole` says that a start removes nothing at
or below the checkpoint it keeps. `CreatesNeverCollide` needs that a chunk cut anew keeps a
BIP30 block together with the outputs left near it. `LeakInv` says that an output beyond
the checkpoint was left by a chunk that began above it, has a BIP30 block and got no
further than the budget lets one get from there; `ChunkIsMaximal` says that the chunk of
the next attempt gets as far, so it has that BIP30 block too and merges its outputs.

`WriterImplements` has an invariant that does not mention the phases (`StoreInv`): nodes
and transactions reach to the checkpoint, or in single mode to the block above it, nodes
first. `ShapeInv` knows the block that a query of `ingest_block` writes for, the one above
the checkpoint, and that an INCLUDED_IN is made only where the block is (`EffectStore`),
so queries keep to the order of `BlockStore` however often they are repeated, and late
tasks change nothing it sees. A commit moves nodes, transactions and checkpoint at once:
`Progress` says that all blocks of the chunk have been written, `AtomicInv` that no
others have. `LaunchKeeps` shows that a start keeps or removes just that block.

`StreamingProofs` proves about `StreamingIngest`, for all chains, scan orders, records
of other blocks, batch sizes, limits and sequences of failures and commands:

* `StoreOnlyGrows`: no committed block is overwritten and the checkpoint does not
  fall;
* `HeadsLink`: every chunk is put on the parent of its first block;
* `RunIsComplete`: a run that ends on its own has stored every block up to the limit,
  or all but a last partial batch where there is none;
* `FileIsReadable`: wherever a save is cut off, the file was written to its end;
* `MainChainIsFound`: whatever the order of the scan, `get_main_chain_up_to` yields the
  main chain, and an error exactly where another record is at one of its heights.

`BatchSound` and `BatchFinds` say what a scan of the index returns: records of the
heights they stand for, and every height of its range that the main chain has, though
the scan gives up early. `StoreInv` says that the store is what lies up to the
checkpoint. `Follows` is what connects the loop to it: the batch begins right above the
checkpoint, or the run began within the store (`ingest` after the checkpoint was read as
none), and then the first chunk is refused. `ChunkShape` and `ChunkStored` draw from it
that an accepted chunk lengthens the store at its end.

`MainChainIsFound` rests on `SortedFacts`, what sorting a finite set by an order yields,
and on a count: heights that rise through `0 .. n - 1` in `n` steps leave none out
(`Increasing`), and more records than heights put two at one (`Consecutive`).
`RecordInv` says that each record is stored at its own height, and that all are of the main
chain if the index has no others.

`StreamingCacheProofs` adds the cache, for all outputs, shards, capacities, snapshots
and depths of pre-warming:

* `StreamTypesOK`: `[]StreamTypeOK`, so no shard ever exceeds its capacity;
* `PrewarmEvictsNothing`: pre-warming pushes nothing out;
* `RestoreIsFaithful`: a restart restores each shard's list as it was saved;
* `SnapshotIsUsable`: the file can be read and has nothing but outputs of the graph (with
  the exception above);
* `PerformsAreWritten`: every output that is spent gets its PERFORMS edge, through
  evictions, restarts and stale snapshots, unless it is to a public key and was
  pre-warmed;
* `PerformsAreComplete`: every one does if nothing is pre-warmed or nothing pays to a public
  key, so the defect that `v_prewarm_address` shows has no other cause.

`CacheInv` says that a shard is a list (`Lists`: no gap, no two entries at one place),
in memory, in the file and in the file being written. `Put`, `Touch` and `Pop` keep it
so, and with `FoldRuns` so do the sequences of them that the code runs. `RestoredSame` is
what `RestoreIsFaithful` needs: putting the entries of a list from its last to its first
gives each the place it had, because at every moment an entry's place is the number of
those that are in and no less recent (`Within`). `SnapshotInv` says that what is cached
or saved was created by a stored block, or, in an ambiguous index, by one that
pre-warming read. `AddressInv` says that what is cached without an address was
pre-warmed and is to a public key.

The two theorems about PERFORMS have two hypotheses, which TLC checks of its instance
too. `SpentAfterCreated` is a rule of Bitcoin. `BatchHasRoom`, that what a batch creates
fits the shards, is not something the code sees to: it is the counterpart of `Roomy`, and
without it the theorems are false for the same reason. It speaks of a batch, because
the model lets a chunk be as long as its batch.

Assumptions are `BlockAssumption` and `ChainsAssumption` of `BlockTree` (the node
serves chains of blocks that name their parents) and `LiveAssumption` (bounds are
numbers), `CacheAssumption` (a finite set of outputs, a positive capacity),
`TxAssumption` (transactions create and spend outputs) and `WriterAssumption` (a
transaction that occurs twice is a BIP30 duplicate the second time, with the same
addresses; buckets and bounds are numbers), and `IndexAssumption` and
`StreamAssumption` (the main chain's records are in every scan, and bounds are
numbers). TLC evaluates them in every run of the modules that declare them.

### How the data is dealt with

The library's induction theorems take an operator as a parameter, which the installed
provers cannot instantiate. `DataLemmas` states what the proofs need with sets and
functions instead, and proves it from the well-foundedness of the strict subset order on
finite sets: a set of numbers that has 0 and is kept by each step has all up to `n`
(`Stepwise`); a fold of the community modules has a solution and runs through a sequence
of values, one per element (`FoldEquation`, `FoldRuns`, `RunExists`); a sum over a finite
set grows by each element (`SumOfOneMore`, `SumOfInterval`).

### Only model-checked

The liveness properties `NotificationIngested`, `ReorgFollowed`, `CatchupIngests`,
`ChainIngested` and `RunsToTheEnd`, which are out of the prover's reach. Every invariant, every action property and the
refinement that a passing run checks is also a theorem, under the hypotheses named above,
all of which the instance of its run satisfies.

## 5. Not modelled

* The ZMQ listener's sequence numbers, frames and statistics, and its backoff times:
  a lost notification is modelled in `LiveSync`, how it is noticed is only logged.
* The three attempts of an RPC call and their delays: `RpcFails` is their outcome.
* `create_checkpoint`'s two queries: between them there is no checkpoint, and a
  crash there is answered by `init-schema`, not by the commands modelled here.
* Panics of a debug build (`checkpoint_height as u32 + 1` for -1): the models start
  from states where it does not happen.
* `prewarm_cache_targeted` and `block_file.rs`, which no command calls.
* A cache file loaded by a process with another capacity.
* Cache statistics, memory reports, progress output and logging.
* Address derivation, value conversions, parsing of blocks and of arguments, and
  configuration: pure functions of their input. One of them matters to a property:
  that pre-warming and ingestion derive different addresses for P2PK.
* The mock writer: a test double.

What would come next: `BatchChunk` against the same contract as `ChunkWriter`, a contract
that covers the rollback of a reorg, and a theorem about the heights
that a torn rollback can leave without a block.
