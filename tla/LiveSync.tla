------------------------------- MODULE LiveSync -------------------------------
(***************************************************************************)
(* The `live` command (run_live_ingestion in main.rs) together with the    *)
(* orchestrator calls it makes, the Bitcoin Core node it follows and the   *)
(* Neo4j graph it writes:                                                  *)
(*                                                                         *)
(*   startup    sync_checkpoint_with_db walks down from the highest block  *)
(*              node to the checkpoint and rolls incomplete blocks back;   *)
(*   phase A    blocks are fetched in parallel by height and ingested in   *)
(*              chunks, one database transaction per chunk, until the node *)
(*              has nothing more;                                          *)
(*   phase B    the ZMQ subscription is opened;                            *)
(*   phase C    every notification makes the process ask for the tip and   *)
(*              ingest block by block; a parent mismatch makes it look for *)
(*              the fork point and roll the stored blocks above it back.   *)
(*                                                                         *)
(* One process runs at a time.  A crash or an error ends it, what it kept  *)
(* in memory is lost, and it may be launched again.  The node is external: *)
(* its chain grows or is reorganised at any moment between two steps.      *)
(***************************************************************************)
EXTENDS BlockTree, FiniteSets

CONSTANTS
  BatchSize,    \* rpc_batch_size: most blocks in one catch-up batch
  ChunkSize,    \* bound: most blocks the memory budget lets into one chunk
  MaxHeight,    \* --max-height; above every height of Chains when not given
  MaxFailures,  \* zmq_max_consecutive_failures
  MaxPending,   \* bound: notifications queued in the ZMQ socket
  Env           \* what the environment may do in this instance

(***************************************************************************)
(* "reorg"     the node switches to a longer branch                        *)
(* "crash"     the process dies (outside a rollback)                       *)
(* "torn"      the process dies, or a query fails, inside a rollback       *)
(* "shutdown"  SIGINT or SIGTERM arrives                                   *)
(* "rpc"       an RPC call fails after its three attempts                  *)
(* "db"        a chunk's transaction fails, or its commit fails            *)
(* "zmq"       a recv fails or times out, a notification is dropped        *)
(* "disk"      a cache snapshot cannot be written                          *)
(* "partial"   the store was left by an ingest_block that died half-way    *)
(***************************************************************************)
EnvKinds == {"reorg", "crash", "torn", "shutdown", "rpc", "db", "zmq", "disk",
             "partial"}

ASSUME LiveAssumption ==
  /\ BatchSize \in Nat \ {0}
  /\ ChunkSize \in Nat \ {0}
  /\ MaxHeight \in Nat
  /\ MaxFailures \in Nat
  /\ MaxPending \in Nat
  /\ Env \subseteq EnvKinds

(***************************************************************************)
(* rollback_block deletes a block in four auto-committed queries, one per  *)
(* layer, in this order.                                                   *)
(***************************************************************************)
Layers == {"inputs", "outputs", "transactions", "block"}

\* Mutant: the transactions go first, and inputs and outputs lose their way in.
TransactionsFirst == <<"transactions", "inputs", "outputs", "block">>

RollbackOrder == <<"inputs", "outputs", "transactions", "block">>

VARIABLES
  \* Bitcoin Core
  canon,       \* its active chain
  pending,     \* notifications in the subscribed socket
  \* Neo4j and the disk
  graph,       \* graph[b]: the layers of block b that are stored
  checkpoint,  \* the IngestionCheckpoint node: height (-1 at first) and hash
  snapshot,    \* height in the header of the cache snapshot file, -1: none
  \* the process
  pc,          \* where it is
  current,     \* current_height: the next block to ingest
  top,         \* last height of the batch, effective_tip, or where a walk began
  batch,       \* blocks fetched for the batch
  height,      \* the height the inner loop is at
  fork,        \* fork_point
  committed,   \* ShutdownHeightTracker.last_committed_height, -1: None
  failures,    \* consecutive_failures
  connected,   \* the listener holds a socket
  shutdown     \* the token is cancelled

nodeVars == <<canon, pending>>
storeVars == <<graph, checkpoint, snapshot>>
loopVars == <<current, top, batch, height, fork>>
procVars == <<pc, loopVars, committed, failures, connected, shutdown>>
flags == <<committed, failures, connected, shutdown>>
vars == <<nodeVars, storeVars, procVars>>

Locations == {"down", "start", "sync", "undo", "catchup", "fetch", "ingest",
              "phaseB", "wait", "tip", "block", "find", "rollback",
              "check"}

-----------------------------------------------------------------------------
(* What the queries return. *)

Tip == Len(canon) - 1

Stored == {b \in Block : "block" \in graph[b]}
StoredAt(k) == {b \in Stored : Height[b] = k}

BlocksAboveCheckpoint == {b \in Stored : Height[b] > checkpoint.height}

\* check_block_complete: the transactions counted are the ones INCLUDED_IN the
\* block; its inputs and outputs are not looked at.
Complete(b) == "transactions" \in graph[b]

\* Mutant: no parent validation.
ParentUnchecked(b) == TRUE

\* validate_parent_hash: accepts genesis, a stored parent that b names, and a
\* missing parent.
ParentMatches(b) ==
  Height[b] > 0 => StoredAt(Height[b] - 1) \subseteq {Parent[b]}

\* CREATE violates a uniqueness constraint (schema.rs) when any node of a block
\* of B is already there, or another block of its height.
Insertable(B) == \A b \in B : graph[b] = {} /\ StoredAt(Height[b]) = {}

Insert(B) == graph' = [b \in Block |-> IF b \in B THEN Layers ELSE graph[b]]

\* Mutant: labelled with the next height.
SaveSnapshotAhead(k) == snapshot' = k + 1

\* try_save_snapshot: a failure is logged and ignored.
SaveSnapshot(k) ==
  \/ snapshot' = k
  \/ "disk" \in Env /\ UNCHANGED snapshot

\* Mutant: the tracker gets the height before the batch's last.
RecordPrevious(k) == committed' = k - 1

\* record_batch_commit.
Record(k) == committed' = k

-----------------------------------------------------------------------------
(* The node. *)

\* Every new tip is published; a full or broken socket loses the message.
Publish ==
  IF connected /\ pending < MaxPending
  THEN \/ pending' = pending + 1
       \/ "zmq" \in Env /\ UNCHANGED pending
  ELSE UNCHANGED pending

Extends(c) == \A i \in 1 .. Len(canon) : c[i] = canon[i]

NewTip(c) ==
  /\ Len(c) > Len(canon)
  /\ Extends(c) \/ "reorg" \in Env
  /\ canon' = c
  /\ Publish
  /\ UNCHANGED <<storeVars, procVars>>

-----------------------------------------------------------------------------
(* The process ends: an Err that main returns, a crash, or a normal exit. *)

Idle ==
  /\ current' = 0 /\ top' = 0 /\ batch' = {} /\ height' = 0 /\ fork' = 0
  /\ committed' = -1 /\ failures' = 0
  /\ connected' = FALSE /\ pending' = 0
  /\ shutdown' = FALSE

Exit ==
  /\ pc' = "down"
  /\ Idle
  /\ UNCHANGED canon

Launch ==
  /\ pc = "down"
  /\ pc' = "start"
  /\ UNCHANGED <<nodeVars, storeVars, loopVars, flags>>

Crash ==
  /\ pc # "down"
  /\ IF pc \in {"undo", "rollback"} THEN "torn" \in Env ELSE "crash" \in Env
  /\ Exit
  /\ UNCHANGED storeVars

Signal ==
  /\ "shutdown" \in Env
  /\ pc \notin {"down", "start", "sync", "undo"}
  /\ ~shutdown
  /\ shutdown' = TRUE
  /\ UNCHANGED <<nodeVars, storeVars, pc, loopVars, committed, failures, connected>>

\* An RPC call that fails three times ends the process wherever it is made.
RpcFails ==
  /\ "rpc" \in Env
  /\ pc \in {"catchup", "fetch", "tip", "block", "find"}
  /\ Exit
  /\ UNCHANGED storeVars

-----------------------------------------------------------------------------
(* sync_checkpoint_with_db. *)

\* Nothing above the checkpoint: get_resume_height.
ResumeFromCheckpoint ==
  /\ pc = "start"
  /\ BlocksAboveCheckpoint = {}
  /\ pc' = "catchup"
  /\ current' = checkpoint.height + 1
  /\ UNCHANGED <<nodeVars, storeVars, top, batch, height, fork, flags>>

\* Mutant: the range of the walk is one too high.
BeginWalkAbove ==
  /\ pc = "start"
  /\ \E m \in BlocksAboveCheckpoint :
       /\ \A b \in Stored : Height[b] <= Height[m]
       /\ height' = Height[m] + 1
  /\ pc' = "sync"
  /\ UNCHANGED <<nodeVars, storeVars, current, top, batch, fork, flags>>

\* The walk begins at get_max_block_height.
BeginWalk ==
  /\ pc = "start"
  /\ \E m \in BlocksAboveCheckpoint :
       /\ \A b \in Stored : Height[b] <= Height[m]
       /\ height' = Height[m]
  /\ pc' = "sync"
  /\ UNCHANGED <<nodeVars, storeVars, current, top, batch, fork, flags>>

\* Mutant: resumes from the old checkpoint.
FoundCompleteResumesOld ==
  /\ pc = "sync"
  /\ height > checkpoint.height
  /\ \E b \in StoredAt(height) :
       Complete(b) /\ checkpoint' = [height |-> height, hash |-> b]
  /\ current' = checkpoint.height + 1
  /\ pc' = "catchup"
  /\ UNCHANGED <<nodeVars, graph, snapshot, top, batch, height, fork, flags>>

\* The first complete block from the top becomes the checkpoint.  (A height with
\* no block at all would end the command; WalkMeetsBlock says there is none.)
FoundComplete ==
  /\ pc = "sync"
  /\ height > checkpoint.height
  /\ \E b \in StoredAt(height) :
       Complete(b) /\ checkpoint' = [height |-> height, hash |-> b]
  /\ current' = height + 1
  /\ pc' = "catchup"
  /\ UNCHANGED <<nodeVars, graph, snapshot, top, batch, height, fork, flags>>

FoundIncomplete ==
  /\ pc = "sync"
  /\ height > checkpoint.height
  /\ \E b \in StoredAt(height) : ~Complete(b)
  /\ pc' = "undo"
  /\ UNCHANGED <<nodeVars, storeVars, loopVars, flags>>

WalkedToCheckpoint ==
  /\ pc = "sync"
  /\ height = checkpoint.height
  /\ pc' = "catchup"
  /\ current' = height + 1
  /\ UNCHANGED <<nodeVars, storeVars, top, batch, height, fork, flags>>

-----------------------------------------------------------------------------
(* rollback_block(height): used by the walk above and by a reorg. *)

\* All four queries start from the block node, and find inputs and outputs through
\* the block's transactions: without those there is nothing they would delete.
Attached(b, l) ==
  /\ {l, "block"} \subseteq graph[b]
  /\ l \in {"inputs", "outputs"} => "transactions" \in graph[b]

Reachable(b, l) == Height[b] = height /\ Attached(b, l)

HasLayerAtHeight(l) == \E b \in Block : Reachable(b, l)

\* One of the four queries; the ones that would match nothing are skipped.
DeleteLayer ==
  /\ pc \in {"undo", "rollback"}
  /\ pc = "rollback" => height > fork
  /\ \E i \in 1 .. 4 :
       /\ HasLayerAtHeight(RollbackOrder[i])
       /\ \A j \in 1 .. i - 1 : ~HasLayerAtHeight(RollbackOrder[j])
       /\ graph' = [b \in Block |-> IF Reachable(b, RollbackOrder[i])
                                    THEN graph[b] \ {RollbackOrder[i]}
                                    ELSE graph[b]]
  /\ UNCHANGED <<nodeVars, checkpoint, snapshot, procVars>>

BlockGone ==
  /\ \A l \in Layers : ~HasLayerAtHeight(l)
  /\ height' = height - 1
  /\ UNCHANGED <<nodeVars, storeVars, current, top, batch, fork, flags>>

\* Mutant: the block below is rolled back without being looked at.
UndoneUnchecked ==
  /\ pc = "undo"
  /\ BlockGone
  /\ UNCHANGED pc

UndoneIncomplete ==
  /\ pc = "undo"
  /\ BlockGone
  /\ pc' = "sync"

-----------------------------------------------------------------------------
(* Phase A: catch-up. *)

Least(i, j) == IF i <= j THEN i ELSE j

BeginFetch ==
  /\ pc = "catchup"
  /\ ~shutdown
  /\ current <= Least(Tip, MaxHeight)
  /\ top' = Least(Least(Tip, MaxHeight), current + BatchSize - 1)
  /\ batch' = {}
  /\ pc' = "fetch"
  /\ UNCHANGED <<nodeVars, storeVars, current, height, fork, flags>>

\* get_block_batch: one getblockhash per height, in flight together, each
\* answered from the chain the node has at that moment; sorted by height after.
FetchBlock(k) ==
  /\ pc = "fetch"
  /\ k \in current .. top
  /\ \A b \in batch : Height[b] # k
  /\ batch' = batch \cup {canon[k + 1]}
  /\ UNCHANGED <<nodeVars, storeVars, pc, current, top, height, fork, flags>>

Fetched ==
  /\ pc = "fetch"
  /\ \A k \in current .. top : \E b \in batch : Height[b] = k
  /\ IF shutdown THEN pc' = "phaseB" /\ UNCHANGED height
                 ELSE pc' = "ingest" /\ height' = current
  /\ UNCHANGED <<nodeVars, storeVars, current, top, batch, fork, flags>>

\* Mutant: the chunk's first block is left out.
ChunkTail(last) == {b \in batch : Height[b] \in height + 1 .. last}

Chunk(last) == {b \in batch : Height[b] \in height .. last}

\* Where the memory budget may end the chunk that begins at height.
ChunkEnds == height .. Least(top, height + ChunkSize - 1)

\* Only the first block of a chunk is compared with its stored parent.
ChunkAccepted(last) ==
  /\ \E b \in batch : Height[b] = height /\ ParentMatches(b)
  /\ Insertable(Chunk(last))

\* Mutant: the checkpoint names the chunk's first block.
WriteChunkFirst(last) ==
  /\ Insert(Chunk(last))
  /\ \E b \in Chunk(last) :
       /\ Height[b] = height
       /\ checkpoint' = [height |-> height, hash |-> b]

WriteChunk(last) ==
  /\ Insert(Chunk(last))
  /\ \E b \in Chunk(last) :
       /\ Height[b] = last
       /\ checkpoint' = [height |-> last, hash |-> b]

\* A committed chunk that others of the batch follow.
IngestChunk ==
  /\ pc = "ingest"
  /\ \E last \in ChunkEnds :
       /\ last < top
       /\ ChunkAccepted(last)
       /\ WriteChunk(last)
       /\ SaveSnapshot(last)
       /\ height' = last + 1
  /\ UNCHANGED <<nodeVars, pc, current, top, batch, fork, flags>>

\* The last chunk: record_batch_commit, then the shutdown check that leaves
\* the loop before current_height is advanced.
IngestLastChunk ==
  /\ pc = "ingest"
  /\ top \in ChunkEnds
  /\ ChunkAccepted(top)
  /\ WriteChunk(top)
  /\ SaveSnapshot(top)
  /\ Record(top)
  /\ batch' = {}
  /\ IF shutdown THEN pc' = "phaseB" /\ UNCHANGED current
                 ELSE pc' = "catchup" /\ current' = top + 1
  /\ UNCHANGED <<nodeVars, top, height, fork, failures, connected, shutdown>>

\* ReorgDetected and a violated uniqueness constraint both end the command.
ChunkRejected ==
  /\ pc = "ingest"
  /\ \E last \in ChunkEnds :
       \/ \E b \in batch : Height[b] = height /\ ~ParentMatches(b)
       \/ ~Insertable(Chunk(last))
  /\ Exit
  /\ UNCHANGED storeVars

\* Mutant: the checkpoint is not written in the chunk's transaction.
ChunkFailsUncheckpointed ==
  /\ "db" \in Env
  /\ pc = "ingest"
  /\ \/ UNCHANGED graph
     \/ \E last \in ChunkEnds : ChunkAccepted(last) /\ Insert(Chunk(last))
  /\ UNCHANGED <<checkpoint, snapshot>>
  /\ Exit

\* The transaction fails and is rolled back, or its commit reports an error
\* although the server applied it.
ChunkFails ==
  /\ "db" \in Env
  /\ pc = "ingest"
  /\ \/ UNCHANGED <<graph, checkpoint>>
     \/ \E last \in ChunkEnds : ChunkAccepted(last) /\ WriteChunk(last)
  /\ UNCHANGED snapshot
  /\ Exit

\* Mutant: the tip itself is left to the stream.
LeaveCatchupEarly ==
  /\ pc = "catchup"
  /\ shutdown \/ current >= Least(Tip, MaxHeight)
  /\ pc' = "phaseB"
  /\ UNCHANGED <<nodeVars, storeVars, loopVars, flags>>

LeaveCatchup ==
  /\ pc = "catchup"
  /\ shutdown \/ current > Least(Tip, MaxHeight)
  /\ pc' = "phaseB"
  /\ UNCHANGED <<nodeVars, storeVars, loopVars, flags>>

-----------------------------------------------------------------------------
(* Phase B. *)

\* Returns without the final cache save.
MaxReachedInCatchup ==
  /\ pc = "phaseB"
  /\ current > MaxHeight
  /\ Exit
  /\ UNCHANGED storeVars

Connect ==
  /\ pc = "phaseB"
  /\ current <= MaxHeight
  /\ connected' = TRUE
  /\ pc' = "wait"
  /\ UNCHANGED <<nodeVars, storeVars, loopVars, committed, failures, shutdown>>

ConnectFails ==
  /\ "zmq" \in Env
  /\ pc = "phaseB"
  /\ current <= MaxHeight
  /\ Exit
  /\ UNCHANGED storeVars

-----------------------------------------------------------------------------
(* Phase C: real time. *)

\* Mutant: the height main.rs saved at before the tracker existed.
SaveAtCurrent == SaveSnapshot(current - 1)

\* The final cache save, at the height of the tracker if it has one.
SaveOnShutdown ==
  IF committed = -1 THEN UNCHANGED snapshot ELSE SaveSnapshot(committed)

\* select! takes this branch or the next when both are ready.
StopOnSignal ==
  /\ pc = "wait"
  /\ shutdown
  /\ SaveOnShutdown
  /\ Exit
  /\ UNCHANGED <<graph, checkpoint>>

Receive ==
  /\ pc = "wait"
  /\ connected
  /\ pending > 0
  /\ pending' = pending - 1
  /\ failures' = 0
  /\ pc' = "tip"
  /\ UNCHANGED <<canon, storeVars, loopVars, committed, connected, shutdown>>

\* Mutant: failures are counted and never end the command.
ReceiveFailsForever ==
  /\ "zmq" \in Env
  /\ pc = "wait"
  /\ failures' = failures + 1
  /\ connected' = FALSE
  /\ pending' = 0
  /\ UNCHANGED <<canon, storeVars, pc, loopVars, committed, shutdown>>

\* The socket is dropped with what was queued in it; the next recv reconnects.
ReceiveFails ==
  /\ "zmq" \in Env
  /\ pc = "wait"
  /\ failures + 1 < MaxFailures
  /\ failures' = failures + 1
  /\ connected' = FALSE
  /\ pending' = 0
  /\ UNCHANGED <<canon, storeVars, pc, loopVars, committed, shutdown>>

ReceiveGivesUp ==
  /\ "zmq" \in Env
  /\ pc = "wait"
  /\ failures + 1 >= MaxFailures
  /\ Exit
  /\ UNCHANGED storeVars

Reconnect ==
  /\ pc = "wait"
  /\ ~connected
  /\ connected' = TRUE
  /\ UNCHANGED <<nodeVars, storeVars, pc, loopVars, committed, failures, shutdown>>

\* Mutant: one new block is not enough.
AskTipStrict ==
  /\ pc = "tip"
  /\ IF current < Least(Tip, MaxHeight)
     THEN /\ pc' = "block"
          /\ top' = Least(Tip, MaxHeight)
          /\ height' = current
     ELSE /\ pc' = "check"
          /\ UNCHANGED <<top, height>>
  /\ UNCHANGED <<nodeVars, storeVars, current, batch, fork, flags>>

AskTip ==
  /\ pc = "tip"
  /\ IF current <= Least(Tip, MaxHeight)
     THEN /\ pc' = "block"
          /\ top' = Least(Tip, MaxHeight)
          /\ height' = current
     ELSE /\ pc' = "check"
          /\ UNCHANGED <<top, height>>
  /\ UNCHANGED <<nodeVars, storeVars, current, batch, fork, flags>>

\* get_block(height), then a batch of that one block.
NextBlock == canon[height + 1]

WriteBlock ==
  /\ Insert({NextBlock})
  /\ checkpoint' = [height |-> height, hash |-> NextBlock]

IngestBlock ==
  /\ pc = "block"
  /\ ParentMatches(NextBlock)
  /\ Insertable({NextBlock})
  /\ WriteBlock
  /\ SaveSnapshot(height)
  /\ Record(height)
  /\ IF height < top THEN height' = height + 1 /\ UNCHANGED <<pc, current>>
                     ELSE /\ pc' = "check"
                          /\ current' = top + 1
                          /\ UNCHANGED height
  /\ UNCHANGED <<nodeVars, top, batch, fork, failures, connected, shutdown>>

BlockRejected ==
  /\ pc = "block"
  /\ ParentMatches(NextBlock)
  /\ ~Insertable({NextBlock})
  /\ Exit
  /\ UNCHANGED storeVars

BlockFails ==
  /\ "db" \in Env
  /\ pc = "block"
  /\ ParentMatches(NextBlock)
  /\ \/ UNCHANGED <<graph, checkpoint>>
     \/ Insertable({NextBlock}) /\ WriteBlock
  /\ UNCHANGED snapshot
  /\ Exit

\* ReorgDetected: the search starts at the block below, and top remembers it.
ReorgDetected ==
  /\ pc = "block"
  /\ ~ParentMatches(NextBlock)
  /\ pc' = "find"
  /\ top' = height - 1
  /\ height' = height - 1
  /\ UNCHANGED <<nodeVars, storeVars, current, batch, fork, flags>>

\* Mutant: the rollback begins just above the fork point.
ChainsAgreeLow ==
  /\ pc = "find"
  /\ NextBlock \in StoredAt(height)
  /\ fork' = height
  /\ height' = Least(top, height + 1)
  /\ pc' = "rollback"
  /\ UNCHANGED <<nodeVars, storeVars, current, top, batch, flags>>

\* find_fork_point: the first height where both hashes agree.
ChainsAgree ==
  /\ pc = "find"
  /\ NextBlock \in StoredAt(height)
  /\ fork' = height
  /\ height' = top
  /\ pc' = "rollback"
  /\ UNCHANGED <<nodeVars, storeVars, current, top, batch, flags>>

\* Every chain has the same genesis block, so the walk stops above 0 at most.
ChainsDisagree ==
  /\ pc = "find"
  /\ height > 0
  /\ NextBlock \notin StoredAt(height)
  /\ height' = height - 1
  /\ UNCHANGED <<nodeVars, storeVars, pc, current, top, batch, fork, flags>>

RolledBackBlock ==
  /\ pc = "rollback"
  /\ height > fork
  /\ BlockGone
  /\ UNCHANGED pc

\* Mutant: the checkpoint is left where it was.
RolledBackNoCheckpoint ==
  /\ pc = "rollback"
  /\ height = fork
  /\ current' = fork + 1
  /\ pc' = "check"
  /\ UNCHANGED <<nodeVars, storeVars, top, batch, height, fork, flags>>

\* rollback_to_height touches the checkpoint only if it had blocks to remove.
RolledBack ==
  /\ pc = "rollback"
  /\ height = fork
  /\ IF fork < top
     THEN \E b \in StoredAt(fork) : checkpoint' = [height |-> fork, hash |-> b]
     ELSE UNCHANGED checkpoint
  /\ current' = fork + 1
  /\ pc' = "check"
  /\ UNCHANGED <<nodeVars, graph, snapshot, top, batch, height, fork, flags>>

LoopAgain ==
  /\ pc = "check"
  /\ current <= MaxHeight
  /\ pc' = "wait"
  /\ UNCHANGED <<nodeVars, storeVars, loopVars, flags>>

StopAtMaxHeight ==
  /\ pc = "check"
  /\ current > MaxHeight
  /\ SaveOnShutdown
  /\ Exit
  /\ UNCHANGED <<graph, checkpoint>>

-----------------------------------------------------------------------------
\* What an ingest_block that dies leaves of its block: it writes the block, the
\* outputs, the transactions (with their links) and the inputs in this order and
\* the checkpoint last, each in queries that commit on their own.  The block is
\* above a checkpoint at 0 or higher: the walk computes checkpoint_height + 1 as
\* a u32, which a debug build does not do for -1.
PartialBlocks == {{"block"}, {"block", "outputs"},
                  {"block", "outputs", "transactions"}, Layers}

EmptyStore ==
  /\ graph = [b \in Block |-> {}]
  /\ checkpoint = [height |-> -1, hash |-> None]

PartialStore ==
  \E n \in 2 .. Len(canon) : \E p \in PartialBlocks :
    /\ graph = [b \in Block |-> IF \E i \in 1 .. n - 1 : canon[i] = b THEN Layers
                               ELSE IF b = canon[n] THEN p ELSE {}]
    /\ checkpoint = [height |-> n - 2, hash |-> canon[n - 1]]

Init ==
  /\ canon \in Chains
  /\ pending = 0
  /\ \/ EmptyStore
     \/ "partial" \in Env /\ PartialStore
  /\ snapshot = -1
  /\ pc = "down"
  /\ current = 0 /\ top = 0 /\ batch = {} /\ height = 0 /\ fork = 0
  /\ committed = -1 /\ failures = 0
  /\ connected = FALSE /\ shutdown = FALSE

Startup ==
  \/ ResumeFromCheckpoint \/ BeginWalk \/ FoundComplete \/ FoundIncomplete
  \/ WalkedToCheckpoint \/ UndoneIncomplete

CatchUp ==
  \/ BeginFetch
  \/ \E k \in current .. top : FetchBlock(k)
  \/ Fetched \/ IngestChunk \/ IngestLastChunk \/ ChunkRejected
  \/ LeaveCatchup \/ MaxReachedInCatchup \/ Connect

RealTime ==
  \/ StopOnSignal \/ Receive \/ Reconnect \/ AskTip \/ IngestBlock
  \/ BlockRejected \/ LoopAgain \/ StopAtMaxHeight

Reorg ==
  \/ ReorgDetected \/ ChainsAgree \/ ChainsDisagree
  \/ RolledBackBlock \/ RolledBack

Process == Startup \/ DeleteLayer \/ CatchUp \/ RealTime \/ Reorg

Fault ==
  \/ Crash \/ Signal \/ RpcFails \/ ChunkFails \/ ConnectFails
  \/ ReceiveFails \/ ReceiveGivesUp \/ BlockFails

Next ==
  \/ \E c \in Chains : NewTip(c)
  \/ Launch
  \/ Process
  \/ Fault

Spec == Init /\ [][Next]_vars

(***************************************************************************)
(* A batch is fetched by height, and of a chunk only the first block is    *)
(* compared with its stored parent: where the node switched branches       *)
(* between two answers a committed chunk may hold blocks that do not       *)
(* follow each other.  And in the select! a notification may be taken      *)
(* although the token is cancelled, with the current_height that a         *)
(* shutdown left behind.  Neither happens in an orderly run; reorgs may    *)
(* come at any moment, also while a batch is fetched.                      *)
(***************************************************************************)
ChunkOfOneBranch ==
  pc = "ingest" =>
    \A a, b \in Stored' \ Stored : Height[b] = Height[a] + 1 => Parent[b] = a

SignalStops == pc = "wait" /\ shutdown => pc' # "tip"

OrderlySpec == Init /\ [][Next /\ ChunkOfOneBranch /\ SignalStops]_vars

(***************************************************************************)
(* The event loop runs whatever future is ready, so the process is weakly  *)
(* fair; nothing obliges the node to mine or an operator to launch it.     *)
(***************************************************************************)
FairSpec == Spec /\ WF_vars(Process)

\* For an operator, or a service manager, that launches the command again each
\* time it ends.
RelaunchSpec == FairSpec /\ WF_vars(Launch)

-----------------------------------------------------------------------------
(* Type correctness. *)

\* Every variable keeps to its set; heights stay within the longest chain, the
\* fetched blocks are blocks, and the checkpoint names a block once it has one.
TypeOK ==
  /\ canon \in Chains
  /\ pending \in 0 .. MaxPending
  /\ graph \in [Block -> SUBSET Layers]
  /\ checkpoint \in [height : Nat \cup {-1}, hash : Block \cup {None}]
  /\ snapshot \in Nat \cup {-1}
  /\ pc \in Locations
  /\ current \in Nat
  /\ top \in Nat
  /\ batch \subseteq Block
  /\ height \in Nat \cup {-1}
  /\ fork \in Nat
  /\ committed \in Nat \cup {-1}
  /\ failures \in 0 .. MaxFailures
  /\ connected \in BOOLEAN
  /\ shutdown \in BOOLEAN

-----------------------------------------------------------------------------
(* The stored chain. *)

\* VALIDATION.md "Block Heights Are Sequential": the heights of the block nodes
\* have no gap (ingestion by height, rollback from the tip).
HeightsSequential ==
  \A b \in Stored : Height[b] = 0 \/ StoredAt(Height[b] - 1) # {}

\* VALIDATION.md "previousHash Matches Actual Previous Block Hash": of two block
\* nodes at neighbouring heights (what NEXT_BLOCK links) the upper names the lower.
PreviousHashMatches ==
  \A p, b \in Stored : Height[b] = Height[p] + 1 => Parent[b] = p

\* Outside rollback_block no block node is without its transactions, inputs and
\* outputs.
NoTornBlock ==
  pc \notin {"down", "undo", "rollback"} => \A b \in Stored : graph[b] = Layers

\* In an orderly run the store is one chain from genesis to the checkpoint, whole
\* except for the block a rollback is at, whatever interleaving of reorgs, crashes
\* between steps, shutdowns and failed calls led here.
StoreIsChain ==
  /\ HeightsSequential
  /\ PreviousHashMatches
  /\ NoTornBlock
  /\ \A a, b \in Stored : Height[a] = Height[b] => a = b
  /\ pc # "rollback" =>
       \A b \in Stored : Height[b] <= checkpoint.height
                         /\ (Height[b] = checkpoint.height <=> b = checkpoint.hash)

\* Without a reorg the graph is exactly the node's chain up to the checkpoint,
\* complete, after any crash, shutdown, failed commit or lost notification.
StoredIsPrefix ==
  /\ checkpoint.height < Len(canon)
  /\ Stored = {canon[i] : i \in 1 .. checkpoint.height + 1}
  /\ \A b \in Block : graph[b] \in {{}, Layers}
  /\ checkpoint.height >= 0 => checkpoint.hash = canon[checkpoint.height + 1]

\* traits.rs on rollback_block, "Must only be called on the current chain tip":
\* when a reorg or the startup walk deletes a layer no block is stored higher.
RollbackOnlyAtTip ==
  [][graph' # graph /\ pc \in {"undo", "rollback"} =>
       \A b \in Stored : Height[b] <= height]_vars

\* What no call of rollback_block will ever find.
Orphaned(b) == {l \in graph[b] : ~Attached(b, l)}

\* queries.rs on the order of the four queries, "Must be called in order": wherever
\* a rollback is cut off, whatever it has not deleted can still be deleted by another
\* one, in the reorg or at the walk after a restart.  Only the outputs of a block that
\* ingest_block left without transactions were out of reach before.
RollbackLeavesNoOrphan == [][\A b \in Block : Orphaned(b)' \subseteq Orphaned(b)]_vars

\* The stored blocks as a sequence, and the chain they are meant to be: every
\* step appends blocks that follow each other, drops the last block, or leaves
\* the sequence as it is.
StoredSequence ==
  LET stored == Stored
      At(k) == {b \in stored : Height[b] = k}
  IN [i \in 1 .. Cardinality(stored) |->
        IF At(i - 1) = {} THEN None ELSE CHOOSE b \in At(i - 1) : TRUE]

Abstract == INSTANCE StoredChain WITH chain <- StoredSequence

ImplementsStoredChain == Abstract!Spec

\* What the chunks and the startup walk do to the store, by heights.
BlockNodes == {Height[b] : b \in Stored}
LinkedNodes == {Height[b] : b \in {x \in Block : Complete(x)}}

Contract == INSTANCE BlockStore WITH
  way <- "batch", nodes <- BlockNodes, linked <- LinkedNodes,
  checkpoint <- checkpoint.height

\* While the node does not reorganise, every chunk, block, failed call and restart
\* is a step of what a writer of chunks promises: the startup walk finds at most
\* one block above the checkpoint, and keeps or removes it.
ImplementsBlockStore == Contract!Spec

-----------------------------------------------------------------------------
(* Restart. *)

\* After sync_checkpoint_with_db nothing is stored at or above the height the
\* process resumes from, whatever an earlier process left behind.
ResumeAboveStore ==
  [][pc' = "catchup" /\ pc \in {"start", "sync"} =>
       \A b \in Stored' : Height[b] < current']_vars

\* The startup walk only removes what lies above the checkpoint and is not
\* complete: work that was checkpointed is never undone by a restart.
WalkSparesCheckpointed ==
  [][\A b \in Block : pc = "undo" /\ graph'[b] # graph[b] =>
       Height[b] > checkpoint.height]_vars

\* The walk never stands at a height above the checkpoint that has no block,
\* where check_block_complete would fail and the command with it, at every launch.
WalkMeetsBlock ==
  pc = "sync" /\ height > checkpoint.height => StoredAt(height) # {}

-----------------------------------------------------------------------------
(* The cache snapshot. *)

\* The height main passes to the final save is the checkpoint's, so the save of
\* a shutdown does not relabel the newer snapshot of the last chunk
\* (utxo-cache-shutdown-height.md, criteria 1 to 5).
SaveHeightIsCheckpoint ==
  committed # -1 /\ pc # "ingest" => committed = checkpoint.height

\* Over the life of the store the snapshot's height never falls: neither the
\* save after a chunk nor the one at shutdown relabels it with an older height.
SnapshotNeverFalls == [][snapshot' >= snapshot]_vars

\* try_save_snapshot runs after the commit: the snapshot never claims a height
\* the checkpoint has not reached.
SnapshotWithinCheckpoint == snapshot <= checkpoint.height

-----------------------------------------------------------------------------
(* Liveness. *)

\* The store is on the branch of c, and has c up to its tip (or to --max-height).
StoredOf(c) == Stored \subseteq {c[i] : i \in 1 .. Len(c)}
Ingested(c) == \A i \in 1 .. Least(Len(c), MaxHeight + 1) : c[i] \in Stored

\* The node has left c for another branch.
Abandoned(c) == \E i \in 1 .. Len(c) : i > Len(canon) \/ canon[i] # c[i]

\* A notification that is received leads to the node's chain of that moment being
\* stored, however many blocks it announces: those mined before the subscription,
\* those whose notifications went down with a socket, those of a branch that a reorg
\* has just rolled back to.  One that is queued is received, unless recv fails.
NotificationIngested ==
  \A c \in Chains :
    /\ pc = "tip" /\ canon = c /\ StoredOf(c) ~> Ingested(c) \/ Abandoned(c)
    /\ pending > 0 /\ canon = c /\ StoredOf(c)
         ~> Ingested(c) \/ Abandoned(c) \/ failures > 0

\* A notification that is received after a reorg leads to every block of the branch
\* the node left being removed, down to the fork point.
ReorgFollowed ==
  \A c \in Chains : pc = "tip" /\ canon = c ~> StoredOf(c) \/ Abandoned(c)

\* Once the process starts it stores the node's chain of that moment, so a
\* catch-up ends whatever the node mines meanwhile.
CatchupIngests ==
  \A c \in Chains : pc = "start" /\ canon = c /\ StoredOf(c) ~> Ingested(c) \/ Abandoned(c)

\* "live" is documented as "catch up via RPC then stream new blocks via ZMQ": a
\* process that is relaunched as often as needed reaches the streaming phase.
ReachesRealTime == (pc = "start") ~> (pc = "wait")

=============================================================================
