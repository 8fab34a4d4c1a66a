----------------------------- MODULE ChunkWriter -----------------------------
(***************************************************************************)
(* How blocks get into Neo4j: the queries that IngestionOrchestrator makes *)
(* for a block, and what Neo4jWriter turns them into.                      *)
(*                                                                         *)
(*   batch    ingest_blocks_batch cuts a batch into chunks that fit the    *)
(*            memory budget and writes each in one transaction; Phase 6    *)
(*            runs in parallel tasks, one per bucket of addresses;         *)
(*   single   ingest_block writes one block in auto-committed queries that *)
(*            are retried.                                                 *)
(*                                                                         *)
(* A query may fail or time out, and one that timed out may have been      *)
(* applied.  A commit may report an error although it was applied.  The    *)
(* process may die anywhere; launched again, it starts with                *)
(* sync_checkpoint_with_db.                                                *)
(*                                                                         *)
(* The graph is a set of facts, a node or relationship each.  A block has  *)
(* one transaction with one output and one input; BIP30 duplicates are two *)
(* heights with the same transaction.  Queries are cut at block            *)
(* boundaries: batch_size records are one block's.  Left out:              *)
(* parent validation, the UTXO cache and the snapshot (LiveSync and        *)
(* BatchChunk), failures inside the sync (LiveSync), and locks of Neo4j.   *)
(***************************************************************************)
EXTENDS Integers, Sequences, FiniteSets, Functions

CONSTANTS
  None,        \* no address, no transaction
  MaxHeight,   \* last block to ingest
  TxOf,        \* TxOf[h]: the transaction of the block at height h
  Spends,      \* Spends[h]: the transaction whose output the block spends, or None
  Bip30,       \* BIP30_DUPLICATE_HEIGHTS: their transaction is an earlier one's
  Payer,       \* Payer[h]: address whose output the block spends, or None
  Payee,       \* Payee[h]: address the block's output pays, or None
  Buckets,     \* NUM_BUCKETS
  BucketOf,    \* BucketOf[a]: the bucket address a hashes to
  BatchSize,   \* blocks read ahead into one batch
  Budget,      \* max_transaction_memory_bytes
  Memories,    \* the memory estimates the blocks may have
  MaxRetries,  \* max_retries
  MaxFaults,   \* bound: failures and crashes of one behaviour
  Modes        \* the ways of ingesting in this instance

Heights == 0 .. MaxHeight

ASSUME WriterAssumption ==
  /\ None \notin {"txn", "auto"}
  /\ MaxHeight \in Nat
  /\ Bip30 \subseteq Heights
  /\ \A h, k \in Heights : h < k /\ TxOf[h] = TxOf[k] => k \in Bip30
  /\ \A h, k \in Heights : TxOf[h] = TxOf[k] =>
        Spends[h] = Spends[k] /\ Payer[h] = Payer[k] /\ Payee[h] = Payee[k]
  /\ \A h \in Heights : Spends[h] # None => \E k \in Heights : k < h /\ TxOf[k] = Spends[h]
  /\ Buckets \in Nat \ {0}
  /\ \A h \in Heights : /\ Payer[h] # None => BucketOf[Payer[h]] \in 1 .. Buckets
                        /\ Payee[h] # None => BucketOf[Payee[h]] \in 1 .. Buckets
  /\ BatchSize \in Nat \ {0}
  /\ Budget \in Nat
  /\ Memories \subseteq [Heights -> Nat \ {0}]
  /\ MaxRetries \in Nat
  /\ MaxFaults \in Nat
  /\ Modes \subseteq {"batch", "single"}

VARIABLES
  \* Neo4j
  durable,     \* the committed facts
  checkpoint,  \* lastProcessedHeight, -1 at first
  txn,         \* active_txn: whether one is open, and what was written in it
  \* the orchestrator
  pc,          \* where it is: "down", a step, or the query it makes next
  next,        \* the block it goes on with
  batch,       \* first and last height of the batch
  scan,        \* compute_adaptive_chunks: ranges so far, open range, its memory
  chunk,       \* index of the range that is written
  at,          \* height whose records are written
  attempt,     \* attempts of run_with_retry that failed
  tasks,       \* the tasks of Phase 6, one per bucket
  awaiting,    \* the task that is awaited
  \* fixed, and bookkeeping for the properties
  mode, memory, faults, collided, adopted

graphVars == <<durable, checkpoint, txn>>
loopVars == <<next, batch, scan, chunk>>
queryVars == <<at, attempt>>
taskVars == <<tasks, awaiting>>
fixed == <<mode, memory>>
seen == <<collided, adopted>>
vars == <<graphVars, pc, loopVars, queryVars, taskVars, fixed, faults, seen>>

-----------------------------------------------------------------------------
(* The chunk *)

Least(a, b) == IF a < b THEN a ELSE b

\* The blocks between begin_transaction and commit_transaction; ingest_block
\* has a batch of one.
Chunk ==
  IF mode = "single" THEN batch.first .. batch.last
  ELSE LET r == scan.ranges[chunk] IN batch.first + r[1] .. batch.first + r[2] - 1

First == CHOOSE h \in Chunk : \A k \in Chunk : h <= k
Last == CHOOSE h \in Chunk : \A k \in Chunk : k <= h

\* Mutant: has_bip30 looks at the first block of the chunk only.
HasBip30First == First \in Bip30

HasBip30 == Chunk \cap Bip30 # {}

-----------------------------------------------------------------------------
(* The queries of queries.rs, by their effect on the facts they see *)

Creating == {"blocks", "outputs", "transactions", "inputs"}
Queries == Creating \cup {"lockedTo", "hasOutput", "performs", "benefits"}

\* Whether the CREATE variant of a query is used, or the MERGE variant.
\* write_blocks_fast and write_has_output_relationships_fast are used for
\* BIP30 chunks too.
Fast(q) == mode = "batch" /\ (q \in {"blocks", "hasOutput"} \/ ~ HasBip30)

\* The node a query creates, unique by a constraint of the schema.
Key(q, h) ==
  CASE q = "blocks" -> <<"block", h>>
    [] q = "outputs" -> <<"output", TxOf[h]>>
    [] q = "transactions" -> <<"tx", TxOf[h]>>
    [] q = "inputs" -> <<"input", TxOf[h]>>

Collides(q, h, view) == q \in Creating /\ Fast(q) /\ Key(q, h) \in view

\* A relationship is made only if the nodes MATCHed for it are there.
Linked(rel, nodes, view) == IF nodes \subseteq view THEN {rel} ELSE {}

LockedTo(h) ==
  IF Payee[h] = None THEN {}
  ELSE {<<"address", Payee[h]>>, <<"lockedTo", TxOf[h], Payee[h]>>}

\* Mutant: the relationship is created without looking, in every mode.
CreateHasOutput(t, view) ==
  LET there == {f \in view : f[1] = "hasOutput" /\ f[2] = t}
  IN Linked(<<"hasOutput", t, Cardinality(there) + 1>>, {<<"tx", t>>, <<"output", t>>}, view)

\* A coinbase spends nothing; an output that is not there is not MATCHed.
SpendsOutput(h, view) ==
  IF Spends[h] = None THEN {}
  ELSE Linked(<<"spends", TxOf[h], Spends[h]>>,
              {<<"tx", TxOf[h]>>, <<"output", Spends[h]>>}, view)

\* CREATE adds a relationship beside those there are, MERGE the first only.
HasOutput(t, view) ==
  LET there == {f \in view : f[1] = "hasOutput" /\ f[2] = t}
  IN IF Fast("hasOutput") \/ there = {}
     THEN Linked(<<"hasOutput", t, Cardinality(there) + 1>>,
                 {<<"tx", t>>, <<"output", t>>}, view)
     ELSE {}

Effect(q, h, view) ==
  LET t == TxOf[h] IN
  CASE q = "blocks" -> {<<"block", h>>} \cup Linked(<<"next", h>>, {<<"block", h - 1>>}, view)
    [] q = "outputs" -> {<<"output", t>>} \cup (IF Fast(q) THEN LockedTo(h) ELSE {})
    [] q = "lockedTo" -> LockedTo(h)
    [] q = "transactions" -> {<<"tx", t>>} \cup Linked(<<"in", t, h>>, {<<"block", h>>}, view)
    [] q = "hasOutput" -> HasOutput(t, view)
    [] q = "inputs" ->
         {<<"input", t>>} \cup Linked(<<"hasInput", t>>, {<<"tx", t>>}, view)
                          \cup SpendsOutput(h, view)
    [] q = "performs" ->
         IF Payer[h] = None THEN {}
         ELSE {<<"address", Payer[h]>>}
              \cup Linked(<<"performs", Payer[h], t>>, {<<"tx", t>>}, view)
    [] q = "benefits" ->
         IF Payee[h] = None \/ <<"tx", t>> \notin view THEN {}
         ELSE {<<"address", Payee[h]>>, <<"benefits", t, Payee[h]>>}

\* check_block_complete: the block's transactions INCLUDED_IN it are counted.
BlockComplete(h) == <<"in", TxOf[h], h>> \in durable

\* rollback_block, of blocks that are not complete: no transaction is INCLUDED_IN
\* them, so the queries that start there find nothing but the block.
RolledBack(H) ==
  {f \in durable : ~ \/ f[1] = "block" /\ f[2] \in H
                     \/ f[1] = "next" /\ {f[2], f[2] - 1} \cap H # {}}

-----------------------------------------------------------------------------
(* Neo4jWriter *)

NoTxn == [open |-> FALSE, facts |-> {}, height |-> None]

\* What a query sees: a transaction's its own writes too.
View(auto) == IF auto THEN durable ELSE durable \cup txn.facts

Apply(auto, facts) ==
  IF auto THEN durable' = durable \cup facts /\ UNCHANGED txn
  ELSE txn' = [txn EXCEPT !.facts = @ \cup facts] /\ UNCHANGED durable

\* Mutant: the transactions of a BIP30 chunk are written like its outputs.
AutoCommitsTransactions(q) ==
  ~ txn.open \/ (q \in {"outputs", "lockedTo", "transactions"} /\ ~ Fast("outputs"))

\* execute_batched uses the active transaction if there is one; write_outputs,
\* the MERGE variant, never does.
AutoCommits(q) == ~ txn.open \/ (q \in {"outputs", "lockedTo"} /\ ~ Fast("outputs"))

\* Something goes wrong, within the bound.
Fault == faults < MaxFaults /\ faults' = faults + 1

Idle == [do |-> "end", via |-> None, ok |-> TRUE]

NoScan == [ranges |-> <<>>, start |-> 0, memory |-> 0, i |-> 0]

Init ==
  /\ durable = {}
  /\ checkpoint = -1
  /\ txn = NoTxn
  /\ pc = "down"
  /\ next = 0
  /\ batch = [first |-> 0, last |-> 0]
  /\ scan = NoScan
  /\ chunk = 0
  /\ at = 0
  /\ attempt = 0
  /\ tasks = [b \in 1 .. Buckets |-> Idle]
  /\ awaiting = 0
  /\ mode \in Modes
  /\ memory \in Memories
  /\ faults = 0
  /\ collided = FALSE
  /\ adopted = {}

-----------------------------------------------------------------------------
(* Starting, and cutting a batch into chunks *)

StoredAbove == {h \in Heights : h > checkpoint /\ <<"block", h>> \in durable}

\* Mutant: the blocks above the checkpoint are adopted unseen.
KeptUnchecked == {checkpoint} \cup StoredAbove

\* The heights at which the checkpoint may be left.
Kept == {checkpoint} \cup {h \in StoredAbove : BlockComplete(h)}

\* Mutant: the ingestion goes on with the block of the checkpoint itself.
LaunchAtCheckpoint ==
  /\ pc = "down"
  /\ \E highest \in Kept :
        /\ \A h \in Kept : h <= highest
        /\ durable' = RolledBack({h \in StoredAbove : h > highest})
        /\ checkpoint' = highest
        /\ adopted' = adopted \cup (checkpoint + 1 .. highest)
        /\ next' = IF highest < 0 THEN 0 ELSE highest
  /\ pc' = "next"
  /\ UNCHANGED <<txn, batch, scan, chunk, queryVars, taskVars, fixed, faults, collided>>

\* sync_checkpoint_with_db: from the highest block down, incomplete blocks are
\* rolled back; the first complete one ends the walk and is the new checkpoint.
Launch ==
  /\ pc = "down"
  /\ \E highest \in Kept :
        /\ \A h \in Kept : h <= highest
        /\ durable' = RolledBack({h \in StoredAbove : h > highest})
        /\ checkpoint' = highest
        /\ adopted' = adopted \cup (checkpoint + 1 .. highest)
        /\ next' = highest + 1
  /\ pc' = "next"
  /\ UNCHANGED <<txn, batch, scan, chunk, queryVars, taskVars, fixed, faults, collided>>

\* The caller's next batch, or the next block of ingest_block.
NextBatch ==
  /\ pc = "next"
  /\ next <= MaxHeight
  /\ batch' = [first |-> next,
               last |-> IF mode = "single" THEN next ELSE Least(next + BatchSize - 1, MaxHeight)]
  /\ scan' = NoScan
  /\ pc' = IF mode = "single" THEN "blocks" ELSE "cut"
  /\ at' = next
  /\ UNCHANGED <<graphVars, next, chunk, attempt, taskVars, fixed, faults, seen>>

Blocks == batch.last - batch.first + 1
Memory(i) == memory[batch.first + i]

\* Mutant: a chunk is closed only after the block that does not fit.
ScanLate ==
  /\ pc = "cut"
  /\ scan.i < Blocks
  /\ LET i == scan.i
         m == Memory(i)
     IN scan' = IF scan.memory + m > Budget
                THEN [ranges |-> Append(scan.ranges, <<scan.start, i + 1>>),
                      start |-> i + 1, memory |-> 0, i |-> i + 1]
                ELSE [scan EXCEPT !.memory = @ + m, !.i = i + 1]
  /\ UNCHANGED <<graphVars, pc, next, batch, chunk, queryVars, taskVars, fixed, faults, seen>>

\* The ranges so far, and the open one if there is a block in it.
Closed(i) ==
  IF scan.start < i THEN Append(scan.ranges, <<scan.start, i>>) ELSE scan.ranges

\* One iteration of compute_adaptive_chunks: a block that does not fit closes
\* the range before it, and is a range of its own when it fits in none.
Scan ==
  /\ pc = "cut"
  /\ scan.i < Blocks
  /\ LET i == scan.i
         m == Memory(i)
     IN scan' = IF scan.memory + m <= Budget
                THEN [scan EXCEPT !.memory = @ + m, !.i = i + 1]
                ELSE IF m <= Budget
                THEN [ranges |-> Closed(i), start |-> i, memory |-> m, i |-> i + 1]
                ELSE [ranges |-> Append(Closed(i), <<i, i + 1>>),
                      start |-> i + 1, memory |-> 0, i |-> i + 1]
  /\ UNCHANGED <<graphVars, pc, next, batch, chunk, queryVars, taskVars, fixed, faults, seen>>

\* The last range is closed, and the first chunk is next.
ScanEnds ==
  /\ pc = "cut"
  /\ scan.i = Blocks
  /\ scan' = [scan EXCEPT !.ranges = Closed(Blocks)]
  /\ chunk' = 1
  /\ pc' = "begin"
  /\ UNCHANGED <<graphVars, next, batch, queryVars, taskVars, fixed, faults, seen>>

-----------------------------------------------------------------------------
(* The transaction *)

Begin ==
  /\ pc = "begin"
  /\ ~ txn.open   \* else: "transaction already active"
  /\ txn' = [NoTxn EXCEPT !.open = TRUE]
  /\ at' = First
  /\ pc' = "blocks"
  /\ UNCHANGED <<durable, checkpoint, loopVars, attempt, taskVars, fixed, faults, seen>>

BeginFails ==
  /\ pc = "begin"
  /\ Fault
  /\ pc' = "exit"
  /\ UNCHANGED <<graphVars, loopVars, queryVars, taskVars, fixed, seen>>

\* The transaction's writes become durable, the checkpoint with them.
Committed ==
  /\ durable' = durable \cup txn.facts
  /\ checkpoint' = txn.height

\* commit_transaction takes the transaction first, then commits it.
Commit ==
  /\ pc = "commit"
  /\ Committed
  /\ txn' = NoTxn
  /\ IF chunk < Len(scan.ranges)
     THEN pc' = "begin" /\ chunk' = chunk + 1 /\ UNCHANGED next
     ELSE pc' = "next" /\ next' = batch.last + 1 /\ UNCHANGED chunk
  /\ UNCHANGED <<batch, scan, queryVars, taskVars, fixed, faults, seen>>

\* The commit reports an error: it may have been applied all the same.
CommitFails ==
  /\ pc = "commit"
  /\ Fault
  /\ Committed \/ UNCHANGED <<durable, checkpoint>>
  /\ txn' = NoTxn
  /\ pc' = "exit"
  /\ UNCHANGED <<loopVars, queryVars, taskVars, fixed, seen>>

\* rollback_transaction, after an error of process_batch_chunk.  Its own
\* failure is logged: Neo4j discards the transaction either way.
Rollback ==
  /\ pc = "rollback"
  /\ txn' = NoTxn
  /\ pc' = "exit"
  /\ UNCHANGED <<durable, checkpoint, loopVars, queryVars, taskVars, fixed, faults, seen>>

\* Where an error of a query leads.
Failed == pc' = IF mode = "batch" THEN "rollback" ELSE "exit"
-----------------------------------------------------------------------------
(* Phases 1 to 5: the queries the orchestrator waits for one by one *)

\* PERFORMS and BENEFITS_TO are left out when there are none.
Simplified(q) == IF q = "performs" THEN Payer[at] # None ELSE Payee[at] # None

After ==
  LET layer(q) == IF Simplified(q) THEN q ELSE "checkpoint" IN
  [blocks |-> "outputs",
   outputs |-> "transactions", lockedTo |-> "transactions",
   transactions |-> "hasOutput",
   hasOutput |-> "inputs",
   inputs |-> IF mode = "batch" THEN "spawn"
              ELSE IF Simplified("performs") THEN "performs" ELSE layer("benefits"),
   performs |-> layer("benefits"),
   benefits |-> "checkpoint"]

\* After a query: the LOCKED_TO of the same block, the next block, or the next
\* phase.
Advance ==
  IF pc = "outputs" /\ ~ Fast("outputs") /\ Payee[at] # None
  THEN pc' = "lockedTo" /\ at' = at
  ELSE IF at < Last
  THEN pc' = (IF pc = "lockedTo" THEN "outputs" ELSE pc) /\ at' = at + 1
  ELSE pc' = After[pc] /\ at' = First

\* A CREATE that meets its node fails by the constraint.
Write ==
  /\ pc \in Queries
  /\ LET auto == AutoCommits(pc) IN
     IF Collides(pc, at, View(auto))
     THEN /\ collided' = TRUE
          /\ Failed
          /\ UNCHANGED <<durable, txn, queryVars>>
     ELSE /\ Apply(auto, Effect(pc, at, View(auto)))
          /\ Advance
          /\ attempt' = 0
          /\ UNCHANGED collided
  /\ UNCHANGED <<checkpoint, loopVars, taskVars, fixed, faults, adopted>>

\* In the transaction a failed query is not tried again.
WriteFails ==
  /\ pc \in Queries
  /\ ~ AutoCommits(pc)
  /\ Fault
  /\ Failed
  /\ UNCHANGED <<graphVars, loopVars, queryVars, taskVars, fixed, seen>>

\* run_with_retry: the attempt fails or times out, applied or not, and is
\* repeated until the retries are used up.
AttemptFails ==
  /\ pc \in Queries
  /\ AutoCommits(pc)
  /\ Fault
  /\ Apply(TRUE, Effect(pc, at, durable)) \/ UNCHANGED <<durable, txn>>
  /\ IF attempt < MaxRetries THEN attempt' = attempt + 1 /\ UNCHANGED pc
     ELSE attempt' = 0 /\ Failed
  /\ UNCHANGED <<checkpoint, loopVars, at, taskVars, fixed, seen>>

-----------------------------------------------------------------------------
(* Phase 6: a task per bucket writes its PERFORMS, then its BENEFITS_TO *)

\* partition_performs_by_address, partition_benefits_by_address.
Work(q, b) ==
  LET address(h) == IF q = "performs" THEN Payer[h] ELSE Payee[h]
  IN {h \in Chunk : address(h) # None /\ BucketOf[address(h)] = b}

\* What task b writes from layer q on; an empty list is not written.
TaskAt(q, b) ==
  [do |-> IF q = "performs" /\ Work("performs", b) # {} THEN "performs"
          ELSE IF q # "end" /\ Work("benefits", b) # {} THEN "benefits" ELSE "end",
   via |-> None, ok |-> TRUE]

TaskAfter(b) == TaskAt(IF tasks[b].do = "performs" THEN "benefits" ELSE "end", b)

Spawn ==
  /\ pc = "spawn"
  /\ tasks' = [b \in 1 .. Buckets |-> TaskAt("performs", b)]
  /\ awaiting' = 1
  /\ pc' = "await"
  /\ UNCHANGED <<graphVars, loopVars, queryVars, fixed, faults, seen>>

\* execute_batched asks for the transaction once, before its first query.
TaskLooks(b) ==
  /\ tasks[b].do # "end" /\ tasks[b].via = None
  /\ tasks' = [tasks EXCEPT ![b].via = IF txn.open THEN "txn" ELSE "auto"]
  /\ UNCHANGED <<graphVars, pc, loopVars, queryVars, awaiting, fixed, faults, seen>>

TaskEffect(b, view) == UNION {Effect(tasks[b].do, h, view) : h \in Work(tasks[b].do, b)}

TaskWrites(b) ==
  /\ tasks[b].via = "auto" \/ (tasks[b].via = "txn" /\ txn.open)
  /\ LET auto == tasks[b].via = "auto"
     IN Apply(auto, TaskEffect(b, View(auto)))
  /\ tasks' = [tasks EXCEPT ![b] = TaskAfter(b)]
  /\ UNCHANGED <<checkpoint, pc, loopVars, queryVars, awaiting, fixed, faults, seen>>

TaskEndsFailed(b) == tasks' = [tasks EXCEPT ![b] = [Idle EXCEPT !.ok = FALSE]]

\* "transaction was unexpectedly closed"
TaskFindsClosed(b) ==
  /\ tasks[b].via = "txn" /\ ~ txn.open
  /\ TaskEndsFailed(b)
  /\ UNCHANGED <<graphVars, pc, loopVars, queryVars, awaiting, fixed, faults, seen>>

\* The query fails, after its retries if it auto-commits.
TaskFails(b) ==
  /\ tasks[b].via # None
  /\ Fault
  /\ \/ tasks[b].via = "auto" /\ Apply(TRUE, TaskEffect(b, durable))
     \/ UNCHANGED <<durable, txn>>
  /\ TaskEndsFailed(b)
  /\ UNCHANGED <<checkpoint, pc, loopVars, queryVars, awaiting, fixed, seen>>

\* Mutant: the results of the tasks are not looked at.
AwaitIgnoringErrors ==
  /\ pc = "await"
  /\ tasks[awaiting].do = "end"
  /\ IF awaiting < Buckets THEN awaiting' = awaiting + 1 /\ UNCHANGED pc
     ELSE pc' = "checkpoint" /\ UNCHANGED awaiting
  /\ UNCHANGED <<graphVars, loopVars, queryVars, tasks, fixed, faults, seen>>

\* The tasks are awaited in order; the first error met is returned, while the
\* tasks after it go on.
Await ==
  /\ pc = "await"
  /\ tasks[awaiting].do = "end"
  /\ IF ~ tasks[awaiting].ok THEN pc' = "rollback" /\ UNCHANGED awaiting
     ELSE IF awaiting < Buckets THEN awaiting' = awaiting + 1 /\ UNCHANGED pc
     ELSE pc' = "checkpoint" /\ UNCHANGED awaiting
  /\ UNCHANGED <<graphVars, loopVars, queryVars, tasks, fixed, faults, seen>>

-----------------------------------------------------------------------------
(* update_checkpoint, and the end of the process *)

UpdateCheckpoint ==
  /\ pc = "checkpoint"
  /\ IF mode = "batch"
     THEN txn' = [txn EXCEPT !.height = Last] /\ pc' = "commit" /\ UNCHANGED <<checkpoint, next>>
     ELSE checkpoint' = Last /\ pc' = "next" /\ next' = Last + 1 /\ UNCHANGED txn
  /\ UNCHANGED <<durable, batch, scan, chunk, queryVars, taskVars, fixed, faults, seen>>

\* run_query_single: not retried.
UpdateCheckpointFails ==
  /\ pc = "checkpoint"
  /\ Fault
  /\ checkpoint' \in {checkpoint} \cup (IF mode = "single" THEN {Last} ELSE {})
  /\ Failed
  /\ UNCHANGED <<durable, txn, loopVars, queryVars, taskVars, fixed, seen>>

\* Mutant: the transaction outlives the error.
GoneKeepsTxn ==
  /\ pc' = "down"
  /\ UNCHANGED txn
  /\ tasks' = [b \in 1 .. Buckets |-> Idle]
  /\ at' = 0 /\ attempt' = 0 /\ awaiting' = 0
  /\ scan' = NoScan /\ chunk' = 0

Gone ==
  /\ pc' = "down"
  /\ txn' = NoTxn
  /\ tasks' = [b \in 1 .. Buckets |-> Idle]
  /\ at' = 0 /\ attempt' = 0 /\ awaiting' = 0
  /\ scan' = NoScan /\ chunk' = 0

\* The error has reached main, which returns; tasks still running are dropped.
Exit ==
  /\ pc = "exit"
  /\ Gone
  /\ UNCHANGED <<durable, checkpoint, next, batch, fixed, faults, seen>>

Crash ==
  /\ pc # "down"
  /\ Fault
  /\ Gone
  /\ UNCHANGED <<durable, checkpoint, next, batch, fixed, seen>>

Process ==
  \/ NextBatch \/ Scan \/ ScanEnds
  \/ Begin \/ Write \/ Spawn \/ Await
  \/ UpdateCheckpoint \/ Commit \/ Rollback \/ Exit
  \/ \E b \in 1 .. Buckets : TaskLooks(b) \/ TaskWrites(b) \/ TaskFindsClosed(b)

Faults ==
  \/ BeginFails \/ WriteFails \/ AttemptFails \/ UpdateCheckpointFails
  \/ CommitFails \/ Crash
  \/ \E b \in 1 .. Buckets : TaskFails(b)

Next == Process \/ Faults \/ Launch

Spec == Init /\ [][Next]_vars

\* Every step of the process ends (queries have timeouts, or the driver
\* reports the lost connection), and the command is launched again.
FairSpec == Spec /\ WF_vars(Process) /\ WF_vars(Launch)

-----------------------------------------------------------------------------
(* Properties *)

\* The orchestrator, the open transaction and the tasks stay within the shapes
\* declared for them; a transaction is open exactly from begin to its end.
WriterTypeOK ==
  /\ checkpoint \in -1 .. MaxHeight
  /\ txn.height \in Heights \cup {None}
  /\ txn.open => mode = "batch"
  /\ pc \in Queries => at \in Chunk
  /\ pc \in Queries \cup {"spawn", "await", "checkpoint", "commit", "rollback"}
       => (txn.open <=> mode = "batch")
  /\ pc \in {"down", "next", "cut", "begin"} => ~ txn.open
  /\ attempt \in 0 .. MaxRetries
  /\ \A b \in 1 .. Buckets : tasks[b].do # "end" => pc \in {"await", "rollback", "exit"}

\* What the graph has to hold of a block.
FactsOf(h) ==
  LET t == TxOf[h] IN
  {<<"block", h>>, <<"tx", t>>, <<"in", t, h>>, <<"output", t>>, <<"hasOutput", t, 1>>,
   <<"input", t>>, <<"hasInput", t>>}
  \cup LockedTo(h)
  \cup (IF Spends[h] = None THEN {} ELSE {<<"spends", t, Spends[h]>>})
  \cup (IF h = 0 THEN {} ELSE {<<"next", h>>})
  \cup (IF Payer[h] = None THEN {} ELSE {<<"address", Payer[h]>>, <<"performs", Payer[h], t>>})
  \cup (IF Payee[h] = None THEN {} ELSE {<<"benefits", t, Payee[h]>>})

\* Beyond the checkpoint there are nodes of addresses, left by tasks that
\* outlived their transaction, and the outputs of blocks that share a batch
\* with a BIP30 block; nothing else of a chunk that did not commit.
Expected(f) ==
  \/ f[1] = "address"
  \/ \E h \in 0 .. checkpoint : f \in FactsOf(h) \/ (f[1] = "hasOutput" /\ f[2] = TxOf[h])
  \/ /\ f[1] \in {"output", "lockedTo"}
     /\ \E d \in Bip30, h \in Heights :
          f \in FactsOf(h) /\ h - d < BatchSize /\ d - h < BatchSize

\* A chunk of ingest_blocks_batch is all or nothing: whatever fails, and
\* whichever tasks of Phase 6 run on after the rollback, the graph never holds
\* a part of an uncommitted chunk that the next attempt would take for data,
\* other than the outputs that write_outputs commits on its own.
AtomicChunks == mode = "batch" => \A f \in durable : Expected(f)

\* Every block up to the checkpoint is in the graph with all its nodes and
\* relationships.  Excepted are the blocks that sync_checkpoint_with_db took
\* over from an ingest_block that had not ended.
CheckpointedWhole ==
  \A h \in Heights : h <= checkpoint /\ h \notin adopted => FactsOf(h) \subseteq durable

\* What check_block_complete and get_max_block_height can see of the graph.
BlockNodes == {h \in Heights : <<"block", h>> \in durable}
LinkedNodes == {h \in Heights : BlockComplete(h)}

Contract == INSTANCE BlockStore WITH
  way <- mode, nodes <- BlockNodes, linked <- LinkedNodes

\* Whatever fails, is retried or is late, block nodes, their transactions and the
\* checkpoint change as a writer of blocks promises: a chunk all at once, a block of
\* ingest_block node first, transactions next, checkpoint last, and a start keeps or
\* removes the one block above the checkpoint by whether its transactions are there.
ImplementsBlockStore == Contract!Spec

\* No CREATE of a batch meets a node that is already there: not the second
\* transaction of a BIP30 pair, and after a failure not the outputs which the
\* failed attempt left, though the chunks are cut anew.
NeverCollides == ~ collided

\* However often a query of ingest_block was applied without the writer knowing,
\* and however often the block was started anew, HAS_OUTPUT is there once.
RetriesAddNothing ==
  mode = "single" => \A f \in durable : f[1] = "hasOutput" => f[3] = 1

\* The estimates of the blocks that a range of the batch covers.
Total(r) == SumFunctionOnSet(memory, batch.first + r[1] .. batch.first + r[2] - 1)

\* "Each chunk's total estimated memory is at most max_memory_bytes", but for a
\* single block that is larger; and none of the chunks could take the first
\* block of the next one too.
ChunksFit ==
  \A k \in 1 .. Len(scan.ranges) :
    LET r == scan.ranges[k] IN
    /\ Total(r) <= Budget \/ r[2] = r[1] + 1
    /\ r[2] < scan.i => Total(<<r[1], r[2] + 1>>) > Budget

\* Failures end, so the chain is ingested to its last block, in both ways:
\* nothing that a failed attempt leaves behind stops the next one.
ChainIngested == <>(checkpoint = MaxHeight)

\* "Use only during forward ingestion when relationships are guaranteed new":
\* a transaction and its output are linked by one HAS_OUTPUT.
HasOutputOnce == \A f \in durable : f[1] = "hasOutput" => f[3] = 1

=============================================================================
