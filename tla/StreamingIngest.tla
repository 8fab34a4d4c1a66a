--------------------------- MODULE StreamingIngest ---------------------------
(***************************************************************************)
(* The commands ingest and resume: run_streaming_ingestion of main.rs with *)
(* the loader of parser/single_block_loader.rs, the cache it pre-warms and *)
(* the snapshot file of that cache.                                        *)
(*                                                                         *)
(*   launch    the checkpoint decides where to start                       *)
(*   restore   the cache is read from its file                             *)
(*   prewarm   blocks below the start fill what is left of it (resume)     *)
(*   preload   the index of a bounded run is read in one scan              *)
(*   load      one block after the other, until a batch is full            *)
(*   ingest    the chunks of the batch, each followed by a snapshot        *)
(*   finish    a last snapshot                                             *)
(*                                                                         *)
(* A chunk is one step here: ChunkWriter shows that it is atomic, and      *)
(* BatchChunk what happens to the cache within it.  Its amounts and its    *)
(* relationships are represented by PERFORMS, which needs the address of   *)
(* the output that is spent, from the cache or from the graph.  Every      *)
(* error ends the command; the operator runs resume again.                 *)
(***************************************************************************)
EXTENDS BlockIndex, UtxoCache, SequencesExt

CONSTANTS
  Creates,     \* Creates[h]: the outputs of the main block at height h
  Spends,      \* Spends[h]: the outputs it spends
  PubKey,      \* outputs to a public key, a script type of its own (P2PK)
  ReadAhead,   \* READ_AHEAD_BLOCKS
  IndexBatch,  \* INDEX_BATCH_SIZE
  Sentinel,    \* 255: a checkpoint that is read as the initial one
  Orders,      \* the scan orders of LevelDB
  Limits,      \* values of --max-height, None for the chain tip
  Depths,      \* values of utxo_prewarm_depth
  MaxFaults    \* bound: failures, crashes and mistaken commands

ASSUME StreamAssumption ==
  /\ Creates \in [Heights -> Seq(Output)]
  /\ Spends \in [Heights -> SUBSET Output]
  /\ Shard \in [Output -> Nat]
  /\ PubKey \subseteq Output
  /\ ReadAhead \in Nat \ {0} /\ IndexBatch \in Nat \ {0}
  /\ Orders \subseteq Seq(Entries)
  /\ \A o \in Orders : IsInjective(o) /\ {Main(h) : h \in Heights} \subseteq ToSet(o)
  /\ Limits \subseteq Nat \cup {None}
  /\ Depths \subseteq Nat
  /\ MaxFaults \in Nat

VARIABLES
  \* fixed: the node's index, and the options
  order, limit, depth,
  \* Neo4j
  stored,      \* stored[h]: the block at height h, or None
  heads,       \* the heights at which a committed chunk begins
  checkpoint,  \* lastProcessedHeight, None before init-schema
  performed,   \* spent outputs whose PERFORMS was written
  \* the process
  pc,
  start, height,  \* start_height, and the loop's height
  batch,       \* blocks read ahead
  index,       \* block_index of the loader
  cache,       \* the UTXO cache, see UtxoCache
  known,       \* cached outputs whose address is known
  walked,      \* blocks loaded by prewarm_cache
  prewarmed,   \* history: outputs ever cached by prewarm_cache
  label,       \* height of the snapshot that is saved
  ending,      \* whether it is the one on completion
  \* the disk
  file, temp,  \* the snapshot, and the file it is written to first
  faults

options == <<order, limit, depth>>
graphVars == <<stored, heads, checkpoint, performed>>
cacheVars == <<cache, known>>
warmVars == <<walked, prewarmed>>
disk == <<file, temp>>
vars == <<options, graphVars, pc, start, height, batch, index, cacheVars, warmVars,
          label, ending, disk, faults>>

-----------------------------------------------------------------------------
(* Operators *)

Genesis == 0
Bounded == limit # None

\* A checkpoint as get_checkpoint returns it.
ReadHeight(c) == IF c \in {None, Sentinel} THEN -1 ELSE c

StoredHeights == {h \in Heights : stored[h] # None}

MaxStored == IF StoredHeights = {} THEN -1
             ELSE CHOOSE h \in StoredHeights : \A k \in StoredHeights : k <= h

\* Blocks of another branch create and spend nothing that matters here.
CreatedBy(e) == IF e.main THEN Creates[e.height] ELSE <<>>
SpentBy(e) == IF e.main THEN Spends[e.height] ELSE {}

InGraph == UNION {ToSet(CreatedBy(stored[h])) : h \in StoredHeights}

\* A chain is linked where a block's parent is the one stored below; the
\* parent of every block here is on the main chain.
LinkedAt(h) == h > Genesis /\ stored[h - 1] # None => stored[h - 1].main

HasCapacity == \E s \in {Shard[o] : o \in Output} :
                 Cardinality({o \in Cached(cache) : Shard[o] = s}) < Capacity

ShardFull(r, o) == Cardinality(Cached(r) \cap SameShard(o)) >= Capacity

-----------------------------------------------------------------------------
(* Snapshot files *)

\* Shard by shard, the most recently used first.
ByRecency(r) ==
  {p \in Cached(r) \X Cached(r) :
     \/ Shard[p[1]] < Shard[p[2]]
     \/ Shard[p[1]] = Shard[p[2]] /\ r[p[1]] < r[p[2]]}

\* The entries of a cache as save_to_file writes them.
Listed(r) == Sorted(Cached(r), ByRecency(r))

\* Mutant: the entries are put in the order of the file.
RestoredInOrder(entries) == FoldLeft(Put, EmptyCache, entries)

\* load_from_file puts them in reverse.
Restored(entries) == FoldLeft(Put, EmptyCache, Reverse(entries))

NoFile == [whole |-> TRUE, entries |-> <<>>, known |-> {}, height |-> None]
Partial == [NoFile EXCEPT !.whole = FALSE]

Init ==
  /\ order \in Orders /\ limit \in Limits /\ depth \in Depths
  /\ stored = [h \in Heights |-> None]
  /\ heads = {}
  /\ checkpoint = None
  /\ performed = {}
  /\ pc = "down"
  /\ start = 0 /\ height = 0
  /\ batch = <<>>
  /\ index = <<>>
  /\ cache = EmptyCache
  /\ known = {}
  /\ walked = 0
  /\ prewarmed = {}
  /\ label = 0 /\ ending = FALSE
  /\ file = NoFile /\ temp = NoFile
  /\ faults = 0

Fault == faults < MaxFaults /\ faults' = faults + 1

\* The command ends, whatever it has in memory is gone.
Gone ==
  /\ pc' = "down"
  /\ start' = 0 /\ height' = 0 /\ walked' = 0
  /\ label' = 0 /\ ending' = FALSE
  /\ batch' = <<>> /\ index' = <<>>
  /\ cache' = EmptyCache /\ known' = {}

Stop == Gone /\ UNCHANGED <<options, graphVars, prewarmed, disk, faults>>

Crash ==
  /\ pc # "down"
  /\ Fault
  /\ Gone
  /\ UNCHANGED <<options, graphVars, prewarmed, disk>>

-----------------------------------------------------------------------------
(* Launch *)

Launched(from) ==
  /\ start' = from /\ height' = from
  /\ pc' = "restore"
  /\ UNCHANGED <<options, stored, heads, performed, batch, index, cacheVars, warmVars,
                 label, ending, disk>>

\* ingest initialises the schema if there is no checkpoint, and turns back
\* when the resume height is above zero.
Ingest ==
  /\ pc = "down"
  /\ ReadHeight(checkpoint) = -1
  /\ IF checkpoint = None THEN UNCHANGED faults ELSE Fault
  /\ checkpoint' = IF checkpoint = None THEN -1 ELSE checkpoint
  /\ Launched(0)

\* resume: sync_checkpoint_with_db takes the highest block for the checkpoint,
\* as all blocks are complete, and a bounded run turns back at its limit.
Resume ==
  /\ pc = "down"
  /\ checkpoint # None
  /\ LET read == ReadHeight(checkpoint)
         synced == IF MaxStored > read THEN MaxStored ELSE read
     IN /\ ~ (Bounded /\ synced + 1 >= limit)
        /\ checkpoint' = IF MaxStored > read THEN synced ELSE checkpoint
        /\ Launched(synced + 1)
  /\ UNCHANGED faults

\* load_from_file; a file that is not whole is an error, which is logged.
Restore ==
  /\ pc = "restore"
  /\ IF file.whole
     THEN cache' = Restored(file.entries) /\ known' = file.known
     ELSE UNCHANGED cacheVars
  /\ pc' = IF depth > 0 /\ start > 0 THEN "begin prewarm" ELSE "preload"
  /\ UNCHANGED <<options, graphVars, start, height, batch, index, warmVars, label, ending, disk,
                 faults>>

-----------------------------------------------------------------------------
(* Pre-warming, and the index of a bounded run *)

\* The loader's index, with a batch merged in.
With(found) ==
  [h \in DOMAIN index \cup DOMAIN found |-> IF h \in DOMAIN found THEN found[h] ELSE index[h]]

\* preload_full_range before the walk.  ingest does not pre-warm, but starts at
\* zero, where resume would not either.
BeginPrewarm ==
  /\ pc = "begin prewarm"
  /\ index' = With(LoadBatch(order, IF start > depth THEN start - depth ELSE 0, start - 1))
  /\ pc' = "prewarm"
  /\ UNCHANGED <<options, graphVars, start, height, batch, cacheVars, warmVars, label, ending, disk, faults>>

\* ensure_loaded
WithHeight(h) ==
  IF h \in DOMAIN index THEN index ELSE With(LoadBatch(order, h, h + IndexBatch - 1))

\* Mutant: the outputs are inserted like any others.
InsertPrewarmEvicting(w, o) == [r |-> Put(w.r, o), in |-> w.in \cup {o}, ok |-> TRUE]

\* insert_prewarm refuses when the shard is full, whether o is in it or not;
\* the walk ends with the first refusal.
InsertPrewarm(w, o) ==
  IF ~ w.ok THEN w
  ELSE IF ShardFull(w.r, o) THEN [w EXCEPT !.ok = FALSE]
  ELSE [r |-> Put(w.r, o), in |-> w.in \cup {o}, ok |-> TRUE]

\* The walk goes on: not full, not deep enough, and never to the genesis block.
WalkAt == start - 1 - walked
Walks == pc = "prewarm" /\ HasCapacity /\ walked < depth /\ WalkAt > Genesis

\* The address that prewarm_cache derives: none of a public key, where
\* extract_address hashes it.
PrewarmBlock ==
  /\ Walks
  /\ index' = WithHeight(WalkAt)
  /\ WalkAt \in DOMAIN index' /\ index'[WalkAt].data
  /\ LET w == FoldLeft(InsertPrewarm, [r |-> cache, in |-> {}, ok |-> TRUE],
                       CreatedBy(index'[WalkAt]))
     IN /\ cache' = w.r
        /\ known' = (known \ w.in) \cup (w.in \ PubKey)
        /\ prewarmed' = prewarmed \cup w.in
        /\ walked' = walked + 1
        /\ pc' = IF w.ok THEN "prewarm" ELSE "preload"
  /\ UNCHANGED <<options, graphVars, start, height, batch, label, ending, disk, faults>>

EndPrewarm ==
  /\ pc = "prewarm"
  /\ Walks => WalkAt \notin DOMAIN WithHeight(WalkAt)
  /\ pc' = "preload"
  /\ UNCHANGED <<options, graphVars, start, height, batch, index, cacheVars, warmVars, label, ending,
                 disk, faults>>

Preload ==
  /\ pc = "preload"
  /\ index' = IF Bounded THEN With(LoadBatch(order, start, limit)) ELSE index
  /\ pc' = "load"
  /\ UNCHANGED <<options, graphVars, start, height, batch, cacheVars, warmVars, label, ending, disk, faults>>

-----------------------------------------------------------------------------
(* The loop *)

Loads == pc = "load" /\ ~ (Bounded /\ height > limit)

\* Mutant: only a full batch is ingested.
LoadFullOnly ==
  /\ Loads
  /\ index' = WithHeight(height)
  /\ height \in DOMAIN index' /\ index'[height].data
  /\ batch' = Append(batch, index'[height])
  /\ height' = height + 1
  /\ pc' = IF Len(batch') = ReadAhead THEN "ingest" ELSE "load"
  /\ UNCHANGED <<options, graphVars, start, cacheVars, warmVars, label, ending, disk, faults>>

\* load_block: the block joins the batch, which is ingested when it is full or
\* the limit is reached.
Load ==
  /\ Loads
  /\ index' = WithHeight(height)
  /\ height \in DOMAIN index' /\ index'[height].data
  /\ batch' = Append(batch, index'[height])
  /\ height' = height + 1
  /\ pc' = IF Len(batch') = ReadAhead \/ height = limit THEN "ingest" ELSE "load"
  /\ UNCHANGED <<options, graphVars, start, cacheVars, warmVars, label, ending, disk, faults>>

\* The record names no data in the file: load_block fails, here or in the walk.
LoadFails ==
  LET h == IF pc = "load" THEN height ELSE WalkAt IN
  /\ Loads \/ Walks
  /\ h \in DOMAIN WithHeight(h) /\ ~ WithHeight(h)[h].data
  /\ Stop

ReadFails ==
  /\ Loads \/ Walks
  /\ Fault
  /\ Gone
  /\ UNCHANGED <<options, graphVars, prewarmed, disk>>

\* The loop ends at the limit, or with a block that is not found; what has been
\* read ahead by then is dropped.
EndLoop ==
  /\ pc = "load"
  /\ Loads => height \notin DOMAIN WithHeight(height)
  /\ label' = height - Len(batch)   \* start_height + blocks_processed
  /\ ending' = TRUE
  /\ pc' = "save"
  /\ UNCHANGED <<options, graphVars, start, height, batch, index, cacheVars, warmVars, disk, faults>>

-----------------------------------------------------------------------------
(* A chunk of ingest_blocks_batch *)

\* compute_adaptive_chunks may cut the batch after any block.
NextChunks == {SubSeq(batch, 1, n) : n \in 1 .. Len(batch)}

FirstOf(chunk) == chunk[1].height
LastOf(chunk) == chunk[Len(chunk)].height

\* Mutant: the parent of the first block is not validated.
ValidUnchecked(chunk) == \A i \in 1 .. Len(chunk) : stored[chunk[i].height] = None

\* Mutant: a block that is stored is merged, and overwritten.
ValidMerged(chunk) == LinkedAt(FirstOf(chunk))

\* The first block has to follow the one stored below it, and the heights are
\* unique: a CREATE fails for a block that is stored.
Valid(chunk) ==
  /\ LinkedAt(FirstOf(chunk))
  /\ \A i \in 1 .. Len(chunk) : stored[chunk[i].height] = None

InputsOf(chunk) == UNION {SpentBy(chunk[i]) : i \in 1 .. Len(chunk)}
OutputsOf(chunk) == FlattenSeq([i \in 1 .. Len(chunk) |-> CreatedBy(chunk[i])])

\* Mutant: what is not cached is not looked up in the graph.
MissesIgnored(chunk) == {}

\* The inputs that are not cached and that the graph knows.
Misses(chunk) == (InputsOf(chunk) \ Cached(cache)) \cap InGraph

\* The cache as the chunk leaves it: hits are promoted, misses and then the new
\* outputs are put in, and the spent ones are removed.
Created(chunk) ==
  LET hits == InputsOf(chunk) \cap Cached(cache)
  IN FoldLeft(Put, FoldLeft(Put, FoldLeft(Touch, cache, SetToSeq(hits)), SetToSeq(Misses(chunk))),
              OutputsOf(chunk))

Spent(r, chunk) == FoldLeft(Pop, r, SetToSeq(InputsOf(chunk)))

\* The inputs whose PERFORMS is written: their address was cached, or the graph
\* has it, or their output is one of the chunk's that is still cached.
Performs(chunk) ==
  {o \in InputsOf(chunk) :
     IF o \in Cached(cache) THEN o \in known
     ELSE o \in Misses(chunk) \/ o \in Cached(Created(chunk))}

Stored(chunk) ==
  /\ stored' = [h \in Heights |-> IF h \in FirstOf(chunk) .. LastOf(chunk)
                                  THEN chunk[h - FirstOf(chunk) + 1] ELSE stored[h]]
  /\ heads' = heads \cup {FirstOf(chunk)}
  /\ checkpoint' = LastOf(chunk)
  /\ performed' = performed \cup Performs(chunk)

IngestChunk(chunk) ==
  /\ pc = "ingest"
  /\ Valid(chunk)
  /\ Stored(chunk)
  /\ cache' = Spent(Created(chunk), chunk)
  /\ known' = (known \cup Misses(chunk) \cup ToSet(OutputsOf(chunk))) \cap Cached(cache')
  /\ batch' = SubSeq(batch, Len(chunk) + 1, Len(batch))
  /\ label' = LastOf(chunk)
  /\ pc' = "save"
  /\ UNCHANGED <<options, start, height, index, warmVars, ending, disk, faults>>

\* The commit was applied and is reported as failed.
CommitFails(chunk) ==
  /\ pc = "ingest"
  /\ Valid(chunk)
  /\ Fault
  /\ Stored(chunk)
  /\ Gone
  /\ UNCHANGED <<options, prewarmed, disk>>

\* ReorgDetected, or a constraint.
ChunkRefused(chunk) == pc = "ingest" /\ ~ Valid(chunk) /\ Stop

-----------------------------------------------------------------------------
(* save_to_file *)

\* Mutant: the entries are written to the file itself.
BeginSaveInPlace ==
  /\ pc = "save"
  /\ file' = Partial
  /\ pc' = "write"
  /\ UNCHANGED <<options, graphVars, start, height, batch, index, cacheVars, warmVars, label, ending,
                 temp, faults>>

BeginSave ==
  /\ pc = "save"
  /\ temp' = Partial
  /\ pc' = "write"
  /\ UNCHANGED <<options, graphVars, start, height, batch, index, cacheVars, warmVars, label, ending,
                 file, faults>>

\* Entries, header and checksum are complete, and synced to the disk.
FinishWriting ==
  /\ pc = "write"
  /\ temp' = [whole |-> TRUE, entries |-> Listed(cache), known |-> known, height |-> label]
  /\ pc' = "rename"
  /\ UNCHANGED <<options, graphVars, start, height, batch, index, cacheVars, warmVars, label, ending,
                 file, faults>>

AfterSave ==
  IF ending THEN Gone
  ELSE /\ pc' = IF batch = <<>> THEN "load" ELSE "ingest"
       /\ UNCHANGED <<start, height, batch, index, cacheVars, walked, label, ending>>

Rename ==
  /\ pc = "rename"
  /\ file' = temp
  /\ temp' = NoFile
  /\ AfterSave
  /\ UNCHANGED <<options, graphVars, prewarmed, faults>>

\* A failure is logged, and the ingestion goes on.
SaveFails ==
  /\ pc \in {"save", "write", "rename"}
  /\ Fault
  /\ AfterSave
  /\ UNCHANGED <<options, graphVars, prewarmed, disk>>

-----------------------------------------------------------------------------
(* Specification *)

Process ==
  \/ Restore
  \/ BeginPrewarm \/ PrewarmBlock \/ EndPrewarm \/ Preload
  \/ Load \/ LoadFails \/ EndLoop
  \/ \E chunk \in NextChunks : IngestChunk(chunk) \/ ChunkRefused(chunk)
  \/ BeginSave \/ FinishWriting \/ Rename

Faults == ReadFails \/ (\E chunk \in NextChunks : CommitFails(chunk)) \/ SaveFails \/ Crash

Next == Process \/ Faults \/ Ingest \/ Resume

Spec == Init /\ [][Next]_vars

\* A command runs to its end, and the operator goes on launching commands.
FairSpec == Spec /\ WF_vars(Process) /\ WF_vars(Ingest \/ Resume)

-----------------------------------------------------------------------------
(* Of the blocks, and of the cache *)

\* A transaction spends outputs of its block or of blocks below, as consensus
\* has it: no output is created at or above the height it is spent at, except in
\* that block itself.
SpentAfterCreated ==
  \A h, k \in Heights : \A o \in Spends[h] : o \in ToSet(Creates[k]) => k <= h

\* What a batch of blocks creates has room in the shards.  Nothing in the code
\* sees to it: where it fails, an output may be evicted between the phases that
\* create it and read it.
BatchHasRoom ==
  \A from \in Heights : \A o \in Output :
    LET ahead == {h \in Heights : from <= h /\ h < from + ReadAhead}
        created == UNION {ToSet(Creates[h]) : h \in ahead}
    IN Cardinality(SameShard(o) \cap created) <= Capacity

-----------------------------------------------------------------------------
(* Properties *)

\* The store ends at the checkpoint, the cache keeps within its shards, and a
\* batch is what lies between the checkpoint and the loop's height.
StreamTypeOK ==
  /\ checkpoint = None \/ checkpoint = MaxStored
  /\ \A h \in Heights : stored[h] # None => stored[h] \in Entries /\ stored[h].height = h
  /\ known \subseteq Output
  /\ \A o \in Output : cache[o] \in 0 .. Capacity
  /\ Len(batch) <= ReadAhead
  /\ pc = "load" => \A i \in 1 .. Len(batch) : batch[i].height = height - Len(batch) + i - 1

\* Committed blocks stay as they are, and the checkpoint does not fall: not
\* even ingest, which takes the checkpoint Sentinel for a fresh database and
\* starts at zero, overwrites anything.
StoredStays ==
  [][/\ \A h \in Heights : stored[h] # None => stored'[h] = stored[h]
     /\ checkpoint # None => checkpoint' >= checkpoint]_vars

\* Pre-warming fills what the restored snapshot has left free, it pushes
\* nothing out that is more recent.
PrewarmNeverEvicts == [][pc = "prewarm" /\ pc' # "down" => Cached(cache) \subseteq Cached(cache')]_vars

\* The file can be read, and its height is one the graph has reached.
FileReadable == file.whole /\ (file.height # None => file.height <= MaxStored + 1)

\* A crash or a full disk during a save leaves a file that can be read, and its
\* entries are outputs the graph has, at a height it has reached.  Only where the
\* index has several records of a height may pre-warming have read another one
\* than was stored, as it scans other ranges.
SnapshotUsable ==
  /\ FileReadable
  /\ \/ ToSet(file.entries) \subseteq InGraph
     \/ ~ Unambiguous(order, Heights) /\ ToSet(file.entries) \subseteq InGraph \cup prewarmed

\* The restored cache is the saved one, with its recency.
RestoreKeepsRecency ==
  [][pc = "restore" /\ pc' # "down" => Listed(cache') = file.entries]_vars

\* For whatever order the hashes have, the main chain is found unless there is
\* a block of another branch, which is taken for corruption.
MainChainFound ==
  \A top \in Heights :
    GetMainChain(order, top) =
      IF Unambiguous(order, 0 .. top) THEN [i \in 1 .. top + 1 |-> Main(i - 1)] ELSE None

\* Whatever the index has been read like, a run that ends on its own has ingested
\* all blocks up to its limit, or, with no limit within the chain, all but the
\* last that did not fill a batch.
RunCompletes ==
  pc = "save" /\ ending =>
    IF limit \in Heights THEN checkpoint = limit ELSE Tip - checkpoint < ReadAhead

\* Whatever block of a height the index yields, no chunk is put on top of a
\* block that is not its parent.
ChunkHeadsLink ==
  \A h \in heads : h > 0 => stored[h - 1].main

\* Every output of the graph that is spent has its PERFORMS, through evictions,
\* restarts and stale snapshots, but for those to a public key that pre-warming
\* has cached.
PerformsUnlessPrewarmed ==
  \A h \in StoredHeights :
    SpentBy(stored[h]) \cap InGraph \subseteq performed \cup (prewarmed \cap PubKey)

\* However often the command fails, resuming it gets to the end: the block at
\* the limit may be missing when the command was stopped just before it.
RunsToTheEnd ==
  Unambiguous(order, Heights) =>
    <>[](checkpoint # None /\ IF limit \in Heights THEN checkpoint >= limit - 1
                              ELSE Tip - checkpoint < ReadAhead)

\* "All address types: P2PKH, P2SH, P2WPKH, P2WSH, P2TR, P2PK": every output
\* that is spent has its PERFORMS.
PerformsComplete == \A h \in StoredHeights : SpentBy(stored[h]) \cap InGraph \subseteq performed

=============================================================================
