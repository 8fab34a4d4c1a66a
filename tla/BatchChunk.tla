----------------------------- MODULE BatchChunk -----------------------------
(***************************************************************************)
(* What happens inside one chunk of ingest_blocks_batch, between the       *)
(* validated parent hash and the snapshot, as far as the amounts of its    *)
(* transactions depend on it:                                              *)
(*                                                                         *)
(*   get      the inputs' outputs are looked up in the cache               *)
(*   refill   those not cached are read from the graph and cached          *)
(*   create   Phase 2 caches the outputs the chunk creates                 *)
(*   resolve  Phase 3b looks the remaining inputs up in the cache, then    *)
(*            Phase 3c adds up what was found                              *)
(*   spend    Phase 7 drops the spent outputs from the cache               *)
(*                                                                         *)
(* and then the transaction commits and the cache is saved.  The amount of *)
(* a transaction's inputs is represented by the set of inputs that were    *)
(* added up, so that a sum is right exactly when that set is complete.     *)
(*                                                                         *)
(* Every error ends the command, so a failing query is Die like a crash.   *)
(* Within a phase the code follows the order of the transactions; here any *)
(* order may be taken.  Chunks are linked here; LiveSync says when they    *)
(* are not.  BIP30 duplicates are left out: a transaction id names one     *)
(* transaction.                                                            *)
(***************************************************************************)
EXTENDS BlockTree, UtxoCache

CONSTANTS
  Tx,         \* the transactions
  Txs,        \* Txs[b]: the transactions of block b
  Outs,       \* Outs[t]: the outputs t creates
  Ins,        \* Ins[t]: the outputs t spends, none for a coinbase
  ChunkSize   \* blocks that fit the memory budget of a chunk

ASSUME TxAssumption ==
  /\ Txs \in [Block -> SUBSET Tx]
  /\ Outs \in [Tx -> SUBSET Output]
  /\ Ins \in [Tx -> SUBSET Output]
  /\ ChunkSize \in Nat

VARIABLES
  stored,     \* the chain whose blocks are committed to the graph
  counted,    \* counted[t]: inputs added up in the stored total_input of t
  pc,         \* the phase, "idle" between chunks, "down" without a process
  target,     \* the chain that is stored once the chunk commits
  todo,       \* keys the phase has still to handle
  found,      \* keys of all_outputs: prefetched, or resolved in Phase 3b
  cache,      \* orchestrator.utxo_cache
  snapshot    \* the entries of the cache file

vars == <<stored, counted, pc, target, todo, found, cache, snapshot>>

Phase == {"get", "refill", "create", "resolve", "spend"}

BlocksOf(c) == {c[i] : i \in 1 .. Len(c)}
Above(c, n) == {c[i] : i \in (n + 1) .. Len(c)}

Contents(B) == UNION {Txs[b] : b \in B}
Created(B) == UNION {Outs[t] : t \in Contents(B)}
Spent(B) == UNION {Ins[t] : t \in Contents(B)}

Chunk == Above(target, Len(stored))

\* lookup_outputs_batch: the graph has the outputs of the stored blocks.
InGraph == Created(BlocksOf(stored))

Init ==
  /\ stored = <<>>
  /\ counted = [t \in Tx |-> {}]
  /\ pc = "idle"
  /\ target = <<>>
  /\ todo = {}
  /\ found = {}
  /\ cache = EmptyCache
  /\ snapshot = EmptyCache

-----------------------------------------------------------------------------
(* Before the transaction *)

Begin ==
  /\ pc = "idle"
  /\ \E c \in Chains :
       /\ Len(stored) < Len(c)
       /\ Len(c) <= Len(stored) + ChunkSize
       /\ stored = SubSeq(c, 1, Len(stored))
       /\ target' = c
       /\ todo' = Spent(Above(c, Len(stored)))
  /\ pc' = "get"
  /\ found' = {}
  /\ UNCHANGED <<stored, counted, cache, snapshot>>

\* get_many: a hit is kept and promoted.
Hit(k) ==
  /\ pc = "get"
  /\ k \in todo \cap Cached(cache)
  /\ found' = found \cup {k}
  /\ todo' = todo \ {k}
  /\ cache' = Touch(cache, k)
  /\ UNCHANGED <<stored, counted, pc, target, snapshot>>

\* The misses are read from the graph; those it lacks are left to Phase 2.
LookUpMisses ==
  /\ pc = "get"
  /\ todo \cap Cached(cache) = {}
  /\ todo' = todo \cap InGraph
  /\ pc' = "refill"
  /\ UNCHANGED <<stored, counted, target, found, cache, snapshot>>

\* Mutant: what the graph knows is cached but not handed on, as if Phase 3b
\* could rely on the cache.
RefillCacheOnly(k) ==
  /\ pc = "refill"
  /\ k \in todo
  /\ todo' = todo \ {k}
  /\ cache' = Put(cache, k)
  /\ UNCHANGED <<stored, counted, pc, target, found, snapshot>>

Refill(k) ==
  /\ pc = "refill"
  /\ k \in todo
  /\ found' = found \cup {k}
  /\ todo' = todo \ {k}
  /\ cache' = Put(cache, k)
  /\ UNCHANGED <<stored, counted, pc, target, snapshot>>

-----------------------------------------------------------------------------
(* Within the transaction *)

BeginTransaction ==
  /\ pc = "refill"
  /\ todo = {}
  /\ todo' = Created(Chunk)
  /\ pc' = "create"
  /\ UNCHANGED <<stored, counted, target, found, cache, snapshot>>

Create(o) ==
  /\ pc = "create"
  /\ o \in todo
  /\ todo' = todo \ {o}
  /\ cache' = Put(cache, o)
  /\ UNCHANGED <<stored, counted, pc, target, found, snapshot>>

OutputsWritten ==
  /\ pc = "create"
  /\ todo = {}
  /\ todo' = Spent(Chunk) \ found
  /\ pc' = "resolve"
  /\ UNCHANGED <<stored, counted, target, found, cache, snapshot>>

\* get_quiet: a miss is passed over in silence.
Resolve(k) ==
  /\ pc = "resolve"
  /\ k \in todo
  /\ todo' = todo \ {k}
  /\ found' = found \cup ({k} \cap Cached(cache))
  /\ cache' = Touch(cache, k)
  /\ UNCHANGED <<stored, counted, pc, target, snapshot>>

\* Mutant: outputs created and spent in the same chunk are forgotten.
LayersWrittenKeepsOwn ==
  /\ pc = "resolve"
  /\ todo = {}
  /\ todo' = Spent(Chunk) \ Created(Chunk)
  /\ pc' = "spend"
  /\ UNCHANGED <<stored, counted, target, found, cache, snapshot>>

\* Phases 3c to 6 write the totals and whatever does not need the cache.
LayersWritten ==
  /\ pc = "resolve"
  /\ todo = {}
  /\ todo' = Spent(Chunk)
  /\ pc' = "spend"
  /\ UNCHANGED <<stored, counted, target, found, cache, snapshot>>

Spend(k) ==
  /\ pc = "spend"
  /\ k \in todo
  /\ todo' = todo \ {k}
  /\ cache' = Pop(cache, k)
  /\ UNCHANGED <<stored, counted, pc, target, found, snapshot>>

\* The totals the chunk's transactions were written with become visible.
Apply ==
  /\ pc = "spend"
  /\ todo = {}
  /\ stored' = target
  /\ counted' = [t \in Tx |->
       IF t \in Contents(Chunk) THEN Ins[t] \cap found ELSE counted[t]]

\* commit_transaction, then try_save_snapshot, which may fail.
Commit ==
  /\ Apply
  /\ snapshot' \in {cache, snapshot}
  /\ pc' = "idle"
  /\ UNCHANGED <<target, todo, found, cache>>

-----------------------------------------------------------------------------
(* Around chunks *)

\* rollback_block removes the last block; the cache is left as it is.
RollbackBlock ==
  /\ pc = "idle"
  /\ Len(stored) > 1
  /\ stored' = SubSeq(stored, 1, Len(stored) - 1)
  /\ UNCHANGED <<counted, pc, target, todo, found, cache, snapshot>>

\* What is left of a process that ended.
Gone ==
  /\ pc' = "down"
  /\ cache' = EmptyCache
  /\ todo' = {}
  /\ found' = {}

\* A crash or a failed call, at any moment.
Die ==
  /\ pc # "down"
  /\ Gone
  /\ UNCHANGED <<stored, counted, target, snapshot>>

\* A commit that was applied although it reported an error, or after which
\* the process crashed.
DieAfterCommit ==
  /\ Apply
  /\ Gone
  /\ UNCHANGED <<target, snapshot>>

\* A command that ends in good order saves its cache once more; the live one
\* only when it committed a block, and either may fail to.
SaveAndStop ==
  /\ pc = "idle"
  /\ snapshot' \in {cache, snapshot}
  /\ Gone
  /\ UNCHANGED <<stored, counted, target>>

\* The cache is loaded; a file that cannot be read leaves it empty.
Launch ==
  /\ pc = "down"
  /\ cache' \in {snapshot, EmptyCache}
  /\ pc' = "idle"
  /\ UNCHANGED <<stored, counted, target, todo, found, snapshot>>

Next ==
  \/ Begin \/ LookUpMisses \/ BeginTransaction \/ OutputsWritten
  \/ LayersWritten \/ Commit
  \/ \E k \in Output : Hit(k) \/ Refill(k) \/ Create(k) \/ Resolve(k) \/ Spend(k)
  \/ RollbackBlock \/ Die \/ DieAfterCommit \/ SaveAndStop \/ Launch

Spec == Init /\ [][Next]_vars

-----------------------------------------------------------------------------
(* Properties *)

\* No phase leaves the sets its variables are declared with: in particular no
\* shard ranks an entry beyond its capacity, whatever mixture of lookups,
\* inserts and removals the chunks make.
BatchTypeOK ==
  /\ stored \in Seq(Block)
  /\ counted \in [Tx -> SUBSET Output]
  /\ pc \in Phase \cup {"idle", "down"}
  /\ target \in Seq(Block)
  /\ todo \in SUBSET Output
  /\ found \in SUBSET Output
  /\ cache \in [Output -> 0 .. Capacity]
  /\ snapshot \in [Output -> 0 .. Capacity]

\* A chunk that may hold t creates k, and more outputs beside it than k's shard can
\* take: Phase 2 evicts some of them again before Phase 3b looks them up.
Crowded(k, t) ==
  \E c \in Chains : \E n \in 0 .. Len(c) :
    /\ Len(c) <= n + ChunkSize
    /\ t \in Contents(Above(c, n))
    /\ k \in Created(Above(c, n))
    /\ Cardinality(Created(Above(c, n)) \cap SameShard(k)) > Capacity

\* Every stored transaction carries the sum of its inputs, through evicted entries,
\* stale snapshots, rolled back blocks and chunks that were repeated: the only input
\* process_batch_chunk may leave out is one its own chunk created in a shard that the
\* chunk overflows.
TotalsRight ==
  \A t \in Contents(BlocksOf(stored)) :
    /\ counted[t] \subseteq Ins[t]
    /\ \A k \in Ins[t] \ counted[t] : Crowded(k, t)

\* A snapshot saved by a chunk holds nothing the chunk spent, so Phase 7
\* removes for good what Phases 2 and 3b have just cached or promoted.
SnapshotOmitsSpent ==
  [][ pc = "spend" /\ snapshot' # snapshot
        => \A o \in Spent(Chunk) : snapshot'[o] = 0 ]_vars

-----------------------------------------------------------------------------
(* When the totals are right *)

\* Bitcoin's rule: a chain spends only what it creates.
SpendsOwn == \A c \in Chains : Spent(BlocksOf(c)) \subseteq Created(BlocksOf(c))

\* No shard is too small for what one chunk creates in it.
Roomy ==
  \A c \in Chains : \A n \in 0 .. Len(c) : \A o \in Output :
    Len(c) <= n + ChunkSize
      => Cardinality(Created(Above(c, n)) \cap SameShard(o)) <= Capacity

=============================================================================
