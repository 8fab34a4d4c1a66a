--------------------------- MODULE BatchChunkProofs ---------------------------
(***************************************************************************)
(* BatchChunk for every set of blocks, transactions and outputs, every     *)
(* assignment of shards, every capacity and every chunk size:              *)
(*                                                                         *)
(*   BatchTypeCorrect  no variable leaves its set;                         *)
(*   SpentIsOmitted    a chunk's snapshot holds nothing the chunk spent;   *)
(*   TotalsAreRight    chains that spend only what they create get every   *)
(*                     input into the totals, except the outputs of a      *)
(*                     chunk that overflows their shard;                   *)
(*   TotalsAreComplete so every stored total is complete, when no chunk    *)
(*                     creates more in a shard than the shard can hold.    *)
(*                                                                         *)
(* The totals rest on a bound on recency: after n outputs of the chunk were *)
(* put in a shard that holds them all, each is among the n most recent.    *)
(***************************************************************************)
EXTENDS BatchChunk, FiniteSetTheorems, TLAPS

Ranking == [Output -> 0 .. Capacity]

-----------------------------------------------------------------------------
(* The cache *)

\* Putting an entry keeps every place within the capacity, makes the entry the
\* first, moves the others by at most one, and spares all but the last.
LEMMA PutFacts ==
  ASSUME NEW r \in Ranking, NEW o \in Output
  PROVE  /\ Put(r, o) \in Ranking
         /\ Put(r, o)[o] = 1
         /\ \A x \in Output \ {o} :
              /\ x \notin SameShard(o) => Put(r, o)[x] = r[x]
              /\ Put(r, o)[x] <= r[x] + 1
              /\ r[x] > 0 /\ r[x] < Capacity => Put(r, o)[x] > 0
<1>1. Capacity \in Nat \ {0}
  BY CacheAssumption
<1>2. \A x \in Output : r[x] \in 0 .. Capacity
  BY DEF Ranking
<1>3. \A x \in Output \ {o} :
        /\ Put(r, o)[x] \in 0 .. Capacity
        /\ Put(r, o)[x] <= r[x] + 1
        /\ x \notin SameShard(o) => Put(r, o)[x] = r[x]
        /\ r[x] > 0 /\ r[x] < Capacity => Put(r, o)[x] > 0
  BY <1>1, <1>2 DEF Put
<1>4. Put(r, o)[o] = 1
  BY DEF Put
<1>5. Put(r, o) = [x \in Output |-> Put(r, o)[x]]
  BY DEF Put
<1>6. Put(r, o) \in Ranking
  BY <1>1, <1>3, <1>4, <1>5 DEF Ranking
<1> QED
  BY <1>3, <1>4, <1>6

\* A lookup never makes an entry fall out, whether it hits or misses.
LEMMA TouchFacts ==
  ASSUME NEW r \in Ranking, NEW o \in Output
  PROVE  /\ Touch(r, o) \in Ranking
         /\ Cached(r) \subseteq Cached(Touch(r, o))
<1>1. Capacity \in Nat \ {0}
  BY CacheAssumption
<1>2. \A x \in Output : r[x] \in 0 .. Capacity
  BY DEF Ranking
<1>3. CASE r[o] > 0
  <2>1. Touch(r, o) = Put(r, o)
    BY <1>3 DEF Touch
  <2>2. \A x \in Output : r[x] > 0 => Put(r, o)[x] > 0
    BY <1>1, <1>2, <1>3 DEF Put
  <2> QED
    BY <2>1, <2>2, PutFacts DEF Cached
<1>4. CASE ~ (r[o] > 0)
  BY <1>4 DEF Touch
<1> QED
  BY <1>3, <1>4

\* Removing an entry keeps every place within the capacity and caches nothing.
LEMMA PopFacts ==
  ASSUME NEW r \in Ranking, NEW o \in Output
  PROVE  /\ Pop(r, o) \in Ranking
         /\ Pop(r, o)[o] = 0
         /\ \A x \in Output : r[x] = 0 => Pop(r, o)[x] = 0
<1>1. Capacity \in Nat \ {0}
  BY CacheAssumption
<1>2. \A x \in Output : r[x] \in 0 .. Capacity
  BY DEF Ranking
<1>3. \A x \in Output : Pop(r, o)[x] \in 0 .. Capacity
  BY <1>1, <1>2 DEF Pop
<1>4. Pop(r, o) = [x \in Output |-> Pop(r, o)[x]]
  BY DEF Pop
<1>5. Pop(r, o) \in Ranking
  BY <1>3, <1>4 DEF Ranking
<1>6. \A x \in Output : r[x] = 0 => Pop(r, o)[x] = 0
  BY <1>2 DEF Pop
<1> QED
  BY <1>5, <1>6 DEF Pop

-----------------------------------------------------------------------------
(* Type correctness *)

\* Whatever blocks are in question, what they create and spend are outputs.
LEMMA KeysAreOutputs ==
  \A B \in SUBSET Block : Created(B) \subseteq Output /\ Spent(B) \subseteq Output
BY TxAssumption DEF Created, Spent, Contents

\* The blocks of a sequence of blocks, and those above a place in it.
LEMMA BlocksAreBlocks ==
  \A c \in Seq(Block) : \A n \in Nat :
    BlocksOf(c) \subseteq Block /\ Above(c, n) \subseteq Block
BY DEF BlocksOf, Above

\* The initial state has the right types.
LEMMA InitBatchType == Init => BatchTypeOK
<1>1. EmptyCache \in Ranking
  BY CacheAssumption DEF EmptyCache, Ranking
<1> QED
  BY <1>1 DEF Init, BatchTypeOK, Ranking

\* Every step keeps the types.
LEMMA NextBatchType == BatchTypeOK /\ [Next]_vars => BatchTypeOK'
<1> SUFFICES ASSUME BatchTypeOK, [Next]_vars PROVE BatchTypeOK'
  OBVIOUS
<1>t. /\ stored \in Seq(Block) /\ target \in Seq(Block)
      /\ counted \in [Tx -> SUBSET Output]
      /\ pc \in Phase \cup {"idle", "down"}
      /\ todo \in SUBSET Output /\ found \in SUBSET Output
      /\ cache \in Ranking /\ snapshot \in Ranking
  BY DEF BatchTypeOK, Ranking
<1>b. Len(stored) \in Nat
  BY <1>t
<1>k. Chunk \subseteq Block /\ Created(Chunk) \subseteq Output /\ Spent(Chunk) \subseteq Output
  BY <1>t, <1>b, BlocksAreBlocks, KeysAreOutputs DEF Chunk
<1>e. EmptyCache \in Ranking
  BY CacheAssumption DEF EmptyCache, Ranking
<1> USE DEF BatchTypeOK, Ranking
<1>1. CASE Begin
  <2>1. PICK c \in Chains : target' = c /\ todo' = Spent(Above(c, Len(stored)))
    BY <1>1 DEF Begin
  <2>2. c \in Seq(Block)
    BY ChainsAssumption DEF IsChain
  <2>3. Spent(Above(c, Len(stored))) \subseteq Output
    BY <2>2, <1>b, BlocksAreBlocks, KeysAreOutputs
  <2> QED
    BY <1>1, <1>t, <2>1, <2>2, <2>3 DEF Begin, Phase
<1>2. ASSUME NEW k \in Output, Hit(k) PROVE BatchTypeOK'
  <2>1. Touch(cache, k) \in Ranking
    BY <1>t, TouchFacts
  <2> QED
    BY <1>2, <1>t, <2>1 DEF Hit, Phase
<1>3. CASE LookUpMisses
  BY <1>3, <1>t DEF LookUpMisses, Phase
<1>4. ASSUME NEW k \in Output, Refill(k) PROVE BatchTypeOK'
  <2>1. Put(cache, k) \in Ranking
    BY <1>t, PutFacts
  <2> QED
    BY <1>4, <1>t, <2>1 DEF Refill, Phase
<1>5. CASE BeginTransaction
  BY <1>5, <1>t, <1>k DEF BeginTransaction, Phase
<1>6. ASSUME NEW k \in Output, Create(k) PROVE BatchTypeOK'
  <2>1. Put(cache, k) \in Ranking
    BY <1>t, PutFacts
  <2> QED
    BY <1>6, <1>t, <2>1 DEF Create, Phase
<1>7. CASE OutputsWritten
  BY <1>7, <1>t, <1>k DEF OutputsWritten, Phase
<1>8. ASSUME NEW k \in Output, Resolve(k) PROVE BatchTypeOK'
  <2>1. Touch(cache, k) \in Ranking
    BY <1>t, TouchFacts
  <2> QED
    BY <1>8, <1>t, <2>1 DEF Resolve, Phase
<1>9. CASE LayersWritten
  BY <1>9, <1>t, <1>k DEF LayersWritten, Phase
<1>10. ASSUME NEW k \in Output, Spend(k) PROVE BatchTypeOK'
  <2>1. Pop(cache, k) \in Ranking
    BY <1>t, PopFacts
  <2> QED
    BY <1>10, <1>t, <2>1 DEF Spend, Phase
<1>11. ASSUME Apply PROVE stored' \in Seq(Block) /\ counted' \in [Tx -> SUBSET Output]
  BY <1>11, <1>t, TxAssumption DEF Apply
<1>12. CASE Commit
  BY <1>12, <1>11, <1>t DEF Commit
<1>13. CASE RollbackBlock
  BY <1>13, <1>t DEF RollbackBlock
<1>14. CASE Die
  BY <1>14, <1>t, <1>e DEF Die, Gone
<1>15. CASE DieAfterCommit
  BY <1>15, <1>11, <1>t, <1>e DEF DieAfterCommit, Gone
<1>16. CASE SaveAndStop
  BY <1>16, <1>t, <1>e DEF SaveAndStop, Gone
<1>17. CASE Launch
  BY <1>17, <1>t, <1>e DEF Launch
<1>18. CASE UNCHANGED vars
  BY <1>18, <1>t DEF vars
<1> QED
  BY <1>1, <1>2, <1>3, <1>4, <1>5, <1>6, <1>7, <1>8, <1>9, <1>10, <1>12, <1>13,
     <1>14, <1>15, <1>16, <1>17, <1>18 DEF Next

\* The phases of a chunk, crashes, rollbacks and restarts keep every variable
\* in its set; in particular no shard ever exceeds its capacity.
THEOREM BatchTypeCorrect == Spec => []BatchTypeOK
BY InitBatchType, NextBatchType, PTL DEF Spec

-----------------------------------------------------------------------------
(* What a chunk spends leaves the cache *)

\* Phase 7 has removed what it has passed.
SpentDropped == pc = "spend" => \A o \in Spent(Chunk) \ todo : cache[o] = 0

DropInv == BatchTypeOK /\ SpentDropped

\* Phase 7 starts with every spent key to do and removes one at a time, and
\* the other phases are not concerned.
LEMMA NextDrop == DropInv /\ [Next]_vars => DropInv'
<1> SUFFICES ASSUME DropInv, [Next]_vars PROVE SpentDropped'
  BY NextBatchType DEF DropInv
<1>t. cache \in Ranking /\ Spent(Chunk) \subseteq Output
  <2>1. Chunk \subseteq Block
    BY BlocksAreBlocks DEF DropInv, BatchTypeOK, Chunk
  <2> QED
    BY <2>1, KeysAreOutputs DEF DropInv, BatchTypeOK, Ranking
<1>1. CASE LayersWritten
  <2>1. Chunk' = Chunk
    BY <1>1 DEF LayersWritten, Chunk
  <2>2. todo' = Spent(Chunk)'
    BY <1>1, <2>1 DEF LayersWritten
  <2> QED
    BY <2>2 DEF SpentDropped
<1>2. ASSUME NEW k \in Output, Spend(k) PROVE SpentDropped'
  <2>1. Chunk' = Chunk
    BY <1>2 DEF Spend, Chunk
  <2>2. Spent(Chunk)' = Spent(Chunk)
    BY <2>1
  <2>3. \A o \in Spent(Chunk) \ todo' : Pop(cache, k)[o] = 0
    BY <1>2, <1>t, PopFacts DEF Spend, DropInv, SpentDropped
  <2> QED
    BY <1>2, <2>2, <2>3 DEF Spend, SpentDropped
<1>3. CASE UNCHANGED vars
  <2>1. Spent(Chunk)' = Spent(Chunk)
    BY <1>3 DEF vars, Chunk
  <2> QED
    BY <1>3, <2>1 DEF vars, DropInv, SpentDropped
<1>4. ASSUME NEW k \in Output, Hit(k) \/ Refill(k) \/ Create(k) \/ Resolve(k)
      PROVE  SpentDropped'
  BY <1>4 DEF Hit, Refill, Create, Resolve, SpentDropped
<1>5. CASE Begin \/ LookUpMisses \/ BeginTransaction \/ OutputsWritten \/ Commit
  BY <1>5 DEF Begin, LookUpMisses, BeginTransaction, OutputsWritten, Commit, SpentDropped
<1>6. CASE RollbackBlock \/ Die \/ DieAfterCommit \/ SaveAndStop \/ Launch
  BY <1>6 DEF RollbackBlock, Die, DieAfterCommit, SaveAndStop, Launch, Gone, SpentDropped
<1> QED
  BY <1>1, <1>2, <1>3, <1>4, <1>5, <1>6 DEF Next

\* The snapshot a chunk writes when it commits has none of the chunk's spent
\* outputs, although the chunk itself cached or promoted each of them.
THEOREM SpentIsOmitted == Spec => SnapshotOmitsSpent
<1>1. Init => DropInv
  BY InitBatchType DEF Init, DropInv, SpentDropped
<1>2. DropInv /\ [Next]_vars =>
        [ pc = "spend" /\ snapshot' # snapshot
            => \A o \in Spent(Chunk) : snapshot'[o] = 0 ]_vars
  <2> SUFFICES ASSUME DropInv, Next, pc = "spend", snapshot' # snapshot
               PROVE  \A o \in Spent(Chunk) : snapshot'[o] = 0
    BY DEF vars
  <2>1. Commit
    BY DEF Next, Begin, Hit, LookUpMisses, Refill, BeginTransaction, Create,
           OutputsWritten, Resolve, LayersWritten, Spend, RollbackBlock, Die,
           DieAfterCommit, SaveAndStop, Launch
  <2>2. snapshot' = cache /\ todo = {}
    BY <2>1 DEF Commit, Apply
  <2> QED
    BY <2>2 DEF DropInv, SpentDropped
<1> QED
  BY <1>1, <1>2, NextDrop, PTL DEF Spec, SnapshotOmitsSpent

-----------------------------------------------------------------------------
(* The totals *)

\* The chunk being worked on continues what is stored.
ChunkExtends ==
  pc \in Phase =>
    /\ target \in Chains
    /\ Len(stored) < Len(target)
    /\ Len(target) <= Len(stored) + ChunkSize
    /\ stored = SubSeq(target, 1, Len(stored))

\* What the chunk creates in a shard that cannot hold all of it.
Squeezed ==
  {k \in Created(Chunk) : ~ Cardinality(Created(Chunk) \cap SameShard(k)) <= Capacity}

\* Where each input of the chunk is, phase by phase.
KeysFound ==
  /\ pc = "get" => Spent(Chunk) \subseteq found \cup todo
  /\ pc = "refill" => Spent(Chunk) \subseteq found \cup todo \cup Created(Chunk)
  /\ pc = "create" => Spent(Chunk) \subseteq found \cup Created(Chunk)
  /\ pc = "resolve" => Spent(Chunk) \subseteq found \cup (todo \cap Created(Chunk)) \cup Squeezed
  /\ pc = "spend" => Spent(Chunk) \subseteq found \cup Squeezed

\* The outputs Phase 2 has put in o's shard.
Fresh(o) == (Created(Chunk) \ todo) \cap SameShard(o)

\* They are its most recent entries, so all it can hold are there when Phase 2 is over.
FreshCached ==
  /\ pc = "create" =>
       /\ todo \subseteq Created(Chunk)
       /\ \A o \in (Created(Chunk) \ Squeezed) \ todo :
            cache[o] > 0 /\ cache[o] <= Cardinality(Fresh(o))
  /\ pc = "resolve" => Created(Chunk) \ Squeezed \subseteq Cached(cache)

TotalsInv ==
  /\ BatchTypeOK
  /\ ChunkExtends
  /\ KeysFound
  /\ FreshCached
  /\ TotalsRight

\* What a chain has is what its stored part and the chunk have.
LEMMA ChunkSplits ==
  ASSUME BatchTypeOK, ChunkExtends, pc \in Phase
  PROVE  /\ BlocksOf(target) = BlocksOf(stored) \cup Chunk
         /\ Spent(Chunk) \subseteq Spent(BlocksOf(target))
         /\ Created(BlocksOf(target)) = InGraph \cup Created(Chunk)
         /\ Contents(BlocksOf(target)) = Contents(BlocksOf(stored)) \cup Contents(Chunk)
<1> DEFINE n == Len(stored)
<1>1. n \in Nat /\ Len(target) \in Nat /\ n < Len(target)
  BY DEF BatchTypeOK, ChunkExtends
<1>2. stored = SubSeq(target, 1, n) /\ target \in Seq(Block)
  BY DEF BatchTypeOK, ChunkExtends
<1>3. \A i \in 1 .. n : stored[i] = target[i]
  BY <1>1, <1>2
<1>4. BlocksOf(stored) = {target[i] : i \in 1 .. n}
  BY <1>3 DEF BlocksOf
<1>6. 1 .. Len(target) = (1 .. n) \cup ((n + 1) .. Len(target))
  BY <1>1
<1>7. BlocksOf(target) = {target[i] : i \in 1 .. n} \cup {target[i] : i \in (n + 1) .. Len(target)}
  <2> HIDE DEF n
  <2> QED
    BY <1>6, Zenon DEF BlocksOf
<1>5. BlocksOf(target) = BlocksOf(stored) \cup Chunk
  BY <1>4, <1>7, Zenon DEF Chunk, Above
<1> QED
  BY <1>5 DEF Spent, Created, Contents, InGraph

\* A phase of the chunk that neither commits nor ends leaves the chunk alone.
LEMMA SameChunk ==
  ASSUME UNCHANGED <<stored, target>>
  PROVE  /\ Chunk' = Chunk
         /\ Created(Chunk)' = Created(Chunk)
         /\ Spent(Chunk)' = Spent(Chunk)
         /\ Squeezed' = Squeezed
         /\ InGraph' = InGraph
BY DEF Chunk, InGraph, Squeezed

\* Putting the next output of Phase 2 keeps those put before it in its shard, as
\* long as the shard has room for all of them.
LEMMA CreateKeepsFresh ==
  ASSUME BatchTypeOK, FreshCached, pc = "create", Chunk \subseteq Block,
         NEW k \in todo, Create(k)
  PROVE  \A o \in (Created(Chunk) \ Squeezed) \ todo' :
           cache'[o] > 0 /\ cache'[o] <= Cardinality(Fresh(o))'
<1>1. /\ Created(Chunk)' = Created(Chunk) /\ todo' = todo \ {k}
      /\ cache' = Put(cache, k)
  BY SameChunk DEF Create
<1>2. /\ k \in Created(Chunk) /\ Created(Chunk) \subseteq Output
      /\ cache \in Ranking /\ Capacity \in Nat \ {0}
  BY KeysAreOutputs, CacheAssumption DEF FreshCached, BatchTypeOK, Ranking
<1>3. \A o \in Output : cache[o] \in 0 .. Capacity
  BY <1>2 DEF Ranking
<1>4. \A o \in Output : IsFiniteSet(Fresh(o)) /\ Cardinality(Fresh(o)) \in Nat
  <2>1. \A o \in Output : Fresh(o) \subseteq Output
    BY DEF Fresh, SameShard
  <2> QED
    BY <2>1, CacheAssumption, FS_Subset, FS_CardinalityType
<1>5. \A o : Fresh(o)' = (Created(Chunk) \ (todo \ {k})) \cap SameShard(o)
  BY <1>1 DEF Fresh
<1>6. \A o \in SameShard(k) : Fresh(o) = Fresh(k) /\ Fresh(o)' = Fresh(k) \cup {k}
  BY <1>2, <1>5 DEF Fresh, SameShard
<1>7. \A o \in Output \ SameShard(k) : Fresh(o)' = Fresh(o)
  BY <1>2, <1>5 DEF Fresh, SameShard
<1>8. Cardinality(Fresh(k) \cup {k}) = Cardinality(Fresh(k)) + 1
  <2>1. k \notin Fresh(k)
    BY DEF Fresh
  <2> QED
    BY <2>1, <1>2, <1>4, FS_AddElement
<1>9. ASSUME Cardinality(Created(Chunk) \cap SameShard(k)) <= Capacity
      PROVE  Cardinality(Fresh(k)) + 1 <= Capacity
  <2>1. Fresh(k) \cup {k} \subseteq Created(Chunk) \cap SameShard(k)
    BY <1>2 DEF Fresh, SameShard
  <2>2. IsFiniteSet(Created(Chunk) \cap SameShard(k))
    BY <1>2, CacheAssumption, FS_Subset
  <2>3. /\ Cardinality(Fresh(k) \cup {k}) <= Cardinality(Created(Chunk) \cap SameShard(k))
        /\ Cardinality(Created(Chunk) \cap SameShard(k)) \in Nat
    BY <2>1, <2>2, FS_Subset, FS_CardinalityType
  <2> QED
    BY <2>3, <1>2, <1>4, <1>8, <1>9
<1> SUFFICES ASSUME NEW o \in (Created(Chunk) \ Squeezed) \ (todo \ {k})
             PROVE  Put(cache, k)[o] > 0 /\ Put(cache, k)[o] <= Cardinality(Fresh(o)')
  BY <1>1
<1>10. o \in Output
  BY <1>2
<1>11. CASE o = k
  <2>1. Fresh(o)' = Fresh(k) \cup {k}
    BY <1>2, <1>6, <1>11 DEF SameShard
  <2> QED
    BY <2>1, <1>2, <1>4, <1>8, <1>11, PutFacts
<1>12. CASE o # k /\ o \in SameShard(k)
  <2>1. cache[o] > 0 /\ cache[o] <= Cardinality(Fresh(k))
    BY <1>6, <1>12 DEF FreshCached
  <2>2. Cardinality(Created(Chunk) \cap SameShard(k)) <= Capacity
    <3>1. SameShard(o) = SameShard(k)
      BY <1>12 DEF SameShard
    <3> QED
      BY <3>1 DEF Squeezed
  <2>3. cache[o] < Capacity
    BY <2>1, <2>2, <1>2, <1>3, <1>4, <1>9, <1>10
  <2>4. Put(cache, k)[o] > 0 /\ Put(cache, k)[o] <= cache[o] + 1
    BY <2>1, <2>3, <1>2, <1>10, <1>12, PutFacts
  <2>5. Put(cache, k)[o] \in Nat
    BY <1>2, <1>10, PutFacts DEF Ranking
  <2>6. Cardinality(Fresh(o)') = Cardinality(Fresh(k)) + 1
    BY <1>6, <1>8, <1>12
  <2> QED
    BY <2>1, <2>4, <2>5, <2>6, <1>2, <1>3, <1>4, <1>10
<1>13. CASE o \notin SameShard(k)
  <2>1. o # k
    BY <1>2, <1>13 DEF SameShard
  <2>2. Put(cache, k)[o] = cache[o]
    BY <2>1, <1>2, <1>10, <1>13, PutFacts
  <2>3. cache[o] > 0 /\ cache[o] <= Cardinality(Fresh(o))
    BY <2>1 DEF FreshCached
  <2> QED
    BY <2>2, <2>3, <1>7, <1>10, <1>13
<1> QED
  BY <1>11, <1>12, <1>13

\* Every step keeps the inputs where KeysFound says, and so the totals right.
LEMMA NextTotals ==
  ASSUME SpendsOwn
  PROVE  TotalsInv /\ [Next]_vars => TotalsInv'
<1> SUFFICES ASSUME TotalsInv, [Next]_vars
             PROVE  (ChunkExtends /\ KeysFound /\ FreshCached /\ TotalsRight)'
  BY NextBatchType DEF TotalsInv
<1>t. /\ BatchTypeOK /\ ChunkExtends /\ KeysFound /\ FreshCached /\ TotalsRight
      /\ cache \in Ranking /\ Len(stored) \in Nat
  BY DEF TotalsInv, BatchTypeOK, Ranking
<1>k. /\ Chunk \subseteq Block
      /\ Created(Chunk) \subseteq Output
      /\ Spent(Chunk) \subseteq Output
  <2>1. Chunk \subseteq Block
    BY <1>t, BlocksAreBlocks DEF BatchTypeOK, Chunk
  <2> QED
    BY <2>1, KeysAreOutputs
<1>1. CASE Begin
  <2>1. PICK c \in Chains :
          /\ Len(stored) < Len(c) /\ Len(c) <= Len(stored) + ChunkSize
          /\ stored = SubSeq(c, 1, Len(stored))
          /\ target' = c /\ todo' = Spent(Above(c, Len(stored)))
    BY <1>1 DEF Begin
  <2>2. stored' = stored /\ counted' = counted /\ pc' = "get"
    BY <1>1 DEF Begin
  <2>3. todo' = Spent(Chunk)'
    BY <2>1, <2>2 DEF Chunk
  <2> QED
    BY <1>t, <2>1, <2>2, <2>3 DEF ChunkExtends, KeysFound, FreshCached, TotalsRight
<1>2. ASSUME UNCHANGED <<stored, counted, target>>, pc \in Phase
      PROVE  ChunkExtends' /\ TotalsRight'
  BY <1>2, <1>t DEF ChunkExtends, TotalsRight
<1>3. ASSUME NEW k \in Output, Hit(k) PROVE (KeysFound /\ FreshCached)'
  <2>1. pc' = "get" /\ Spent(Chunk)' = Spent(Chunk)
    BY <1>3, SameChunk DEF Hit
  <2> QED
    BY <1>3, <1>t, <2>1 DEF Hit, KeysFound, FreshCached
<1>4. ASSUME LookUpMisses PROVE (KeysFound /\ FreshCached)'
  <2>1. /\ Spent(Chunk)' = Spent(Chunk) /\ Created(Chunk)' = Created(Chunk)
        /\ pc = "get" /\ pc' = "refill" /\ todo' = todo \cap InGraph /\ found' = found
    BY <1>4, SameChunk DEF LookUpMisses
  <2>2. Spent(Chunk) \subseteq InGraph \cup Created(Chunk)
    <3>1. pc \in Phase
      BY <2>1 DEF Phase
    <3>2. Spent(BlocksOf(target)) \subseteq Created(BlocksOf(target))
      BY <3>1, <1>t DEF SpendsOwn, ChunkExtends
    <3> QED
      BY <3>1, <3>2, <1>t, ChunkSplits
  <2>3. Spent(Chunk) \subseteq found \cup todo
    BY <2>1, <1>t DEF KeysFound
  <2> QED
    BY <2>1, <2>2, <2>3 DEF KeysFound, FreshCached
<1>5. ASSUME NEW k \in Output, Refill(k) PROVE (KeysFound /\ FreshCached)'
  <2>1. /\ pc' = "refill"
        /\ Spent(Chunk)' = Spent(Chunk) /\ Created(Chunk)' = Created(Chunk)
    BY <1>5, SameChunk DEF Refill
  <2> QED
    BY <1>5, <1>t, <2>1 DEF Refill, KeysFound, FreshCached
<1>6. ASSUME BeginTransaction PROVE (KeysFound /\ FreshCached)'
  <2>1. /\ pc' = "create"
        /\ Spent(Chunk)' = Spent(Chunk) /\ Created(Chunk)' = Created(Chunk)
    BY <1>6, SameChunk DEF BeginTransaction
  <2> QED
    BY <1>6, <1>t, <2>1 DEF BeginTransaction, KeysFound, FreshCached
<1>7. ASSUME NEW k \in Output, Create(k) PROVE (KeysFound /\ FreshCached)'
  <2>1. /\ pc = "create" /\ pc' = "create" /\ k \in todo
        /\ todo' = todo \ {k} /\ found' = found
        /\ Spent(Chunk)' = Spent(Chunk) /\ Created(Chunk)' = Created(Chunk)
    BY <1>7, SameChunk DEF Create
  <2>2. Squeezed' = Squeezed
    BY <1>7, SameChunk DEF Create
  <2>3. \A o \in (Created(Chunk) \ Squeezed) \ todo' :
          cache'[o] > 0 /\ cache'[o] <= Cardinality(Fresh(o))'
    BY <1>t, <1>k, <1>7, <2>1, CreateKeepsFresh
  <2>4. KeysFound'
    BY <1>t, <2>1 DEF KeysFound
  <2> QED
    BY <1>t, <2>1, <2>2, <2>3, <2>4 DEF FreshCached
<1>8. ASSUME OutputsWritten PROVE (KeysFound /\ FreshCached)'
  <2>1. /\ pc = "create" /\ pc' = "resolve" /\ todo = {}
        /\ todo' = Spent(Chunk) \ found /\ found' = found /\ cache' = cache
        /\ Spent(Chunk)' = Spent(Chunk) /\ Created(Chunk)' = Created(Chunk)
        /\ Squeezed' = Squeezed
    BY <1>8, SameChunk DEF OutputsWritten
  <2>2. Created(Chunk) \ Squeezed \subseteq Cached(cache)
    BY <1>t, <1>k, <2>1 DEF FreshCached, Cached
  <2> QED
    BY <1>t, <2>1, <2>2 DEF KeysFound, FreshCached
<1>9. ASSUME NEW k \in Output, Resolve(k) PROVE (KeysFound /\ FreshCached)'
  <2>1. /\ pc = "resolve" /\ pc' = "resolve"
        /\ todo' = todo \ {k} /\ found' = found \cup ({k} \cap Cached(cache))
        /\ cache' = Touch(cache, k)
        /\ Spent(Chunk)' = Spent(Chunk) /\ Created(Chunk)' = Created(Chunk)
        /\ Squeezed' = Squeezed
    BY <1>9, SameChunk DEF Resolve
  <2>2. Created(Chunk) \ Squeezed \subseteq Cached(cache)
    BY <1>t, <2>1 DEF FreshCached
  <2>3. Cached(cache) \subseteq Cached(cache')
    BY <1>t, <2>1, TouchFacts
  <2>4. Spent(Chunk) \subseteq found' \cup (todo' \cap Created(Chunk)) \cup Squeezed
    BY <1>t, <2>1, <2>2 DEF KeysFound
  <2>5. Cached(cache') = Cached(cache)'
    OBVIOUS
  <2> QED
    BY <2>1, <2>2, <2>3, <2>4, <2>5 DEF KeysFound, FreshCached
<1>10. ASSUME LayersWritten PROVE (KeysFound /\ FreshCached)'
  <2>1. pc' = "spend" /\ Spent(Chunk)' = Spent(Chunk) /\ Squeezed' = Squeezed
    BY <1>10, SameChunk DEF LayersWritten
  <2> QED
    BY <1>10, <1>t, <2>1 DEF LayersWritten, KeysFound, FreshCached
<1>11. ASSUME NEW k \in Output, Spend(k) PROVE (KeysFound /\ FreshCached)'
  <2>1. pc' = "spend" /\ Spent(Chunk)' = Spent(Chunk) /\ Squeezed' = Squeezed
    BY <1>11, SameChunk DEF Spend
  <2> QED
    BY <1>11, <1>t, <2>1 DEF Spend, KeysFound, FreshCached
<1>12. ASSUME Apply PROVE TotalsRight'
  <2>1. pc \in Phase /\ Spent(Chunk) \subseteq found \cup Squeezed
    BY <1>12, <1>t DEF Apply, Phase, KeysFound
  <2>2. /\ stored' = target
        /\ counted' = [t \in Tx |->
             IF t \in Contents(Chunk) THEN Ins[t] \cap found ELSE counted[t]]
    BY <1>12 DEF Apply
  <2>3. Contents(BlocksOf(stored')) = Contents(BlocksOf(stored)) \cup Contents(Chunk)
    BY <1>t, <2>1, <2>2, ChunkSplits
  <2>4. \A t \in Contents(Chunk) : \A k \in Ins[t] \ found : Crowded(k, t)
    <3> SUFFICES ASSUME NEW t \in Contents(Chunk), NEW k \in Ins[t] \ found
                 PROVE  Crowded(k, t)
      OBVIOUS
    <3>1. k \in Squeezed
      BY <2>1 DEF Spent
    <3>2. /\ target \in Chains /\ Len(stored) \in 0 .. Len(target)
          /\ Len(target) <= Len(stored) + ChunkSize
      BY <1>t, <2>1 DEF ChunkExtends, BatchTypeOK
    <3>3. Cardinality(Created(Chunk) \cap SameShard(k)) > Capacity
      <4>1. IsFiniteSet(Created(Chunk) \cap SameShard(k)) /\ Capacity \in Nat
        BY <1>k, CacheAssumption, FS_Subset
      <4>2. Cardinality(Created(Chunk) \cap SameShard(k)) \in Nat
        BY <4>1, FS_CardinalityType
      <4> QED
        BY <3>1, <4>1, <4>2 DEF Squeezed
    <3>4. k \in Created(Chunk)
      BY <3>1 DEF Squeezed
    <3> QED
      BY <3>2, <3>3, <3>4 DEF Crowded, Chunk
  <2>5. Contents(BlocksOf(stored')) \subseteq Tx
    <3>1. BlocksOf(target) \subseteq Block
      BY <1>t, BlocksAreBlocks DEF BatchTypeOK
    <3> QED
      BY <2>2, <3>1, TxAssumption DEF Contents
  <2>6. \A t \in Contents(BlocksOf(stored')) :
          /\ counted'[t] \subseteq Ins[t]
          /\ \A k \in Ins[t] \ counted'[t] : Crowded(k, t)
    BY <1>t, <2>2, <2>3, <2>4, <2>5 DEF TotalsRight
  <2> QED
    BY <2>6 DEF TotalsRight
<1>13. ASSUME pc' \in {"idle", "down"} PROVE (ChunkExtends /\ KeysFound /\ FreshCached)'
  BY <1>13 DEF ChunkExtends, KeysFound, FreshCached, Phase
<1>14. CASE RollbackBlock
  <2>1. BlocksOf(stored') \subseteq BlocksOf(stored)
    BY <1>14, <1>t DEF RollbackBlock, BlocksOf, BatchTypeOK
  <2>2. Contents(BlocksOf(stored')) \subseteq Contents(BlocksOf(stored))
    BY <2>1 DEF Contents
  <2>3. TotalsRight'
    BY <1>14, <1>t, <2>2 DEF RollbackBlock, TotalsRight
  <2> QED
    BY <1>13, <1>14, <2>3 DEF RollbackBlock
<1>15. CASE Commit \/ DieAfterCommit
  BY <1>12, <1>13, <1>15 DEF Commit, DieAfterCommit, Gone
<1>16. CASE Die \/ SaveAndStop \/ Launch
  <2>1. TotalsRight'
    BY <1>16, <1>t DEF Die, SaveAndStop, Launch, TotalsRight
  <2> QED
    BY <1>13, <1>16, <2>1 DEF Die, SaveAndStop, Launch, Gone
<1>17. CASE UNCHANGED vars
  <2>1. Chunk' = Chunk /\ Squeezed' = Squeezed /\ \A o : Fresh(o)' = Fresh(o)
    BY <1>17 DEF vars, Chunk, Fresh, Squeezed
  <2> QED
    BY <1>17, <1>t, <2>1 DEF vars, ChunkExtends, KeysFound, FreshCached, TotalsRight
<1>18. ASSUME NEW k \in Output, Hit(k) \/ Refill(k) \/ Create(k) \/ Resolve(k) \/ Spend(k)
       PROVE  UNCHANGED <<stored, counted, target>> /\ pc \in Phase
  BY <1>18 DEF Hit, Refill, Create, Resolve, Spend, Phase
<1>19. ASSUME LookUpMisses \/ BeginTransaction \/ OutputsWritten \/ LayersWritten
       PROVE  UNCHANGED <<stored, counted, target>> /\ pc \in Phase
  BY <1>19 DEF LookUpMisses, BeginTransaction, OutputsWritten, LayersWritten, Phase
<1> QED
  BY <1>1, <1>2, <1>3, <1>4, <1>5, <1>6, <1>7, <1>8, <1>9, <1>10, <1>11, <1>14,
     <1>15, <1>16, <1>17, <1>18, <1>19 DEF Next

\* When chains spend only what they create, process_batch_chunk leaves an input out
\* of a total only where the chunk itself overflows the shard of an output it both
\* creates and spends, whatever was evicted, lost in a crash or rolled back before.
THEOREM TotalsAreRight ==
  ASSUME SpendsOwn
  PROVE  Spec => []TotalsRight
<1>1. Init => TotalsInv
  <2> SUFFICES ASSUME Init PROVE TotalsInv
    OBVIOUS
  <2>1. BlocksOf(stored) = {}
    BY DEF Init, BlocksOf
  <2>2. TotalsRight
    BY <2>1 DEF TotalsRight, Contents
  <2> QED
    BY <2>2, InitBatchType DEF Init, TotalsInv, ChunkExtends, KeysFound, FreshCached, Phase
<1>2. TotalsInv => TotalsRight
  BY DEF TotalsInv
<1>3. TotalsInv /\ [Next]_vars => TotalsInv'
  BY NextTotals
<1> QED
  BY <1>1, <1>2, <1>3, PTL DEF Spec


\* When besides no chunk creates more outputs in a shard than the shard holds, the
\* totals are the sums of all inputs.
THEOREM TotalsAreComplete ==
  ASSUME SpendsOwn, Roomy
  PROVE  Spec => [](\A t \in Contents(BlocksOf(stored)) : counted[t] = Ins[t])
<1>1. BatchTypeOK /\ TotalsRight => \A t \in Contents(BlocksOf(stored)) : counted[t] = Ins[t]
  <2> SUFFICES ASSUME BatchTypeOK, TotalsRight,
                      NEW t \in Contents(BlocksOf(stored)), NEW k \in Ins[t], k \notin counted[t]
               PROVE  FALSE
    BY DEF TotalsRight
  <2>1. Crowded(k, t)
    BY DEF TotalsRight
  <2>2. PICK c \in Chains : \E n \in 0 .. Len(c) :
          /\ Len(c) <= n + ChunkSize
          /\ k \in Created(Above(c, n))
          /\ Cardinality(Created(Above(c, n)) \cap SameShard(k)) > Capacity
    BY <2>1 DEF Crowded
  <2>3. PICK n \in 0 .. Len(c) :
          /\ Len(c) <= n + ChunkSize
          /\ k \in Created(Above(c, n))
          /\ Cardinality(Created(Above(c, n)) \cap SameShard(k)) > Capacity
    BY <2>2
  <2>4. c \in Seq(Block) /\ Above(c, n) \subseteq Block
    <3>1. c \in Seq(Block)
      BY ChainsAssumption DEF IsChain
    <3> QED
      BY <3>1, BlocksAreBlocks
  <2>5. k \in Output /\ IsFiniteSet(Created(Above(c, n)) \cap SameShard(k))
    BY <2>3, <2>4, KeysAreOutputs, CacheAssumption, FS_Subset
  <2>6. Cardinality(Created(Above(c, n)) \cap SameShard(k)) <= Capacity
    BY <2>3, <2>5 DEF Roomy
  <2> QED
    BY <2>3, <2>5, <2>6, CacheAssumption, FS_CardinalityType
<1> QED
  BY <1>1, BatchTypeCorrect, TotalsAreRight, PTL

===============================================================================
