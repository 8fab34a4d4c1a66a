-------------------------- MODULE LiveSyncReorgProofs --------------------------
(***************************************************************************)
(* Reorgs.  In every orderly run of a process that is not killed inside a  *)
(* rollback (Whole), for every block tree, batch and chunk size:           *)
(*                                                                         *)
(*   StoreStaysChain       StoreIsChain                                    *)
(*   RollbacksAtTip        RollbackOnlyAtTip                               *)
(*   ImplementsWithReorgs  the stored blocks implement StoredChain         *)
(*                                                                         *)
(* and, from the invariant of a chain that only grows (LiveSyncProofs),    *)
(* for every run of a node that is never reorganised:                      *)
(*                                                                         *)
(*   Implements            the stored blocks implement StoredChain         *)
(*                                                                         *)
(* The stored blocks are a piece, from genesis on, of one of the chains    *)
(* the node may serve: ChainStored.  Which chain that is changes when a    *)
(* chunk of another branch is accepted; it then agrees with the old one on *)
(* everything stored, since every block names the one below it             *)
(* (NamedBelow).  The rest of the invariant says where the loops stand to  *)
(* the tip of the store (LoopsMeetTip) and that each fetched block is on   *)
(* some chain of the node (BatchOfChains).                                 *)
(***************************************************************************)
EXTENDS LiveSyncProofs, DataLemmas

Whole == "torn" \notin Env /\ "partial" \notin Env

\* Block b is on chain c, at height h or below.
OnChain(b, c, h) == Height[b] <= h /\ h < Len(c) /\ c[Height[b] + 1] = b

\* The store is chain c up to height h, every block of it whole.
WholeUpTo(c, h) ==
  /\ h < Len(c)
  /\ \A b \in Block : graph[b] = IF OnChain(b, c, h) THEN Layers ELSE {}

\* The same while a rollback takes the block at height h apart.
PeeledTo(c, h) ==
  /\ h < Len(c)
  /\ \A b \in Block :
       /\ OnChain(b, c, h - 1) => graph[b] = Layers
       /\ ~OnChain(b, c, h) => graph[b] = {}
       /\ "transactions" \notin graph[b] => graph[b] \cap {"inputs", "outputs"} = {}
       /\ "block" \notin graph[b] => graph[b] = {}

ChainStored ==
  \E c \in Chains :
    /\ checkpoint.height < Len(c)
    /\ checkpoint.height >= 0 => checkpoint.hash = c[checkpoint.height + 1]
    /\ pc # "rollback" => WholeUpTo(c, checkpoint.height)
    /\ pc = "rollback" => PeeledTo(c, height)
    /\ pc = "rollback" /\ height = fork => WholeUpTo(c, height)

\* How the loops' heights stand to the checkpoint, which names the tip of the
\* store.  A shutdown at the end of a batch leaves current_height behind.
LoopsMeetTip ==
  /\ pc \notin {"sync", "undo"}
  /\ pc \in {"catchup", "fetch", "tip", "check"} => current = checkpoint.height + 1
  /\ pc \in {"phaseB", "wait"} /\ ~shutdown => current = checkpoint.height + 1
  /\ pc = "fetch" => current <= top
  /\ pc \in {"ingest", "block"} => height = checkpoint.height + 1 /\ height <= top
  /\ pc \in {"find", "rollback"} =>
       0 <= height /\ height <= top /\ top = checkpoint.height
  /\ pc = "rollback" => fork <= height

\* Each height of a batch has one block, which some chain of the node holds.
BatchOfChains ==
  /\ pc \in {"fetch", "ingest"} =>
       /\ \A b \in batch : \E d \in Chains : OnChain(b, d, Height[b])
       /\ \A a, b \in batch : Height[a] = Height[b] => a = b
  /\ pc = "ingest" => \A k \in height .. top : \E b \in batch : Height[b] = k

ReorgInv ==
  /\ IInv
  /\ ChainStored
  /\ LoopsMeetTip
  /\ BatchOfChains

-----------------------------------------------------------------------------
(* Chains. *)

\* What a chain of the node has at a height.
LEMMA ChainAt ==
  ASSUME NEW c \in Chains
  PROVE  /\ Len(c) \in Nat \ {0}
         /\ \A k \in 0 .. Len(c) - 1 : c[k + 1] \in Block /\ Height[c[k + 1]] = k
         /\ \A k \in 1 .. Len(c) - 1 : Parent[c[k + 1]] = c[k]
<1>1. Len(c) \in Nat \ {0}
  BY ChainBlocks
<1>2. ASSUME NEW k \in 0 .. Len(c) - 1
      PROVE  c[k + 1] \in Block /\ Height[c[k + 1]] = k
  <2>1. k + 1 \in 1 .. Len(c) /\ k + 1 - 1 = k
    BY <1>1
  <2> QED
    BY <2>1, ChainBlocks
<1>3. ASSUME NEW k \in 1 .. Len(c) - 1 PROVE Parent[c[k + 1]] = c[k]
  <2>1. k + 1 \in 2 .. Len(c) /\ k + 1 - 1 = k
    BY <1>1
  <2> QED
    BY <2>1, ChainBlocks
<1> QED
  BY <1>1, <1>2, <1>3

\* Blocks that name each other downwards from a block of chain d are d's own.
LEMMA NamedBelow ==
  ASSUME NEW d \in Chains, NEW n \in Nat, n < Len(d), NEW P,
         P[n] = d[n + 1],
         \A k \in 1 .. n : Parent[P[k]] = P[k - 1]
  PROVE  \A k \in 0 .. n : P[k] = d[k + 1]
<1> DEFINE J == {k \in 1 .. n : P[k - 1] # d[k]}
<1>1. Len(d) \in Nat
  BY ChainAt
<1>2. J = {}
  <2> SUFFICES ASSUME J # {} PROVE FALSE
    OBVIOUS
  <2>1. PICK m \in J : \A k \in J : k <= m
    <3>1. J \in SUBSET (1 .. n)
      OBVIOUS
    <3> HIDE DEF J
    <3> QED
      BY <3>1, LastPosition
  <2>2. m \in 1 .. n /\ P[m - 1] # d[m]
    OBVIOUS
  <2>3. P[m] = d[m + 1]
    <3>1. CASE m = n
      BY <3>1
    <3>2. CASE m # n
      <4>1. m + 1 \in 1 .. n /\ m + 1 \notin J /\ (m + 1) - 1 = m
        BY <2>1, <2>2, <3>2
      <4> QED
        BY <4>1
    <3> QED
      BY <3>1, <3>2
  <2>4. m \in 1 .. Len(d) - 1
    BY <1>1, <2>2
  <2>5. Parent[d[m + 1]] = d[m]
    BY <2>4, ChainAt
  <2> QED
    BY <2>2, <2>3, <2>5
<1>3. ASSUME NEW k \in 0 .. n PROVE P[k] = d[k + 1]
  <2>1. CASE k = n
    BY <2>1
  <2>2. CASE k # n
    <3>1. k + 1 \in 1 .. n /\ (k + 1) - 1 = k /\ k + 1 \notin J
      BY <1>2, <2>2
    <3> QED
      BY <3>1
  <2> QED
    BY <2>1, <2>2
<1> QED
  BY <1>3

\* Two chains that agree on what is stored store the same.
LEMMA SwitchChain ==
  ASSUME NEW c \in Chains, NEW d \in Chains, NEW h \in Nat \cup {-1},
         WholeUpTo(c, h), h < Len(d),
         \A k \in 0 .. h : c[k + 1] = d[k + 1]
  PROVE  WholeUpTo(d, h)
<1>1. ASSUME NEW b \in Block PROVE OnChain(b, c, h) <=> OnChain(b, d, h)
  <2>1. Height[b] \in Nat /\ h < Len(c) /\ (Height[b] <= h => Height[b] \in 0 .. h)
    BY BlockAssumption DEF WholeUpTo
  <2> QED
    BY <2>1 DEF OnChain
<1> QED
  BY <1>1 DEF WholeUpTo

\* The tip of a whole store is stored, alone at its height, and nothing is above.
LEMMA TipStored ==
  ASSUME NEW c \in Chains, NEW h \in Nat \cup {-1}, WholeUpTo(c, h)
  PROVE  /\ \A k \in 0 .. h : StoredAt(k) = {c[k + 1]}
         /\ \A b \in Stored : Height[b] <= h
<1>1. Len(c) \in Nat /\ h < Len(c)
  BY ChainAt DEF WholeUpTo
<1>2. \A b \in Stored : b \in Block /\ OnChain(b, c, h)
  BY DEF Stored, WholeUpTo
<1>3. ASSUME NEW k \in 0 .. h PROVE StoredAt(k) = {c[k + 1]}
  <2>1. c[k + 1] \in Block /\ Height[c[k + 1]] = k
    <3>1. k \in 0 .. Len(c) - 1
      BY <1>1
    <3> QED
      BY <3>1, ChainAt
  <2>2. OnChain(c[k + 1], c, h)
    BY <1>1, <2>1 DEF OnChain
  <2>3. graph[c[k + 1]] = Layers
    BY <2>1, <2>2 DEF WholeUpTo
  <2>4. c[k + 1] \in StoredAt(k)
    BY <2>1, <2>3 DEF StoredAt, Stored, Layers
  <2>5. ASSUME NEW b \in StoredAt(k) PROVE b = c[k + 1]
    BY <1>2 DEF StoredAt, OnChain
  <2> QED
    BY <2>4, <2>5
<1> QED
  BY <1>2, <1>3 DEF OnChain

-----------------------------------------------------------------------------
(* What a committed write leaves. *)

USE DEF nodeVars, storeVars, loopVars, flags, procVars

\* A write that continues the store: both before and after it, the store is a
\* piece of chain d, which it lengthens up to height last.
Appends(d, last) ==
  /\ WholeUpTo(d, checkpoint.height)
  /\ checkpoint.height < last /\ last < Len(d)
  /\ checkpoint' = [height |-> last, hash |-> d[last + 1]]
  /\ \A b \in Block : graph'[b] = IF OnChain(b, d, last) THEN Layers ELSE {}

\* Outside a rollback the store is whole up to the checkpoint.
LEMMA StoreWhole ==
  ASSUME ReorgInv, pc # "rollback"
  PROVE  /\ checkpoint.height \in Nat \cup {-1}
         /\ \E c \in Chains : /\ WholeUpTo(c, checkpoint.height)
                              /\ checkpoint.height >= 0 =>
                                   checkpoint.hash = c[checkpoint.height + 1]
BY DEF ReorgInv, ChainStored, IInv, TypeOK

\* Inserting the blocks of d right above the store appends them.
LEMMA InsertAppends ==
  ASSUME NEW d \in Chains, NEW h \in Nat \cup {-1}, NEW last \in Nat, NEW B,
         WholeUpTo(d, h), h < last, last < Len(d), Insert(B),
         \A b \in Block : b \in B <=> h < Height[b] /\ OnChain(b, d, last)
  PROVE  \A b \in Block : graph'[b] = IF OnChain(b, d, last) THEN Layers ELSE {}
<1> SUFFICES ASSUME NEW b \in Block
             PROVE  graph'[b] = IF OnChain(b, d, last) THEN Layers ELSE {}
  OBVIOUS
<1>1. graph'[b] = IF b \in B THEN Layers ELSE graph[b]
  BY DEF Insert
<1>2. Height[b] \in Nat
  BY BlockAssumption
<1>3. Height[b] <= h => (OnChain(b, d, h) <=> OnChain(b, d, last)) /\ b \notin B
  BY <1>2 DEF OnChain, WholeUpTo
<1>4. ~(Height[b] <= h) => ~OnChain(b, d, h) /\ (b \in B <=> OnChain(b, d, last))
  BY <1>2 DEF OnChain
<1>5. graph[b] = IF OnChain(b, d, h) THEN Layers ELSE {}
  BY DEF WholeUpTo
<1> QED
  BY <1>1, <1>3, <1>4, <1>5

\* A block of the stream is accepted only if the node's chain continues the store.
LEMMA BlockAppends ==
  ASSUME ReorgInv, pc = "block", ParentMatches(NextBlock), WriteBlock
  PROVE  Appends(canon, height)
<1>1. /\ height = checkpoint.height + 1 /\ height \in Nat
      /\ height < Len(canon) /\ Len(canon) \in Nat /\ canon \in Chains
      /\ checkpoint.height \in Nat \cup {-1}
  <2>1. height \in Nat /\ height <= top /\ top < Len(canon) /\ top \in Nat
    BY DEF ReorgInv, IInv, Bounds, TypeOK
  <2>2. canon \in Chains /\ height = checkpoint.height + 1
        /\ checkpoint.height \in Nat \cup {-1}
    BY DEF ReorgInv, IInv, TypeOK, LoopsMeetTip
  <2> QED
    BY <2>1, <2>2, ChainAt
<1>2. NextBlock \in Block /\ Height[NextBlock] = height /\ NextBlock = canon[height + 1]
  <2>1. IInv
    BY DEF ReorgInv
  <2> QED
    BY <1>1, <2>1, NextBlockType DEF NextBlock
<1>3. PICK c \in Chains : WholeUpTo(c, checkpoint.height)
  BY StoreWhole
<1>4. \A k \in 0 .. checkpoint.height : c[k + 1] = canon[k + 1]
  <2>1. CASE height = 0
    BY <1>1, <2>1
  <2>2. CASE height > 0
    <3> DEFINE n == checkpoint.height
               P == [k \in 0 .. n |-> c[k + 1]]
    <3>1. n \in Nat /\ n < Len(canon) /\ n < Len(c) /\ Len(c) \in Nat
          /\ height - 1 = n
      BY <1>1, <2>2, <1>3, ChainAt DEF WholeUpTo
    <3>2. P[n] = canon[n + 1]
      <4>1. StoredAt(n) = {c[n + 1]}
        <5>1. n \in 0 .. n
          BY <3>1
        <5> QED
          BY <1>1, <1>3, <5>1, TipStored
      <4>2. StoredAt(n) \subseteq {Parent[NextBlock]}
        BY <1>2, <2>2, <3>1 DEF ParentMatches
      <4>3. Parent[canon[height + 1]] = canon[height]
        <5>1. height \in 1 .. Len(canon) - 1
          BY <1>1, <2>2
        <5> QED
          BY <1>1, <5>1, ChainAt
      <4>4. c[n + 1] = canon[height] /\ height = n + 1
        BY <1>2, <4>1, <4>2, <4>3, <1>1
      <4> QED
        BY <3>1, <4>4
    <3>3. ASSUME NEW k \in 1 .. n PROVE Parent[P[k]] = P[k - 1]
      <4>1. k \in 1 .. Len(c) - 1 /\ k \in 0 .. n /\ k - 1 \in 0 .. n /\ (k - 1) + 1 = k
        BY <3>1
      <4>2. Parent[c[k + 1]] = c[k]
        BY <4>1, ChainAt
      <4> QED
        BY <4>1, <4>2
    <3>4. \A k \in 0 .. n : P[k] = canon[k + 1]
      <4>1. n \in Nat /\ n < Len(canon) /\ canon \in Chains
        BY <1>1, <3>1
      <4> HIDE DEF P, n
      <4> QED
        BY <4>1, <3>2, <3>3, NamedBelow, Zenon
    <3> QED
      BY <3>4
  <2> QED
    BY <1>1, <2>1, <2>2
<1>5. WholeUpTo(canon, checkpoint.height)
  <2>1. checkpoint.height < Len(canon)
    BY <1>1
  <2> QED
    BY <1>1, <1>3, <1>4, <2>1, SwitchChain
<1>6. \A b \in Block : graph'[b] = IF OnChain(b, canon, height) THEN Layers ELSE {}
  <2>1. Insert({NextBlock})
    BY DEF WriteBlock
  <2>2. ASSUME NEW b \in Block
        PROVE  b \in {NextBlock} <=>
                 checkpoint.height < Height[b] /\ OnChain(b, canon, height)
    BY <1>1, <1>2, BlockAssumption DEF OnChain
  <2>3. checkpoint.height < height
    BY <1>1
  <2> QED
    BY <1>1, <1>5, <2>1, <2>2, <2>3, InsertAppends
<1> QED
  BY <1>1, <1>2, <1>5, <1>6 DEF Appends, WriteBlock

\* The block a batch holds for a height.
Fetch(k) == CHOOSE b \in batch : Height[b] = k

\* What the chunks of an orderly run hold: each block names the one before it.
LEMMA ChunkLinked ==
  ASSUME ReorgInv, pc = "ingest", NEW last \in ChunkEnds, ChunkAccepted(last),
         WriteChunk(last), ChunkOfOneBranch
  PROVE  /\ height \in Nat /\ last \in Nat /\ height <= last /\ last <= top
         /\ top \in Nat /\ batch \subseteq Block
         /\ \A k \in height .. last : Fetch(k) \in batch /\ Height[Fetch(k)] = k
         /\ \A b \in batch : Height[b] \in height .. last => b = Fetch(Height[b])
         /\ \A k \in height + 1 .. last : Parent[Fetch(k)] = Fetch(k - 1)
         /\ ParentMatches(Fetch(height))
<1>1. /\ height \in Nat /\ top \in Nat /\ height <= top /\ batch \subseteq Block
  BY DEF ReorgInv, IInv, TypeOK, LoopsMeetTip
<1>2. last \in Nat /\ height <= last /\ last <= top
  BY <1>1, LiveAssumption DEF ChunkEnds, Least
<1>3. ASSUME NEW k \in height .. last
      PROVE  Fetch(k) \in batch /\ Height[Fetch(k)] = k
  <2>1. k \in height .. top
    BY <1>1, <1>2
  <2>2. \E b \in batch : Height[b] = k
    BY <2>1 DEF ReorgInv, BatchOfChains
  <2> QED
    BY <2>2 DEF Fetch
<1>4. ASSUME NEW b \in batch, Height[b] \in height .. last
      PROVE  b = Fetch(Height[b])
  <2>1. Fetch(Height[b]) \in batch /\ Height[Fetch(Height[b])] = Height[b]
    BY <1>3, <1>4
  <2> QED
    BY <2>1 DEF ReorgInv, BatchOfChains
<1>5. ASSUME NEW k \in height .. last
      PROVE  Fetch(k) \in Stored' \ Stored
  <2>1. Fetch(k) \in Chunk(last) /\ Fetch(k) \in Block
    BY <1>1, <1>3 DEF Chunk
  <2>2. graph[Fetch(k)] = {}
    BY <2>1 DEF ChunkAccepted, Insertable
  <2>3. graph'[Fetch(k)] = Layers
    BY <2>1 DEF WriteChunk, Insert
  <2> QED
    BY <2>1, <2>2, <2>3 DEF Stored, Layers
<1>6. ASSUME NEW k \in height + 1 .. last
      PROVE  Parent[Fetch(k)] = Fetch(k - 1)
  <2>1. k \in height .. last /\ k - 1 \in height .. last /\ k = (k - 1) + 1
    BY <1>1, <1>2
  <2>2. Height[Fetch(k)] = Height[Fetch(k - 1)] + 1
    BY <1>3, <2>1
  <2> QED
    BY <1>5, <2>1, <2>2 DEF ChunkOfOneBranch
<1>7. ParentMatches(Fetch(height))
  <2>1. PICK b \in batch : Height[b] = height /\ ParentMatches(b)
    BY DEF ChunkAccepted
  <2>2. height \in height .. last
    BY <1>1, <1>2
  <2>3. b = Fetch(height)
    BY <1>4, <2>1, <2>2
  <2> QED
    BY <2>1, <2>3
<1> QED
  BY <1>1, <1>2, <1>3, <1>4, <1>6, <1>7

\* A chunk of one branch continues the store: the chain its last block is on has
\* all of its blocks and, below them, what is stored.
LEMMA ChunkAppends ==
  ASSUME ReorgInv, pc = "ingest", NEW last \in ChunkEnds, ChunkAccepted(last),
         WriteChunk(last), ChunkOfOneBranch
  PROVE  \E d \in Chains : Appends(d, last)
<1>1. /\ height \in Nat /\ last \in Nat /\ height <= last
      /\ batch \subseteq Block
      /\ height = checkpoint.height + 1 /\ checkpoint.height \in Nat \cup {-1}
  BY ChunkLinked DEF ReorgInv, IInv, TypeOK, LoopsMeetTip
<1>2. \A k \in height .. last : /\ Fetch(k) \in batch /\ Fetch(k) \in Block
                                /\ Height[Fetch(k)] = k
  BY <1>1, ChunkLinked
<1>3. PICK c \in Chains : WholeUpTo(c, checkpoint.height)
  BY StoreWhole
<1>4. Len(c) \in Nat /\ checkpoint.height < Len(c)
  BY <1>3, ChainAt DEF WholeUpTo
<1>5. last \in height .. last
  BY <1>1
<1>6. PICK d \in Chains : last < Len(d) /\ d[last + 1] = Fetch(last)
  <2>1. Fetch(last) \in batch /\ Height[Fetch(last)] = last
    BY <1>2, <1>5
  <2>2. \E d \in Chains : OnChain(Fetch(last), d, Height[Fetch(last)])
    BY <2>1 DEF ReorgInv, BatchOfChains
  <2> QED
    BY <2>1, <2>2 DEF OnChain
<1>7. Len(d) \in Nat
  BY ChainAt
<1> DEFINE P == [k \in 0 .. last |-> IF k < height THEN c[k + 1] ELSE Fetch(k)]
<1>8. ASSUME NEW k \in 1 .. last PROVE Parent[P[k]] = P[k - 1]
  <2>1. k \in 0 .. last /\ k - 1 \in 0 .. last /\ (k - 1) + 1 = k
    BY <1>1
  <2>2. CASE k < height
    <3>1. k \in 1 .. Len(c) - 1 /\ k - 1 < height
      BY <1>1, <1>4, <2>2
    <3>2. Parent[c[k + 1]] = c[k]
      BY <3>1, ChainAt
    <3> QED
      BY <2>1, <2>2, <3>1, <3>2
  <2>3. CASE k = height
    <3>1. P[k] = Fetch(height) /\ P[k - 1] = c[k]
      BY <1>1, <2>1, <2>3
    <3>2. k - 1 \in 0 .. checkpoint.height
      BY <1>1, <2>3
    <3>3. StoredAt(k - 1) = {c[(k - 1) + 1]}
      BY <1>1, <1>3, <3>2, TipStored
    <3>4. ParentMatches(Fetch(height)) /\ Height[Fetch(height)] = k /\ k > 0
      BY <1>1, <1>2, <2>3, ChunkLinked
    <3>5. StoredAt(k - 1) \subseteq {Parent[Fetch(height)]}
      BY <3>4 DEF ParentMatches
    <3> QED
      BY <2>1, <3>1, <3>3, <3>5
  <2>4. CASE k > height
    <3>1. k \in height + 1 .. last /\ ~(k < height) /\ ~(k - 1 < height)
      BY <1>1, <2>4
    <3>2. Parent[Fetch(k)] = Fetch(k - 1)
      BY <3>1, ChunkLinked
    <3> QED
      BY <2>1, <3>1, <3>2
  <2> QED
    BY <1>1, <2>2, <2>3, <2>4
<1>9. P[last] = d[last + 1]
  BY <1>1, <1>6
<1>10. \A k \in 0 .. last : P[k] = d[k + 1]
  <2>1. last \in Nat /\ last < Len(d)
    BY <1>1, <1>6
  <2> HIDE DEF P
  <2> QED
    BY <2>1, <1>8, <1>9, NamedBelow, Zenon
<1>11. WholeUpTo(d, checkpoint.height)
  <2>1. \A k \in 0 .. checkpoint.height : c[k + 1] = d[k + 1]
    <3>1. ASSUME NEW k \in 0 .. checkpoint.height PROVE c[k + 1] = d[k + 1]
      <4>1. k \in 0 .. last /\ k < height
        BY <1>1
      <4> QED
        BY <1>10, <4>1
    <3> QED
      BY <3>1
  <2>2. checkpoint.height < Len(d)
    BY <1>1, <1>6, <1>7
  <2> QED
    BY <1>1, <1>3, <2>1, <2>2, SwitchChain
<1>12. ASSUME NEW k \in height .. last PROVE d[k + 1] = Fetch(k)
  <2>1. k \in 0 .. last /\ ~(k < height)
    BY <1>1
  <2> QED
    BY <1>10, <2>1
<1>13. ASSUME NEW b \in Block
       PROVE  b \in Chunk(last) <=> checkpoint.height < Height[b] /\ OnChain(b, d, last)
  <2>1. Height[b] \in Nat
    BY BlockAssumption
  <2>2. ASSUME b \in Chunk(last)
        PROVE  checkpoint.height < Height[b] /\ OnChain(b, d, last)
    <3>1. b \in batch /\ Height[b] \in height .. last
      BY <2>2 DEF Chunk
    <3>2. b = Fetch(Height[b])
      BY <3>1, ChunkLinked
    <3>3. d[Height[b] + 1] = b
      BY <1>12, <3>1, <3>2
    <3> QED
      BY <1>1, <1>6, <3>1, <3>3 DEF OnChain
  <2>3. ASSUME checkpoint.height < Height[b], OnChain(b, d, last)
        PROVE  b \in Chunk(last)
    <3>1. Height[b] \in height .. last /\ d[Height[b] + 1] = b
      BY <1>1, <2>1, <2>3 DEF OnChain
    <3>2. b = Fetch(Height[b])
      BY <1>12, <3>1
    <3> QED
      BY <1>2, <3>1, <3>2 DEF Chunk
  <2> QED
    BY <2>2, <2>3
<1>14. \A b \in Block : graph'[b] = IF OnChain(b, d, last) THEN Layers ELSE {}
  <2>1. Insert(Chunk(last)) /\ checkpoint.height < last
    BY <1>1 DEF WriteChunk
  <2> HIDE DEF P
  <2> QED
    BY <1>1, <1>6, <1>11, <1>13, <2>1, InsertAppends
<1>15. checkpoint' = [height |-> last, hash |-> d[last + 1]]
  <2>1. PICK b \in Chunk(last) :
          Height[b] = last /\ checkpoint' = [height |-> last, hash |-> b]
    BY DEF WriteChunk
  <2>2. b \in batch /\ b = Fetch(last)
    BY <1>5, <2>1, ChunkLinked DEF Chunk
  <2> QED
    BY <1>6, <2>1, <2>2
<1>16. checkpoint.height < last
  BY <1>1
<1> QED
  BY <1>6, <1>11, <1>14, <1>15, <1>16 DEF Appends

-----------------------------------------------------------------------------
(* The steps. *)

\* A step that leaves the store, and a rollback where it is, leaves the chain.
LEMMA ChainKept ==
  ASSUME ChainStored, UNCHANGED <<graph, checkpoint>>,
         \/ pc # "rollback" /\ pc' # "rollback"
         \/ UNCHANGED <<pc, height, fork>>
  PROVE  ChainStored'
BY DEF ChainStored, WholeUpTo, PeeledTo

\* A write that continues the store leaves a chain up to the new checkpoint.
LEMMA ChainAppended ==
  ASSUME NEW d \in Chains, NEW last \in Nat, Appends(d, last), pc' # "rollback"
  PROVE  ChainStored' /\ checkpoint'.height = last
<1>1. checkpoint'.height = last /\ checkpoint'.hash = d[last + 1] /\ last < Len(d)
  BY DEF Appends
<1>2. WholeUpTo(d, last)'
  BY <1>1 DEF Appends, WholeUpTo
<1> QED
  BY <1>1, <1>2 DEF ChainStored

\* A process that ends leaves the invariant to its store alone.
LEMMA ExitReorg ==
  ASSUME IInv', Exit, ChainStored'
  PROVE  ReorgInv'
BY DEF ReorgInv, Exit, LoopsMeetTip, BatchOfChains

\* An empty store is a piece of every chain.
LEMMA InitReorg == Whole /\ Init => ReorgInv
<1> SUFFICES ASSUME Whole, Init PROVE ReorgInv
  OBVIOUS
<1>1. IInv
  BY InitIInv
<1>2. EmptyStore
  BY DEF Init, Whole
<1>3. canon \in Chains /\ Len(canon) \in Nat \ {0}
  BY ChainAt DEF Init
<1>4. WholeUpTo(canon, -1)
  <2>1. ASSUME NEW b \in Block PROVE graph[b] = {} /\ ~OnChain(b, canon, -1)
    BY <1>2, BlockAssumption DEF EmptyStore, OnChain
  <2>2. -1 < Len(canon)
    BY <1>3
  <2>3. \A b \in Block : graph[b] = IF OnChain(b, canon, -1) THEN Layers ELSE {}
    BY <2>1, Zenon
  <2> QED
    BY <2>2, <2>3 DEF WholeUpTo
<1>5. ChainStored
  BY <1>2, <1>3, <1>4 DEF ChainStored, EmptyStore, Init
<1> QED
  BY <1>1, <1>5 DEF ReorgInv, LoopsMeetTip, BatchOfChains, Init

\* The node changes its chain at any moment: the invariant does not speak of it.
LEMMA NewTipReorg ==
  ASSUME ReorgInv, IInv', NEW c \in Chains, NewTip(c)
  PROVE  ReorgInv'
BY ChainKept DEF ReorgInv, NewTip, LoopsMeetTip, BatchOfChains

\* Launch and the faults.
LEMMA FaultReorg ==
  ASSUME Whole, ReorgInv, IInv', Launch \/ Fault, ChunkOfOneBranch
  PROVE  ReorgInv'
<1> USE DEF ReorgInv
<1>1. CASE Launch
  BY <1>1, ChainKept DEF Launch, LoopsMeetTip, BatchOfChains
<1>2. ASSUME Exit, pc # "rollback", UNCHANGED storeVars
      PROVE  ReorgInv'
  BY <1>2, ChainKept, ExitReorg DEF Exit
<1>3. CASE Signal
  BY <1>3, ChainKept DEF Signal, LoopsMeetTip, BatchOfChains
<1>4. CASE ReceiveFails
  BY <1>4, ChainKept DEF ReceiveFails, LoopsMeetTip, BatchOfChains
<1>5. CASE ChunkFails
  <2>1. CASE UNCHANGED <<graph, checkpoint>>
    BY <1>2, <1>5, <2>1 DEF ChunkFails
  <2>2. CASE \E last \in ChunkEnds : ChunkAccepted(last) /\ WriteChunk(last)
    <3>1. PICK last \in ChunkEnds : ChunkAccepted(last) /\ WriteChunk(last)
      BY <2>2
    <3>2. PICK d \in Chains : Appends(d, last)
      BY <1>5, <3>1, ChunkAppends DEF ChunkFails
    <3>3. last \in Nat
      BY <1>5, <3>1, ChunkLinked DEF ChunkFails
    <3> QED
      BY <1>5, <3>2, <3>3, ChainAppended, ExitReorg DEF ChunkFails, Exit
  <2> QED
    BY <1>5, <2>1, <2>2 DEF ChunkFails
<1>6. CASE BlockFails
  <2>1. CASE UNCHANGED <<graph, checkpoint>>
    BY <1>2, <1>6, <2>1 DEF BlockFails
  <2>2. CASE Insertable({NextBlock}) /\ WriteBlock
    <3>1. Appends(canon, height)
      BY <1>6, <2>2, BlockAppends DEF BlockFails
    <3>2. height \in Nat /\ canon \in Chains
      BY <1>6 DEF BlockFails, IInv, Bounds, TypeOK
    <3> QED
      BY <1>6, <3>1, <3>2, ChainAppended, ExitReorg DEF BlockFails, Exit
  <2> QED
    BY <1>6, <2>1, <2>2 DEF BlockFails
<1>7. CASE Crash
  BY <1>2, <1>7 DEF Crash, Whole
<1> QED
  BY <1>1, <1>2, <1>3, <1>4, <1>5, <1>6, <1>7
  DEF Fault, RpcFails, ConnectFails, ReceiveGivesUp

\* There is nothing above the checkpoint to walk over.
LEMMA StartupReorg ==
  ASSUME ReorgInv, IInv', Startup
  PROVE  ReorgInv'
<1> USE DEF ReorgInv
<1>1. CASE ResumeFromCheckpoint
  BY <1>1, ChainKept DEF ResumeFromCheckpoint, LoopsMeetTip, BatchOfChains
<1>2. ~BeginWalk
  <2> SUFFICES ASSUME pc = "start" PROVE BlocksAboveCheckpoint = {}
    BY DEF BeginWalk
  <2>1. PICK c \in Chains : WholeUpTo(c, checkpoint.height)
    BY StoreWhole
  <2>2. checkpoint.height \in Nat \cup {-1}
    BY DEF IInv, TypeOK
  <2>3. \A b \in Stored : Height[b] <= checkpoint.height /\ Height[b] \in Nat
    BY <2>1, <2>2, TipStored, BlockAssumption DEF Stored
  <2> QED
    BY <2>2, <2>3 DEF BlocksAboveCheckpoint
<1> QED
  BY <1>1, <1>2 DEF Startup, FoundComplete, FoundIncomplete,
     WalkedToCheckpoint, UndoneIncomplete, LoopsMeetTip

\* Catch-up: each block comes from the chain the node has when it is asked.
LEMMA CatchUpReorg ==
  ASSUME ReorgInv, IInv', CatchUp, ChunkOfOneBranch
  PROVE  ReorgInv'
<1> USE DEF ReorgInv
<1>a. /\ current \in Nat /\ top \in Nat /\ checkpoint.height \in Nat \cup {-1}
      /\ height \in Nat \cup {-1} /\ batch \subseteq Block
  BY DEF IInv, TypeOK
<1>1. CASE BeginFetch
  <2>1. current <= top'
    BY <1>1, <1>a, ChainAt, LiveAssumption DEF BeginFetch, Least, Tip, IInv, TypeOK
  <2> QED
    BY <1>1, <2>1, ChainKept DEF BeginFetch, LoopsMeetTip, BatchOfChains
<1>2. CASE \E k \in current .. top : FetchBlock(k)
  <2>1. PICK k \in current .. top : FetchBlock(k)
    BY <1>2
  <2>2. canon \in Chains /\ Len(canon) \in Nat /\ top < Len(canon) /\ k \in 0 .. Len(canon) - 1
    BY <1>a, <2>1, ChainAt DEF FetchBlock, IInv, Bounds, TypeOK
  <2>3. Height[canon[k + 1]] = k /\ canon[k + 1] \in Block
    BY <2>2, ChainAt
  <2>4. OnChain(canon[k + 1], canon, Height[canon[k + 1]])
    BY <2>2, <2>3 DEF OnChain
  <2>5. pc = "fetch" /\ pc' = "fetch" /\ batch' = batch \cup {canon[k + 1]}
        /\ \A b \in batch : Height[b] # k
    BY <2>1 DEF FetchBlock
  <2>6. \A b \in batch' : \E d \in Chains : OnChain(b, d, Height[b])
    BY <2>2, <2>4, <2>5 DEF BatchOfChains
  <2>7. \A a, b \in batch' : Height[a] = Height[b] => a = b
    BY <2>3, <2>5 DEF BatchOfChains
  <2>8. BatchOfChains'
    BY <2>5, <2>6, <2>7 DEF BatchOfChains, OnChain
  <2> QED
    BY <2>1, <2>8, ChainKept DEF FetchBlock, LoopsMeetTip
<1>3. CASE Fetched
  <2>1. LoopsMeetTip'
    BY <1>3 DEF Fetched, LoopsMeetTip
  <2>2. BatchOfChains'
    BY <1>3 DEF Fetched, BatchOfChains
  <2> QED
    BY <1>3, <2>1, <2>2, ChainKept DEF Fetched
<1>4. CASE IngestChunk
  <2>1. PICK last \in ChunkEnds :
          last < top /\ ChunkAccepted(last) /\ WriteChunk(last) /\ height' = last + 1
    BY <1>4 DEF IngestChunk
  <2>2. pc = "ingest" /\ UNCHANGED <<canon, pc, current, top, batch>>
    BY <1>4 DEF IngestChunk
  <2>3. PICK d \in Chains : Appends(d, last)
    BY <2>1, <2>2, ChunkAppends
  <2>4. last \in Nat /\ height <= last /\ height \in Nat
    BY <2>1, <2>2, ChunkLinked
  <2>5. ChainStored' /\ checkpoint'.height = last
    BY <2>2, <2>3, <2>4, ChainAppended
  <2>6. LoopsMeetTip'
    BY <1>a, <2>1, <2>2, <2>4, <2>5 DEF LoopsMeetTip
  <2>7. BatchOfChains'
    BY <1>a, <2>1, <2>2, <2>4 DEF BatchOfChains
  <2> QED
    BY <2>5, <2>6, <2>7
<1>5. CASE IngestLastChunk
  <2>1. /\ pc = "ingest" /\ top \in ChunkEnds /\ ChunkAccepted(top)
        /\ WriteChunk(top) /\ UNCHANGED <<top, shutdown>>
        /\ IF shutdown THEN pc' = "phaseB" /\ UNCHANGED current
                       ELSE pc' = "catchup" /\ current' = top + 1
    BY <1>5 DEF IngestLastChunk
  <2>2. PICK d \in Chains : Appends(d, top)
    BY <2>1, ChunkAppends
  <2>3. ChainStored' /\ checkpoint'.height = top
    BY <1>a, <2>1, <2>2, ChainAppended
  <2>4. LoopsMeetTip'
    BY <2>1, <2>3 DEF LoopsMeetTip
  <2>5. BatchOfChains'
    BY <2>1 DEF BatchOfChains
  <2> QED
    BY <2>3, <2>4, <2>5
<1>6. CASE ChunkRejected \/ MaxReachedInCatchup
  BY <1>6, ChainKept, ExitReorg DEF ChunkRejected, MaxReachedInCatchup, Exit
<1>7. CASE LeaveCatchup
  BY <1>7, ChainKept DEF LeaveCatchup, LoopsMeetTip, BatchOfChains
<1>8. CASE Connect
  BY <1>8, ChainKept DEF Connect, LoopsMeetTip, BatchOfChains
<1> QED
  BY <1>1, <1>2, <1>3, <1>4, <1>5, <1>6, <1>7, <1>8 DEF CatchUp

\* Real time: a signalled process stops, any other stands right above the store.
LEMMA RealTimeReorg ==
  ASSUME ReorgInv, IInv', RealTime, SignalStops
  PROVE  ReorgInv'
<1> USE DEF ReorgInv
<1>a. /\ current \in Nat /\ top \in Nat /\ checkpoint.height \in Nat \cup {-1}
      /\ height \in Nat \cup {-1}
  BY DEF IInv, TypeOK
<1>1. CASE StopOnSignal \/ StopAtMaxHeight \/ BlockRejected
  BY <1>1, ChainKept, ExitReorg DEF StopOnSignal, StopAtMaxHeight, BlockRejected, Exit
<1>2. CASE Receive
  <2>1. ~shutdown
    BY <1>2 DEF Receive, SignalStops
  <2> QED
    BY <1>2, <2>1, ChainKept DEF Receive, LoopsMeetTip, BatchOfChains
<1>3. CASE Reconnect
  BY <1>3, ChainKept DEF Reconnect, LoopsMeetTip, BatchOfChains
<1>4. CASE AskTip
  <2>1. pc = "tip" /\ UNCHANGED <<graph, checkpoint, current, batch>>
    BY <1>4 DEF AskTip
  <2>2. \/ pc' = "block" /\ height' = current /\ current <= top'
        \/ pc' = "check"
    BY <1>4 DEF AskTip
  <2>3. LoopsMeetTip'
    BY <2>1, <2>2 DEF LoopsMeetTip
  <2> QED
    BY <2>1, <2>2, <2>3, ChainKept DEF BatchOfChains
<1>5. CASE IngestBlock
  <2>1. /\ pc = "block" /\ ParentMatches(NextBlock) /\ WriteBlock
        /\ top' = top
        /\ IF height < top THEN height' = height + 1 /\ pc' = pc
                           ELSE pc' = "check" /\ current' = top + 1
    BY <1>5 DEF IngestBlock
  <2>2. Appends(canon, height) /\ height \in Nat /\ canon \in Chains /\ height <= top
    BY <2>1, BlockAppends DEF IInv, Bounds, TypeOK
  <2>3. ChainStored' /\ checkpoint'.height = height
    BY <2>1, <2>2, ChainAppended
  <2>4. LoopsMeetTip'
    <3>1. CASE height < top
      BY <1>a, <2>1, <2>2, <2>3, <3>1 DEF LoopsMeetTip
    <3>2. CASE ~(height < top)
      <4>1. height = top
        BY <1>a, <2>2, <3>2
      <4> QED
        BY <2>1, <2>3, <3>2, <4>1 DEF LoopsMeetTip
    <3> QED
      BY <3>1, <3>2
  <2>5. BatchOfChains'
    BY <2>1 DEF BatchOfChains
  <2> QED
    BY <2>3, <2>4, <2>5
<1>6. CASE LoopAgain
  BY <1>6, ChainKept DEF LoopAgain, LoopsMeetTip, BatchOfChains
<1> QED
  BY <1>1, <1>2, <1>3, <1>4, <1>5, <1>6 DEF RealTime

\* What a rollback has left of a block once its four queries match nothing.
LEMMA GoneIsEmpty ==
  ASSUME graph \in [Block -> SUBSET Layers],
         NEW c \in Chains, NEW h \in Nat, PeeledTo(c, h), h = height,
         \A l \in Layers : ~HasLayerAtHeight(l)
  PROVE  WholeUpTo(c, h - 1)
<1>1. Len(c) \in Nat /\ h < Len(c)
  BY ChainAt DEF PeeledTo
<1>2. ASSUME NEW b \in Block, Height[b] = h PROVE graph[b] = {}
  <2>1. \A l \in Layers : ~Reachable(b, l)
    BY DEF HasLayerAtHeight
  <2>2. "block" \notin graph[b]
    BY <1>2, <2>1 DEF Reachable, Attached, Layers
  <2> QED
    BY <2>2 DEF PeeledTo
<1>3. ASSUME NEW b \in Block
      PROVE  graph[b] = IF OnChain(b, c, h - 1) THEN Layers ELSE {}
  <2>1. CASE Height[b] = h
    BY <1>1, <1>2, <2>1 DEF OnChain
  <2>2. CASE Height[b] # h
    <3>1. OnChain(b, c, h) <=> OnChain(b, c, h - 1)
      BY <1>1, <2>2, BlockAssumption DEF OnChain
    <3> QED
      BY <3>1 DEF PeeledTo
  <2> QED
    BY <2>1, <2>2
<1>4. h - 1 < Len(c)
  BY <1>1
<1> QED
  BY <1>3, <1>4 DEF WholeUpTo

\* A whole store has no block taken apart.
LEMMA WholeIsPeeled ==
  ASSUME NEW c \in Chains, NEW h \in Nat, WholeUpTo(c, h)
  PROVE  PeeledTo(c, h)
<1>1. ASSUME NEW b \in Block
      PROVE  OnChain(b, c, h - 1) => OnChain(b, c, h)
  BY ChainAt, BlockAssumption DEF OnChain, WholeUpTo
<1> QED
  BY <1>1 DEF WholeUpTo, PeeledTo, Layers

\* One query of a rollback: transactions go only when inputs and outputs are gone.
LEMMA DeleteLayerReorg ==
  ASSUME ReorgInv, IInv', DeleteLayer
  PROVE  ReorgInv'
<1> USE DEF ReorgInv
<1>1. /\ pc = "rollback" /\ height > fork
      /\ UNCHANGED <<checkpoint, procVars>>
      /\ graph \in [Block -> SUBSET Layers]
      /\ fork \in Nat /\ height \in Nat
  BY DEF DeleteLayer, LoopsMeetTip, IInv, TypeOK
<1>2. PICK i \in 1 .. 4 :
        /\ \A j \in 1 .. i - 1 : ~HasLayerAtHeight(RollbackOrder[j])
        /\ graph' = [b \in Block |-> IF Reachable(b, RollbackOrder[i])
                                     THEN graph[b] \ {RollbackOrder[i]}
                                     ELSE graph[b]]
  BY DEF DeleteLayer
<1>3. PICK c \in Chains :
        /\ checkpoint.height < Len(c)
        /\ checkpoint.height >= 0 => checkpoint.hash = c[checkpoint.height + 1]
        /\ PeeledTo(c, height)
  BY <1>1 DEF ChainStored
<1>4. ASSUME NEW b \in Block, OnChain(b, c, height - 1) PROVE graph'[b] = Layers
  <2>1. Height[b] # height
    BY <1>1, <1>4, BlockAssumption DEF OnChain
  <2>2. graph'[b] = graph[b]
    BY <1>2, <2>1 DEF Reachable, Attached
  <2> QED
    BY <1>3, <1>4, <2>2 DEF PeeledTo
<1>5. ASSUME NEW b \in Block, ~OnChain(b, c, height) PROVE graph'[b] = {}
  BY <1>2, <1>3, <1>5 DEF PeeledTo
<1>6. ASSUME NEW b \in Block, "transactions" \notin graph'[b]
      PROVE  graph'[b] \cap {"inputs", "outputs"} = {}
  <2>1. graph'[b] \subseteq graph[b]
    BY <1>2
  <2>2. CASE "transactions" \notin graph[b]
    BY <1>3, <2>1, <2>2 DEF PeeledTo
  <2>3. CASE "transactions" \in graph[b]
    <3>1. RollbackOrder[i] = "transactions" /\ Height[b] = height
      BY <1>2, <1>6, <2>3 DEF Reachable, Attached
    <3>2. i = 3
      BY <3>1 DEF RollbackOrder
    <3>3. ~HasLayerAtHeight("inputs") /\ ~HasLayerAtHeight("outputs")
      BY <1>2, <3>2 DEF RollbackOrder
    <3>4. "inputs" \notin graph[b] /\ "outputs" \notin graph[b]
      BY <1>3, <2>3, <3>1, <3>3 DEF HasLayerAtHeight, Reachable, Attached, PeeledTo
    <3> QED
      BY <2>1, <3>4
  <2> QED
    BY <2>2, <2>3
<1>9. ASSUME NEW b \in Block, "block" \notin graph'[b]
      PROVE  graph'[b] = {}
  <2>1. graph'[b] \subseteq graph[b] /\ graph[b] \subseteq Layers
    BY <1>1, <1>2
  <2>2. CASE "block" \notin graph[b]
    BY <1>3, <2>1, <2>2 DEF PeeledTo
  <2>3. CASE "block" \in graph[b]
    <3>1. RollbackOrder[i] = "block" /\ Height[b] = height
      BY <1>2, <1>9, <2>3 DEF Reachable
    <3>2. i = 4
      BY <3>1 DEF RollbackOrder
    <3>3. ~HasLayerAtHeight("transactions")
      BY <1>2, <3>2 DEF RollbackOrder
    <3>4. "transactions" \notin graph[b]
      BY <2>3, <3>1, <3>3 DEF HasLayerAtHeight, Reachable, Attached
    <3>5. graph[b] \cap {"inputs", "outputs"} = {}
      BY <1>3, <3>4 DEF PeeledTo
    <3> QED
      BY <1>9, <2>1, <3>4, <3>5 DEF Layers
  <2> QED
    BY <2>2, <2>3
<1>7. PeeledTo(c, height)'
  BY <1>1, <1>3, <1>4, <1>5, <1>6, <1>9 DEF PeeledTo, OnChain
<1>8. ChainStored'
  BY <1>1, <1>3, <1>7 DEF ChainStored
<1> QED
  BY <1>1, <1>8 DEF LoopsMeetTip, BatchOfChains

\* Fork search and rollback: from the tip down to the fork point, block by block.
LEMMA ForkReorg ==
  ASSUME ReorgInv, IInv', Reorg
  PROVE  ReorgInv'
<1> USE DEF ReorgInv
<1>a. /\ top \in Nat /\ fork \in Nat /\ checkpoint.height \in Nat \cup {-1}
      /\ height \in Nat \cup {-1} /\ graph \in [Block -> SUBSET Layers]
  BY DEF IInv, TypeOK
<1>1. CASE ReorgDetected
  <2>1. /\ pc = "block" /\ pc' = "find" /\ top' = height - 1 /\ height' = height - 1
        /\ UNCHANGED <<graph, checkpoint>>
    BY <1>1 DEF ReorgDetected
  <2>2. height' \in Nat /\ height = checkpoint.height + 1
    BY <2>1 DEF IInv, Bounds, LoopsMeetTip
  <2>3. LoopsMeetTip'
    BY <1>a, <2>1, <2>2 DEF LoopsMeetTip
  <2> QED
    BY <2>1, <2>3, ChainKept DEF BatchOfChains
<1>2. CASE ChainsAgree
  <2>1. /\ pc = "find" /\ pc' = "rollback" /\ fork' = height /\ height' = top
        /\ UNCHANGED <<graph, checkpoint, top>>
    BY <1>2 DEF ChainsAgree
  <2>2. top = checkpoint.height /\ 0 <= height /\ height <= top
    BY <2>1 DEF LoopsMeetTip
  <2>3. PICK c \in Chains :
          /\ checkpoint.height < Len(c)
          /\ checkpoint.height >= 0 => checkpoint.hash = c[checkpoint.height + 1]
          /\ WholeUpTo(c, top)
    BY <2>1, <2>2 DEF ChainStored
  <2>4. PeeledTo(c, top)
    BY <1>a, <2>3, WholeIsPeeled
  <2>5. PeeledTo(c, height)' /\ WholeUpTo(c, height)'
    BY <2>1, <2>3, <2>4 DEF PeeledTo, WholeUpTo
  <2>6. ChainStored'
    BY <2>1, <2>3, <2>5 DEF ChainStored
  <2>7. LoopsMeetTip'
    BY <1>a, <2>1, <2>2 DEF LoopsMeetTip
  <2> QED
    BY <2>1, <2>6, <2>7 DEF BatchOfChains
<1>3. CASE ChainsDisagree
  <2>1. /\ pc = "find" /\ pc' = "find" /\ height > 0 /\ height' = height - 1
        /\ UNCHANGED <<graph, checkpoint, top>>
    BY <1>3 DEF ChainsDisagree
  <2>2. LoopsMeetTip'
    BY <1>a, <2>1 DEF LoopsMeetTip
  <2> QED
    BY <2>1, <2>2, ChainKept DEF BatchOfChains
<1>4. CASE RolledBackBlock
  <2>1. /\ pc = "rollback" /\ pc' = "rollback" /\ height > fork
        /\ \A l \in Layers : ~HasLayerAtHeight(l)
        /\ height' = height - 1 /\ UNCHANGED <<graph, checkpoint, top, fork>>
    BY <1>4 DEF RolledBackBlock, BlockGone
  <2>2. PICK c \in Chains :
          /\ checkpoint.height < Len(c)
          /\ checkpoint.height >= 0 => checkpoint.hash = c[checkpoint.height + 1]
          /\ PeeledTo(c, height)
    BY <2>1 DEF ChainStored
  <2>3. height \in Nat /\ height - 1 \in Nat
    BY <1>a, <2>1
  <2>4. WholeUpTo(c, height - 1)
    BY <1>a, <2>1, <2>2, <2>3, GoneIsEmpty
  <2>5. PeeledTo(c, height - 1)
    BY <2>3, <2>4, WholeIsPeeled
  <2>6. PeeledTo(c, height)' /\ WholeUpTo(c, height)'
    BY <2>1, <2>4, <2>5 DEF PeeledTo, WholeUpTo
  <2>7. ChainStored'
    BY <2>1, <2>2, <2>6 DEF ChainStored
  <2>8. LoopsMeetTip'
    BY <1>a, <2>1, <2>3 DEF LoopsMeetTip
  <2> QED
    BY <2>1, <2>7, <2>8 DEF BatchOfChains
<1>5. CASE RolledBack
  <2>1. /\ pc = "rollback" /\ pc' = "check" /\ height = fork
        /\ current' = fork + 1 /\ UNCHANGED graph
        /\ IF fork < top
           THEN \E b \in StoredAt(fork) : checkpoint' = [height |-> fork, hash |-> b]
           ELSE UNCHANGED checkpoint
    BY <1>5 DEF RolledBack
  <2>2. PICK c \in Chains :
          /\ checkpoint.height < Len(c)
          /\ checkpoint.height >= 0 => checkpoint.hash = c[checkpoint.height + 1]
          /\ WholeUpTo(c, fork)
    BY <2>1 DEF ChainStored
  <2>3. top = checkpoint.height /\ fork <= top
    BY <2>1 DEF LoopsMeetTip
  <2>4. /\ checkpoint'.height = fork /\ checkpoint'.hash = c[fork + 1]
    <3>1. CASE fork < top
      <4>1. StoredAt(fork) = {c[fork + 1]}
        BY <1>a, <2>2, TipStored
      <4> QED
        BY <2>1, <3>1, <4>1
    <3>2. CASE ~(fork < top)
      <4>1. fork = checkpoint.height /\ checkpoint.height >= 0 /\ checkpoint' = checkpoint
        BY <1>a, <2>1, <2>3, <3>2
      <4> QED
        BY <2>2, <4>1
    <3> QED
      BY <3>1, <3>2
  <2>5. WholeUpTo(c, checkpoint.height)' /\ checkpoint'.height < Len(c)
    BY <2>1, <2>2, <2>4 DEF WholeUpTo
  <2>6. ChainStored'
    BY <2>1, <2>4, <2>5 DEF ChainStored
  <2>7. LoopsMeetTip'
    BY <2>1, <2>4 DEF LoopsMeetTip
  <2> QED
    BY <2>1, <2>6, <2>7 DEF BatchOfChains
<1> QED
  BY <1>1, <1>2, <1>3, <1>4, <1>5 DEF Reorg

\* A step of an orderly run.
Orderly == Next /\ ChunkOfOneBranch /\ SignalStops

\* The invariant is inductive.
LEMMA NextReorg == Whole /\ ReorgInv /\ [Orderly]_vars => ReorgInv'
<1> SUFFICES ASSUME Whole, ReorgInv, [Orderly]_vars PROVE ReorgInv'
  OBVIOUS
<1>0. IInv'
  BY NextIInv DEF ReorgInv, Orderly
<1>1. CASE (\E c \in Chains : NewTip(c)) /\ Orderly
  BY <1>0, <1>1, NewTipReorg
<1>2. CASE (Launch \/ Fault) /\ Orderly
  BY <1>0, <1>2, FaultReorg DEF Orderly
<1>3. CASE Process /\ Orderly
  BY <1>0, <1>3, StartupReorg, DeleteLayerReorg, CatchUpReorg, RealTimeReorg,
     ForkReorg DEF Process, Orderly
<1>4. CASE UNCHANGED vars
  BY <1>0, <1>4, ChainKept DEF ReorgInv, LoopsMeetTip, BatchOfChains, vars
<1> QED
  BY <1>1, <1>2, <1>3, <1>4 DEF Orderly, Next

\* The invariant holds throughout an orderly run.
LEMMA ReorgInvariant == ASSUME Whole PROVE OrderlySpec => []ReorgInv
<1>1. Init => ReorgInv
  BY InitReorg
<1>2. ReorgInv /\ [Orderly]_vars => ReorgInv'
  BY NextReorg
<1> QED
  BY <1>1, <1>2, PTL DEF OrderlySpec, Orderly

-----------------------------------------------------------------------------
(* The stored chain. *)

\* The blocks on a chain below height m are its first m.
LEMMA PieceOf ==
  ASSUME NEW c \in Chains, NEW m \in 0 .. Len(c), NEW S \in SUBSET Block,
         \A b \in Block : b \in S <=> OnChain(b, c, m - 1)
  PROVE  S = {c[i] : i \in 1 .. m}
<1>1. Len(c) \in Nat /\ \A k \in 0 .. Len(c) - 1 : c[k + 1] \in Block /\ Height[c[k + 1]] = k
  BY ChainAt
<1>2. ASSUME NEW b \in S PROVE b \in {c[i] : i \in 1 .. m}
  <2>1. b \in Block /\ OnChain(b, c, m - 1)
    OBVIOUS
  <2>2. Height[b] + 1 \in 1 .. m /\ c[Height[b] + 1] = b
    BY <1>1, <2>1, BlockAssumption DEF OnChain
  <2> QED
    BY <2>2
<1>3. ASSUME NEW i \in 1 .. m PROVE c[i] \in S
  <2>1. i - 1 \in 0 .. Len(c) - 1 /\ (i - 1) + 1 = i /\ i - 1 <= m - 1 /\ m - 1 < Len(c)
    BY <1>1
  <2>2. c[i] \in Block /\ Height[c[i]] = i - 1
    BY <1>1, <2>1
  <2>3. OnChain(c[i], c, m - 1)
    BY <2>1, <2>2 DEF OnChain
  <2> QED
    BY <2>2, <2>3
<1> QED
  BY <1>2, <1>3

\* The stored blocks are those of a chain of the node from genesis to some height,
\* in a rollback the one below the block it has just removed.
LEMMA StoreCut ==
  ASSUME ReorgInv
  PROVE  \E c \in Chains : \E m \in 0 .. Len(c) :
           /\ Stored = {c[i] : i \in 1 .. m}
           /\ pc # "rollback" => m = checkpoint.height + 1
           /\ pc = "rollback" => m <= height + 1
<1>1. PICK c \in Chains :
        /\ pc # "rollback" => WholeUpTo(c, checkpoint.height)
        /\ pc = "rollback" => PeeledTo(c, height)
  BY DEF ReorgInv, ChainStored
<1>2. Len(c) \in Nat /\ \A k \in 0 .. Len(c) - 1 : c[k + 1] \in Block /\ Height[c[k + 1]] = k
  BY ChainAt
<1>3. Stored \in SUBSET Block
  BY DEF Stored
<1>a. checkpoint.height \in Nat \cup {-1}
      /\ (pc = "rollback" => height \in Nat)
  BY DEF ReorgInv, IInv, TypeOK, LoopsMeetTip
<1>4. CASE pc # "rollback"
  <2>1. checkpoint.height + 1 \in 0 .. Len(c) /\ (checkpoint.height + 1) - 1 = checkpoint.height
    BY <1>1, <1>2, <1>a, <1>4 DEF WholeUpTo
  <2>2. \A b \in Block : b \in Stored <=> OnChain(b, c, checkpoint.height)
    BY <1>1, <1>4 DEF WholeUpTo, Stored, Layers
  <2>3. Stored = {c[i] : i \in 1 .. checkpoint.height + 1}
    BY <1>3, <2>1, <2>2, PieceOf
  <2> QED
    BY <1>4, <2>1, <2>3
<1>5. CASE pc = "rollback"
  <2>1. height \in Nat /\ height < Len(c) /\ PeeledTo(c, height)
    BY <1>1, <1>a, <1>5 DEF PeeledTo
  <2>2. c[height + 1] \in Block /\ Height[c[height + 1]] = height
    <3>1. height \in 0 .. Len(c) - 1
      BY <1>2, <2>1
    <3> QED
      BY <1>2, <3>1
  <2>3. \A b \in Block : OnChain(b, c, height) <=>
                           OnChain(b, c, height - 1) \/ b = c[height + 1]
    BY <1>2, <2>1, <2>2, BlockAssumption DEF OnChain
  <2>4. \A b \in Block : OnChain(b, c, height - 1) => b \in Stored
    BY <2>1 DEF PeeledTo, Stored, Layers
  <2>5. \A b \in Block : b \in Stored => OnChain(b, c, height)
    BY <2>1 DEF PeeledTo, Stored
  <2>6. CASE c[height + 1] \in Stored
    <3>1. height + 1 \in 0 .. Len(c) /\ (height + 1) - 1 = height
      BY <1>2, <2>1
    <3>2. \A b \in Block : b \in Stored <=> OnChain(b, c, height)
      BY <2>3, <2>4, <2>5, <2>6
    <3>3. Stored = {c[i] : i \in 1 .. height + 1}
      BY <1>3, <3>1, <3>2, PieceOf
    <3> QED
      BY <1>5, <2>1, <3>1, <3>3
  <2>7. CASE c[height + 1] \notin Stored
    <3>1. height \in 0 .. Len(c)
      BY <1>2, <2>1
    <3>2. \A b \in Block : b \in Stored <=> OnChain(b, c, height - 1)
      BY <2>3, <2>4, <2>5, <2>7
    <3>3. Stored = {c[i] : i \in 1 .. height}
      BY <1>3, <3>1, <3>2, PieceOf
    <3> QED
      BY <1>5, <2>1, <3>1, <3>3
  <2> QED
    BY <2>6, <2>7
<1> QED
  BY <1>4, <1>5

\* A piece of a chain is the chain the property of the runs describes.
LEMMA ReorgIsChain == ReorgInv => StoreIsChain
<1> SUFFICES ASSUME ReorgInv PROVE StoreIsChain
  OBVIOUS
<1>0. PICK c \in Chains : \E m \in 0 .. Len(c) : Stored = {c[i] : i \in 1 .. m}
  BY StoreCut
<1>1. PICK m \in 0 .. Len(c) : Stored = {c[i] : i \in 1 .. m}
  BY <1>0
<1>2. /\ Len(c) \in Nat
      /\ \A i \in 1 .. Len(c) : Height[c[i]] = i - 1
      /\ \A i \in 2 .. Len(c) : Parent[c[i]] = c[i - 1]
  BY ChainBlocks
<1>3. \A i \in 1 .. m : i \in 1 .. Len(c)
  BY <1>2
<1>4. ASSUME NEW b \in Stored
      PROVE  \E i \in 1 .. m : b = c[i] /\ Height[b] = i - 1
  BY <1>1, <1>2, <1>3
<1>5. HeightsSequential
  <2> SUFFICES ASSUME NEW b \in Stored, Height[b] # 0
               PROVE  StoredAt(Height[b] - 1) # {}
    BY DEF HeightsSequential
  <2>1. PICK i \in 1 .. m : b = c[i] /\ Height[b] = i - 1
    BY <1>4
  <2>2. i - 1 \in 1 .. m /\ i - 1 \in 1 .. Len(c)
    BY <1>2, <2>1
  <2>3. c[i - 1] \in Stored /\ Height[c[i - 1]] = Height[b] - 1
    BY <1>1, <1>2, <2>1, <2>2
  <2> QED
    BY <2>3 DEF StoredAt
<1>6. PreviousHashMatches
  <2> SUFFICES ASSUME NEW p \in Stored, NEW b \in Stored, Height[b] = Height[p] + 1
               PROVE  Parent[b] = p
    BY DEF PreviousHashMatches
  <2>1. PICK i \in 1 .. m : b = c[i] /\ Height[b] = i - 1
    BY <1>4
  <2>2. PICK j \in 1 .. m : p = c[j] /\ Height[p] = j - 1
    BY <1>4
  <2>3. j = i - 1 /\ i \in 2 .. Len(c)
    BY <1>2, <2>1, <2>2
  <2> QED
    BY <1>2, <2>1, <2>2, <2>3
<1>7. NoTornBlock
  BY DEF ReorgInv, ChainStored, WholeUpTo, NoTornBlock, Stored
<1>8. \A a, b \in Stored : Height[a] = Height[b] => a = b
  <2> SUFFICES ASSUME NEW a \in Stored, NEW b \in Stored, Height[a] = Height[b]
               PROVE  a = b
    OBVIOUS
  <2>1. PICK i \in 1 .. m : b = c[i] /\ Height[b] = i - 1
    BY <1>4
  <2>2. PICK j \in 1 .. m : a = c[j] /\ Height[a] = j - 1
    BY <1>4
  <2>3. i = j
    BY <2>1, <2>2
  <2> QED
    BY <2>1, <2>2, <2>3
<1>9. ASSUME pc # "rollback", NEW b \in Stored
      PROVE  Height[b] <= checkpoint.height
             /\ (Height[b] = checkpoint.height <=> b = checkpoint.hash)
  <2>1. PICK d \in Chains :
          /\ WholeUpTo(d, checkpoint.height)
          /\ checkpoint.height >= 0 => checkpoint.hash = d[checkpoint.height + 1]
    BY <1>9, StoreWhole
  <2>2. b \in Block /\ Height[b] \in Nat /\ OnChain(b, d, checkpoint.height)
        /\ checkpoint.height \in Nat \cup {-1}
    BY <2>1, BlockAssumption DEF Stored, WholeUpTo, ReorgInv, IInv, TypeOK
  <2>3. Len(d) \in Nat /\ checkpoint.height < Len(d)
    BY <2>1, ChainAt DEF WholeUpTo
  <2>4. checkpoint.height \in 0 .. Len(d) - 1
    BY <2>2, <2>3 DEF OnChain
  <2>5. Height[d[checkpoint.height + 1]] = checkpoint.height
    BY <2>4, ChainAt
  <2> QED
    BY <2>1, <2>2, <2>4, <2>5 DEF OnChain
<1> QED
  BY <1>5, <1>6, <1>7, <1>8, <1>9 DEF StoreIsChain

\* Whatever reorgs, crashes between steps, shutdowns and failed calls happen in an
\* orderly run, what is stored is one chain, whole outside a rollback, and the
\* checkpoint names its tip.
THEOREM StoreStaysChain == ASSUME Whole PROVE OrderlySpec => []StoreIsChain
BY ReorgInvariant, ReorgIsChain, PTL

\* rollback_block is only ever called on the tip of what is stored, as its trait
\* demands.
THEOREM RollbacksAtTip == ASSUME Whole PROVE OrderlySpec => RollbackOnlyAtTip
<1>1. ReorgInv /\ [Orderly]_vars =>
        [graph' # graph /\ pc \in {"undo", "rollback"} =>
           \A b \in Stored : Height[b] <= height]_vars
  <2> SUFFICES ASSUME ReorgInv, pc = "rollback", NEW b \in Stored
               PROVE  Height[b] <= height
    BY DEF ReorgInv, LoopsMeetTip
  <2>1. PICK c \in Chains : PeeledTo(c, height)
    BY DEF ReorgInv, ChainStored
  <2>2. b \in Block /\ graph[b] # {}
    BY DEF Stored
  <2>3. OnChain(b, c, height)
    BY <2>1, <2>2 DEF PeeledTo
  <2> QED
    BY <2>3 DEF OnChain
<1> QED
  BY <1>1, ReorgInvariant, PTL DEF OrderlySpec, Orderly, RollbackOnlyAtTip

-----------------------------------------------------------------------------
(* LiveSync implements StoredChain. *)

\* StoredSequence as a function of the set of stored blocks.
InOrder(S) ==
  [i \in 1 .. Cardinality(S) |->
     IF {b \in S : Height[b] = i - 1} = {} THEN None
     ELSE CHOOSE b \in {a \in S : Height[a] = i - 1} : TRUE]

\* The stored sequence is the stored blocks in order of their heights.
LEMMA SequenceInOrder ==
  /\ StoredSequence = InOrder(Stored)
  /\ StoredSequence' = InOrder(Stored')
BY DEF StoredSequence, InOrder

\* The first m blocks of a chain, put in order of height, are that chain cut at m.
LEMMA InOrderOfChain ==
  ASSUME NEW c \in Chains, NEW m \in 0 .. Len(c)
  PROVE  InOrder({c[i] : i \in 1 .. m}) = [i \in 1 .. m |-> c[i]]
<1> DEFINE S == {c[i] : i \in 1 .. m}
           At(k) == {b \in S : Height[b] = k}
           f == [i \in 1 .. m |-> c[i]]
<1>1. Len(c) \in Nat /\ m \in Nat /\ \A i \in 1 .. m : Height[c[i]] = i - 1
  <2>1. Len(c) \in Nat /\ \A i \in 1 .. Len(c) : Height[c[i]] = i - 1
    BY ChainBlocks
  <2> QED
    BY <2>1
<1>2. Cardinality(S) = m
  <2>1. f \in Bijection(1 .. m, S)
    <3>1. f \in [1 .. m -> S]
      OBVIOUS
    <3>2. ASSUME NEW i \in 1 .. m, NEW j \in 1 .. m, f[i] = f[j] PROVE i = j
      <4>1. i - 1 = j - 1
        BY <1>1, <3>2
      <4> QED
        BY <1>1, <4>1
    <3>3. \A b \in S : \E i \in 1 .. m : f[i] = b
      OBVIOUS
    <3> HIDE DEF f, S
    <3> QED
      BY <3>1, <3>2, <3>3 DEF Bijection, Injection, Surjection, IsInjective
  <2>2. IsFiniteSet(1 .. m) /\ Cardinality(1 .. m) = m
    <3>1. 1 \in Int /\ m \in Int /\ (1 > m => m = 0) /\ m - 1 + 1 = m
      BY <1>1
    <3> QED
      BY <3>1, FS_Interval
  <2> HIDE DEF f, S
  <2> QED
    BY <2>1, <2>2, FS_Bijection DEF ExistsBijection
<1>3. ASSUME NEW i \in 1 .. m PROVE At(i - 1) = {c[i]}
  <2>1. c[i] \in At(i - 1)
    BY <1>1
  <2>2. ASSUME NEW b \in At(i - 1) PROVE b = c[i]
    <3>1. PICK j \in 1 .. m : b = c[j]
      OBVIOUS
    <3>2. j - 1 = i - 1
      BY <1>1, <3>1
    <3> QED
      BY <1>1, <3>1, <3>2
  <2> QED
    BY <2>1, <2>2
<1>4. ASSUME NEW i \in 1 .. m
      PROVE  (IF At(i - 1) = {} THEN None ELSE CHOOSE b \in At(i - 1) : TRUE) = c[i]
  BY <1>3
<1>5. InOrder(S) = [i \in 1 .. m |->
        IF At(i - 1) = {} THEN None ELSE CHOOSE b \in At(i - 1) : TRUE]
  BY <1>2 DEF InOrder
<1> QED
  BY <1>4, <1>5

\* Storing more of a chain, its piece from n to m, is a step of the abstract chain.
LEMMA GrowRefines ==
  ASSUME NEW c \in Chains, NEW n \in 0 .. Len(c), NEW m \in 0 .. Len(c), n <= m,
         Stored = {c[i] : i \in 1 .. n}, Stored' = {c[i] : i \in 1 .. m}
  PROVE  [Abstract!Next]_StoredSequence
<1>1. Len(c) \in Nat /\ c \in Seq(Block) /\ n \in Nat /\ m \in Nat
  BY ChainsAssumption DEF IsChain
<1>2. StoredSequence = [i \in 1 .. n |-> c[i]]
  BY SequenceInOrder, InOrderOfChain
<1>3. StoredSequence' = [i \in 1 .. m |-> c[i]]
  BY SequenceInOrder, InOrderOfChain
<1>4. CASE n = m
  BY <1>2, <1>3, <1>4
<1>5. CASE n < m
  <2>1. \A k \in 0 .. Len(c) : Abstract!Prefix(c, k) = [i \in 1 .. k |-> c[i]]
    BY <1>1 DEF Abstract!Prefix
  <2>2. Len(StoredSequence) = n
    BY <1>1, <1>2
  <2>3. StoredSequence = Abstract!Prefix(c, n) /\ StoredSequence' = Abstract!Prefix(c, m)
    BY <1>2, <1>3, <2>1
  <2>4. m \in 1 .. Len(c)
    BY <1>1, <1>5
  <2>5. Abstract!Grow
    BY <1>5, <2>2, <2>3, <2>4 DEF Abstract!Grow
  <2> QED
    BY <2>5 DEF Abstract!Next
<1> QED
  BY <1>1, <1>4, <1>5

\* Losing the last of at least two blocks is one too.
LEMMA DropRefines ==
  ASSUME NEW c \in Chains, NEW m \in 1 .. Len(c) - 1,
         Stored = {c[i] : i \in 1 .. m + 1}, Stored' = {c[i] : i \in 1 .. m}
  PROVE  Abstract!Next
<1>1. Len(c) \in Nat /\ m \in 0 .. Len(c) /\ m + 1 \in 0 .. Len(c) /\ m \in Nat
  BY ChainBlocks
<1>2. \A i \in 1 .. m + 1 : c[i] \in Block
  BY <1>1, ChainBlocks
<1>3. StoredSequence = [i \in 1 .. m + 1 |-> c[i]]
  BY <1>1, SequenceInOrder, InOrderOfChain
<1>4. StoredSequence' = [i \in 1 .. m |-> c[i]]
  BY <1>1, SequenceInOrder, InOrderOfChain
<1>5. StoredSequence \in Seq(Block) /\ Len(StoredSequence) = m + 1
  BY <1>1, <1>2, <1>3
<1>6. Abstract!Prefix(StoredSequence, m) = [i \in 1 .. m |-> StoredSequence[i]]
  BY <1>1, <1>5 DEF Abstract!Prefix
<1>7. \A i \in 1 .. m : StoredSequence[i] = c[i]
  BY <1>1, <1>3
<1>8. StoredSequence' = Abstract!Prefix(StoredSequence, Len(StoredSequence) - 1)
  <2>1. Len(StoredSequence) - 1 = m
    BY <1>1, <1>5
  <2> QED
    BY <1>4, <1>6, <1>7, <2>1
<1>9. Abstract!DropLast
  BY <1>1, <1>5, <1>8 DEF Abstract!DropLast
<1> QED
  BY <1>9 DEF Abstract!Next

\* An empty store is the empty chain.
LEMMA InitRefines == ASSUME Init, EmptyStore PROVE Abstract!Init
<1>1. canon \in Chains /\ Len(canon) \in Nat
  BY ChainBlocks DEF Init
<1>2. Stored = {canon[i] : i \in 1 .. 0}
  BY DEF EmptyStore, Stored
<1>3. 0 \in 0 .. Len(canon)
  BY <1>1
<1>4. StoredSequence = [i \in 1 .. 0 |-> canon[i]]
  BY <1>1, <1>2, <1>3, SequenceInOrder, InOrderOfChain
<1> QED
  BY <1>4 DEF Abstract!Init

\* What an orderly step may do to the graph.
LEMMA GraphSteps ==
  ASSUME ReorgInv, [Orderly]_vars
  PROVE  \/ graph' = graph
         \/ \E d \in Chains : \E last \in Nat : Appends(d, last)
         \/ DeleteLayer
<1> USE DEF ReorgInv
<1>1. ASSUME ChunkOfOneBranch, pc = "ingest",
             NEW last \in ChunkEnds, ChunkAccepted(last), WriteChunk(last)
      PROVE  \E d \in Chains : \E l \in Nat : Appends(d, l)
  BY <1>1, ChunkAppends, ChunkLinked
<1>2. ASSUME pc = "block", ParentMatches(NextBlock), WriteBlock
      PROVE  \E d \in Chains : \E l \in Nat : Appends(d, l)
  <2>1. height \in Nat /\ canon \in Chains
    BY <1>2 DEF IInv, Bounds, TypeOK
  <2> QED
    BY <1>2, <2>1, BlockAppends
<1>3. CASE (Launch \/ Fault) /\ Orderly
  BY <1>1, <1>2, <1>3
  DEF Fault, Launch, Crash, Signal, RpcFails, ChunkFails, ConnectFails,
      ReceiveFails, ReceiveGivesUp, BlockFails, Exit, Orderly
<1>4. CASE Startup \/ Reorg
  BY <1>4
  DEF Startup, ResumeFromCheckpoint, BeginWalk, FoundComplete, FoundIncomplete,
      WalkedToCheckpoint, UndoneIncomplete, BlockGone, Reorg, ReorgDetected,
      ChainsAgree, ChainsDisagree, RolledBackBlock, RolledBack
<1>5. CASE CatchUp /\ Orderly
  <2>1. CASE \E k \in current .. top : FetchBlock(k)
    BY <2>1 DEF FetchBlock
  <2> QED
    BY <1>1, <1>5, <2>1
    DEF CatchUp, BeginFetch, Fetched, IngestChunk, IngestLastChunk, ChunkRejected,
        LeaveCatchup, MaxReachedInCatchup, Connect, Exit, Orderly
<1>6. CASE RealTime
  BY <1>2, <1>6
  DEF RealTime, StopOnSignal, Receive, Reconnect, AskTip, IngestBlock,
      BlockRejected, LoopAgain, StopAtMaxHeight, Exit
<1>7. CASE \E c \in Chains : NewTip(c)
  BY <1>7 DEF NewTip
<1>8. CASE UNCHANGED vars
  BY <1>8 DEF vars
<1> QED
  BY <1>3, <1>4, <1>5, <1>6, <1>7, <1>8 DEF Orderly, Next, Process

\* Each orderly step appends a piece of a chain, drops the last block, or leaves
\* the stored chain alone.
LEMMA ReorgStepRefines ==
  ASSUME ReorgInv, [Orderly]_vars
  PROVE  [Abstract!Next]_StoredSequence
<1>1. CASE Stored' = Stored
  BY <1>1, SequenceInOrder
<1>2. CASE \E d \in Chains : \E last \in Nat : Appends(d, last)
  <2>1. PICK d \in Chains : \E last \in Nat : Appends(d, last)
    BY <1>2
  <2>2. PICK last \in Nat : Appends(d, last)
    BY <2>1
  <2>3. /\ Len(d) \in Nat /\ checkpoint.height \in Nat \cup {-1}
        /\ checkpoint.height < last /\ last < Len(d)
    BY <2>2, ChainAt DEF Appends, ReorgInv, IInv, TypeOK
  <2> DEFINE n == checkpoint.height + 1
             m == last + 1
  <2>4. n \in 0 .. Len(d) /\ m \in 0 .. Len(d) /\ n <= m
        /\ n - 1 = checkpoint.height /\ m - 1 = last
    BY <2>3
  <2>5. \A b \in Block : b \in Stored <=> OnChain(b, d, checkpoint.height)
    BY <2>2 DEF Appends, WholeUpTo, Stored, Layers
  <2>6. \A b \in Block : b \in Stored' <=> OnChain(b, d, last)
    BY <2>2 DEF Appends, Stored, Layers
  <2>7. Stored \in SUBSET Block /\ Stored' \in SUBSET Block
    BY DEF Stored
  <2> HIDE DEF n, m
  <2>8. Stored = {d[i] : i \in 1 .. n}
    <3>1. \A b \in Block : b \in Stored <=> OnChain(b, d, n - 1)
      BY <2>4, <2>5
    <3> QED
      BY <2>4, <2>7, <3>1, PieceOf
  <2>9. Stored' = {d[i] : i \in 1 .. m}
    <3>1. \A b \in Block : b \in Stored' <=> OnChain(b, d, m - 1)
      BY <2>4, <2>6
    <3> QED
      BY <2>4, <2>7, <3>1, PieceOf
  <2> QED
    BY <2>4, <2>8, <2>9, GrowRefines
<1>3. CASE DeleteLayer /\ Stored' # Stored
  <2>1. pc = "rollback" /\ height > fork /\ fork \in Nat /\ height \in Nat
    BY <1>3 DEF DeleteLayer, ReorgInv, LoopsMeetTip, IInv, TypeOK
  <2>2. PICK c \in Chains : PeeledTo(c, height)
    BY <2>1 DEF ReorgInv, ChainStored
  <2>3. Len(c) \in Nat /\ height < Len(c) /\ height > 0
    BY <2>1, <2>2, ChainAt DEF PeeledTo
  <2>4. c[height + 1] \in Block /\ Height[c[height + 1]] = height
    <3>1. height \in 0 .. Len(c) - 1
      BY <2>1, <2>3
    <3> QED
      BY <3>1, ChainAt
  <2>5. \A b \in Block : OnChain(b, c, height) <=>
                           OnChain(b, c, height - 1) \/ b = c[height + 1]
    BY <2>1, <2>3, <2>4, BlockAssumption DEF OnChain
  <2>6. ~OnChain(c[height + 1], c, height - 1)
    BY <2>1, <2>4 DEF OnChain
  <2>7. \A b \in Block : b \in Stored => OnChain(b, c, height)
    BY <2>2 DEF PeeledTo, Stored
  <2>8. \A b \in Block : OnChain(b, c, height - 1) => b \in Stored
    BY <2>2 DEF PeeledTo, Stored, Layers
  <2>9. \A b \in Block : /\ b \in Stored' => b \in Stored
                         /\ Height[b] # height /\ b \in Stored => b \in Stored'
    BY <1>3 DEF DeleteLayer, Reachable, Attached, Stored
  <2>10. Stored \in SUBSET Block /\ Stored' \in SUBSET Block
    BY DEF Stored
  <2>11. c[height + 1] \in Stored /\ c[height + 1] \notin Stored'
    <3>1. PICK b \in Stored : b \notin Stored'
      BY <1>3, <2>9, <2>10
    <3>2. Height[b] = height /\ OnChain(b, c, height)
      BY <2>7, <2>9, <2>10, <3>1
    <3>3. b = c[height + 1]
      BY <3>2 DEF OnChain
    <3> QED
      BY <3>1, <3>3
  <2>12. \A b \in Block : b \in Stored <=> OnChain(b, c, height)
    BY <2>5, <2>7, <2>8, <2>11
  <2>13. \A b \in Block : b \in Stored' <=> OnChain(b, c, height - 1)
    <3>1. ASSUME NEW b \in Block, OnChain(b, c, height - 1) PROVE b \in Stored'
      <4>1. Height[b] # height
        BY <2>1, <3>1, BlockAssumption DEF OnChain
      <4> QED
        BY <2>8, <2>9, <3>1, <4>1
    <3>2. ASSUME NEW b \in Block, b \in Stored' PROVE OnChain(b, c, height - 1)
      BY <2>5, <2>9, <2>11, <2>12, <3>2
    <3> QED
      BY <3>1, <3>2
  <2>14. /\ height \in 1 .. Len(c) - 1 /\ height \in 0 .. Len(c)
         /\ height + 1 \in 0 .. Len(c) /\ (height + 1) - 1 = height
    BY <2>1, <2>3
  <2>15. Stored = {c[i] : i \in 1 .. height + 1}
    BY <2>10, <2>12, <2>14, PieceOf
  <2>16. Stored' = {c[i] : i \in 1 .. height}
    BY <2>10, <2>13, <2>14, PieceOf
  <2> QED
    BY <2>14, <2>15, <2>16, DropRefines
<1>4. graph' = graph => Stored' = Stored
  BY DEF Stored
<1> QED
  BY <1>1, <1>2, <1>3, <1>4, GraphSteps

\* In an orderly run, read in order of height, the stored blocks are one chain that
\* each step extends by blocks that follow each other, cuts by its last block, or
\* leaves alone.
THEOREM ImplementsWithReorgs ==
  ASSUME Whole PROVE OrderlySpec => ImplementsStoredChain
<1>1. Whole /\ Init => Abstract!Init
  BY InitRefines DEF Init, Whole
<1>2. ReorgInv /\ [Orderly]_vars => [Abstract!Next]_StoredSequence
  BY ReorgStepRefines
<1> QED
  BY <1>1, <1>2, ReorgInvariant, PTL
  DEF OrderlySpec, Orderly, ImplementsStoredChain, Abstract!Spec

\* Without a reorg each step appends blocks of the node's chain, or leaves the
\* stored chain alone.
LEMMA LineStepRefines ==
  ASSUME Grows, LineInv, LineInv', [Next]_vars
  PROVE  [Abstract!Next]_StoredSequence
<1> DEFINE n == checkpoint.height + 1
           m == checkpoint'.height + 1
<1>1. canon' \in Chains /\ Len(canon) \in Nat /\ Len(canon') \in Nat
  BY ChainAt DEF LineInv, IInv, TypeOK
<1>2. /\ checkpoint.height \in Nat \cup {-1} /\ checkpoint'.height \in Nat \cup {-1}
      /\ checkpoint.height < Len(canon) /\ checkpoint'.height < Len(canon')
      /\ checkpoint.height <= checkpoint'.height
  BY StepMonotone DEF LineInv, IInv, TypeOK, StoreIsPrefix
<1>3. /\ n \in 0 .. Len(canon') /\ m \in 0 .. Len(canon') /\ n <= m
      /\ \A i \in 1 .. n : i \in 1 .. Len(canon)
  BY <1>1, <1>2
<1>4. Stored = {canon[i] : i \in 1 .. n}
  BY PrefixOfStore DEF LineInv, StoredIsPrefix
<1>5. Stored' = {canon'[i] : i \in 1 .. m}
  <2>1. (IInv /\ StoreIsPrefix => StoredIsPrefix)'
    BY PrefixOfStore, PTL
  <2> QED
    BY <2>1 DEF LineInv, StoredIsPrefix
<1>6. \A i \in 1 .. n : canon'[i] = canon[i]
  BY <1>3, StepMonotone
<1> HIDE DEF n, m
<1>7. Stored = {canon'[i] : i \in 1 .. n}
  BY <1>4, <1>6
<1> QED
  BY <1>1, <1>3, <1>5, <1>7, GrowRefines

\* Without a reorg, whatever crashes, torn or not, shutdowns and failures happen,
\* what is stored is one chain from genesis that only ever grows at its end.
THEOREM Implements == ASSUME Grows PROVE Spec => ImplementsStoredChain
<1>1. Grows /\ Init => Abstract!Init
  BY InitRefines DEF Init, Grows
<1>2. Grows /\ LineInv /\ LineInv' /\ [Next]_vars => [Abstract!Next]_StoredSequence
  BY LineStepRefines
<1> QED
  BY <1>1, <1>2, LineInvariant, PTL DEF Spec, ImplementsStoredChain, Abstract!Spec

===============================================================================
