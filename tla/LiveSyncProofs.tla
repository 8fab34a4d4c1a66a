---------------------------- MODULE LiveSyncProofs ----------------------------
(***************************************************************************)
(* What holds of LiveSync for every block tree, every batch and chunk size *)
(* and every environment:                                                  *)
(*                                                                         *)
(*   TypeCorrect            every variable keeps to its set;               *)
(*   ResumeIsAboveStore     the height a restart resumes from is above     *)
(*                          everything stored;                             *)
(*   WalkStopsAtCheckpoint  the startup walk deletes nothing that was      *)
(*                          checkpointed;                                  *)
(*   RollbackIsResumable    a rollback puts no layer out of the reach of   *)
(*                          the next one;                                  *)
(*   WalkAlwaysMeetsBlock   the walk finds a block at every height it      *)
(*                          looks at.                                      *)
(*                                                                         *)
(* TypeOK is not inductive: that FetchBlock and NextBlock index the node's *)
(* chain where it has a block, and that height never falls below -1, rests *)
(* on where the process stands.  Bounds says that, and WalkBelow says how  *)
(* far the startup walk has come.  WalkInv, for the last one, says where   *)
(* an incomplete block can be: never more than one above the checkpoint.   *)
(*                                                                         *)
(* As long as the node's chain only grows and the store was written by     *)
(* this command alone (Grows), the graph is exactly the node's chain up to *)
(* the checkpoint, after any crash, shutdown, failed call or lost          *)
(* notification:                                                           *)
(*                                                                         *)
(*   StorePrefix            StoredIsPrefix                                 *)
(*   SaveHeight             SaveHeightIsCheckpoint                         *)
(*   SnapshotWithin         SnapshotWithinCheckpoint                       *)
(*   SnapshotOrder          SnapshotNeverFalls                             *)
(*                                                                         *)
(* None of them is inductive.  A chunk keeps the graph a prefix because    *)
(* the batch holds the node's blocks at consecutive heights from the       *)
(* checkpoint on (BatchIsChain, LoopsFollow); a block of the stream does   *)
(* because a stale current_height, which a shutdown leaves, can only point *)
(* at blocks that are stored, where CREATE fails.                          *)
(*                                                                         *)
(* ImplementsContract: if the node does not reorganise (Steady), whatever  *)
(* store it begins with and however often the startup walk is cut off,     *)
(* the graph changes as BlockStore promises.  SteadyInv allows one block   *)
(* above the checkpoint, which the walk keeps or removes.                  *)
(***************************************************************************)
EXTENDS LiveSync, TLAPS

\* Where the loops index the node's chain, and how deep a rollback may go.
Bounds ==
  /\ pc = "fetch" => top < Len(canon)
  /\ pc = "block" => height \in Nat /\ height <= top /\ top < Len(canon)
  /\ pc = "find" => height \in Nat /\ height < Len(canon) /\ height <= top
  /\ pc = "undo" => height > checkpoint.height
  /\ pc = "rollback" => height >= fork

\* Every block the walk has left behind is gone.
WalkBelow == pc \in {"sync", "undo"} => \A b \in Stored : Height[b] <= height

IInv == TypeOK /\ Bounds /\ WalkBelow

-----------------------------------------------------------------------------
\* A chain of the node holds at index k + 1 a block of height k that names the
\* block at index k.
LEMMA ChainBlocks ==
  ASSUME NEW c \in Chains
  PROVE  /\ Len(c) \in Nat \ {0}
         /\ \A i \in 1 .. Len(c) : c[i] \in Block /\ Height[c[i]] = i - 1
         /\ \A i \in 2 .. Len(c) : Parent[c[i]] = c[i - 1]
<1>1. IsChain(c)
  BY ChainsAssumption
<1>2. c \in Seq(Block) /\ c # <<>>
  BY <1>1 DEF IsChain
<1>3. Len(c) \in Nat /\ \A i \in 1 .. Len(c) : c[i] \in Block
  BY <1>2
<1>4. Len(c) # 0
  BY <1>2
<1> QED
  BY <1>1, <1>3, <1>4 DEF IsChain

\* The initial states satisfy the invariant.
LEMMA InitIInv == Init => IInv
<1> SUFFICES ASSUME Init PROVE IInv
  OBVIOUS
<1> USE DEF Init
<1>1. graph \in [Block -> SUBSET Layers]
  <2>1. CASE EmptyStore
    BY <2>1 DEF EmptyStore
  <2>2. CASE PartialStore
    BY <2>2 DEF PartialStore, PartialBlocks, Layers
  <2> QED
    BY <2>1, <2>2
<1>2. checkpoint \in [height : Nat \cup {-1}, hash : Block \cup {None}]
  <2>1. CASE EmptyStore
    BY <2>1 DEF EmptyStore
  <2>2. CASE PartialStore
    BY <2>2, ChainBlocks DEF PartialStore
  <2> QED
    BY <2>1, <2>2
<1>3. /\ pending \in 0 .. MaxPending
      /\ failures \in 0 .. MaxFailures
  BY LiveAssumption
<1>4. /\ snapshot \in Nat \cup {-1}
      /\ committed \in Nat \cup {-1}
      /\ height \in Nat \cup {-1}
  OBVIOUS
<1>5. TypeOK
  BY <1>1, <1>2, <1>3, <1>4 DEF TypeOK, Locations
<1> QED
  BY <1>5 DEF IInv, Bounds, WalkBelow

-----------------------------------------------------------------------------
(* The steps.  Most leave the store and the node alone; the ones that end    *)
(* the process share a lemma, since Idle resets all it kept in memory.       *)

USE DEF nodeVars, storeVars, loopVars, flags, procVars

\* Types of the store's three variables, primed when a step writes them.
StoreTypes ==
  /\ graph \in [Block -> SUBSET Layers]
  /\ checkpoint \in [height : Nat \cup {-1}, hash : Block \cup {None}]
  /\ snapshot \in Nat \cup {-1}

\* A process that ends leaves the invariant true, whatever well-typed store.
LEMMA ExitIInv ==
  ASSUME IInv, Exit, StoreTypes'
  PROVE  IInv'
<1>1. canon' \in Chains
  BY DEF IInv, TypeOK, Exit
<1>2. /\ pending' \in 0 .. MaxPending
      /\ failures' \in 0 .. MaxFailures
      /\ committed' \in Nat \cup {-1}
      /\ height' \in Nat \cup {-1}
  BY LiveAssumption DEF Exit, Idle
<1>3. TypeOK'
  BY <1>1, <1>2 DEF TypeOK, StoreTypes, Exit, Idle, Locations
<1> QED
  BY <1>3 DEF IInv, Bounds, WalkBelow, Exit

\* One block written, or several: what Insert and a new checkpoint leave.
LEMMA InsertTypes ==
  ASSUME IInv, NEW B \in SUBSET Block, Insert(B)
  PROVE  graph' \in [Block -> SUBSET Layers]
BY DEF IInv, TypeOK, Insert

\* NextBlock is the block of the node's chain at the height the process is at.
LEMMA NextBlockType ==
  ASSUME IInv, height \in Nat, height < Len(canon)
  PROVE  NextBlock \in Block /\ Height[NextBlock] = height
<1>1. canon \in Chains
  BY DEF IInv, TypeOK
<1>2. height + 1 \in 1 .. Len(canon)
  BY <1>1, ChainBlocks
<1> QED
  BY <1>1, <1>2, ChainBlocks DEF NextBlock

\* The blocks a chunk writes, and the checkpoint it leaves.
LEMMA WriteChunkTypes ==
  ASSUME IInv, NEW last \in ChunkEnds, WriteChunk(last)
  PROVE  /\ last \in Nat \cup {-1} /\ last >= height
         /\ graph' \in [Block -> SUBSET Layers]
         /\ checkpoint' \in [height : Nat \cup {-1}, hash : Block \cup {None}]
         /\ checkpoint'.height = last
<1>1. height \in Nat \cup {-1} /\ batch \subseteq Block
  BY DEF IInv, TypeOK
<1>2. last \in Int /\ last >= height
  BY <1>1 DEF ChunkEnds
<1>3. last \in Nat \cup {-1}
  BY <1>1, <1>2
<1>4. Chunk(last) \in SUBSET Block
  BY <1>1 DEF Chunk
<1>5. graph' \in [Block -> SUBSET Layers]
  BY <1>4, InsertTypes DEF WriteChunk
<1>6. PICK b \in Block : checkpoint' = [height |-> last, hash |-> b]
  BY <1>4 DEF WriteChunk
<1> QED
  BY <1>2, <1>3, <1>5, <1>6

\* The block of a batch of one, and the checkpoint it leaves.
LEMMA WriteBlockTypes ==
  ASSUME IInv, pc = "block", WriteBlock
  PROVE  /\ graph' \in [Block -> SUBSET Layers]
         /\ checkpoint' \in [height : Nat \cup {-1}, hash : Block \cup {None}]
<1>1. height \in Nat /\ height < Len(canon)
  <2>1. height \in Nat /\ height <= top /\ top < Len(canon) /\ top \in Nat
    BY DEF IInv, Bounds, TypeOK
  <2>2. Len(canon) \in Nat
    BY ChainBlocks DEF IInv, TypeOK
  <2> QED
    BY <2>1, <2>2
<1>2. NextBlock \in Block
  BY <1>1, NextBlockType
<1>3. graph' \in [Block -> SUBSET Layers]
  BY <1>2, InsertTypes DEF WriteBlock
<1> QED
  BY <1>1, <1>2, <1>3 DEF WriteBlock

\* The node's chain only gets longer.
LEMMA NewTipIInv ==
  ASSUME IInv, NEW c \in Chains, NewTip(c)
  PROVE  IInv'
<1>1. pending' \in 0 .. MaxPending
  BY LiveAssumption DEF IInv, TypeOK, NewTip, Publish
<1>2. TypeOK'
  BY <1>1 DEF IInv, TypeOK, NewTip
<1>3. Len(canon) \in Nat /\ Len(canon') \in Nat /\ Len(canon) < Len(canon')
  BY ChainBlocks DEF IInv, TypeOK, NewTip
<1>4. Bounds'
  BY <1>3 DEF IInv, TypeOK, Bounds, NewTip
<1>5. WalkBelow'
  BY DEF IInv, WalkBelow, NewTip, Stored
<1> QED
  BY <1>2, <1>4, <1>5 DEF IInv

\* Launch and the faults.
LEMMA FaultIInv ==
  ASSUME IInv, Launch \/ Fault
  PROVE  IInv'
<1> USE DEF IInv
<1>1. CASE Launch
  BY <1>1 DEF Launch, TypeOK, Locations, Bounds, WalkBelow
<1>2. CASE Crash
  BY <1>2, ExitIInv DEF Crash, TypeOK, StoreTypes
<1>3. CASE Signal
  BY <1>3 DEF Signal, TypeOK, Bounds, WalkBelow, Stored
<1>4. CASE RpcFails
  BY <1>4, ExitIInv DEF RpcFails, TypeOK, StoreTypes
<1>5. CASE ConnectFails
  BY <1>5, ExitIInv DEF ConnectFails, TypeOK, StoreTypes
<1>6. CASE ReceiveFails
  <2>1. failures' \in 0 .. MaxFailures /\ pending' \in 0 .. MaxPending
    BY <1>6, LiveAssumption DEF ReceiveFails, TypeOK
  <2> QED
    BY <1>6, <2>1 DEF ReceiveFails, TypeOK, Bounds, WalkBelow
<1>7. CASE ReceiveGivesUp
  BY <1>7, ExitIInv DEF ReceiveGivesUp, TypeOK, StoreTypes
<1>8. CASE ChunkFails
  <2>1. CASE UNCHANGED <<graph, checkpoint>>
    BY <1>8, <2>1, ExitIInv DEF ChunkFails, TypeOK, StoreTypes
  <2>2. CASE \E last \in ChunkEnds : ChunkAccepted(last) /\ WriteChunk(last)
    BY <1>8, <2>2, WriteChunkTypes, ExitIInv DEF ChunkFails, TypeOK, StoreTypes
  <2> QED
    BY <1>8, <2>1, <2>2 DEF ChunkFails
<1>9. CASE BlockFails
  <2>1. CASE UNCHANGED <<graph, checkpoint>>
    BY <1>9, <2>1, ExitIInv DEF BlockFails, TypeOK, StoreTypes
  <2>2. CASE WriteBlock
    BY <1>9, <2>2, WriteBlockTypes, ExitIInv DEF BlockFails, TypeOK, StoreTypes
  <2> QED
    BY <1>9, <2>1, <2>2 DEF BlockFails
<1> QED
  BY <1>1, <1>2, <1>3, <1>4, <1>5, <1>6, <1>7, <1>8, <1>9 DEF Fault

\* The startup walk.
LEMMA StartupIInv ==
  ASSUME IInv, Startup
  PROVE  IInv'
<1> USE DEF IInv
<1>1. CASE ResumeFromCheckpoint
  BY <1>1 DEF ResumeFromCheckpoint, TypeOK, Bounds, WalkBelow, Locations
<1>2. CASE BeginWalk
  <2>1. PICK m \in BlocksAboveCheckpoint :
          (\A b \in Stored : Height[b] <= Height[m]) /\ height' = Height[m]
    BY <1>2 DEF BeginWalk
  <2>2. height' \in Nat
    BY <2>1, BlockAssumption DEF BlocksAboveCheckpoint, Stored
  <2>3. TypeOK'
    BY <1>2, <2>2 DEF BeginWalk, TypeOK, Locations
  <2>4. WalkBelow'
    BY <1>2, <2>1 DEF BeginWalk, WalkBelow, Stored
  <2> QED
    BY <1>2, <2>3, <2>4 DEF BeginWalk, Bounds
<1>3. CASE FoundComplete
  <2>1. height \in Nat
    BY <1>3 DEF FoundComplete, TypeOK
  <2>2. checkpoint' \in [height : Nat \cup {-1}, hash : Block \cup {None}]
    BY <1>3, <2>1 DEF FoundComplete, StoredAt, Stored
  <2>3. TypeOK'
    BY <1>3, <2>1, <2>2 DEF FoundComplete, TypeOK, Locations
  <2> QED
    BY <1>3, <2>3 DEF FoundComplete, Bounds, WalkBelow
<1>4. CASE FoundIncomplete
  BY <1>4 DEF FoundIncomplete, TypeOK, Bounds, WalkBelow, Locations, Stored
<1>5. CASE WalkedToCheckpoint
  BY <1>5 DEF WalkedToCheckpoint, TypeOK, Bounds, WalkBelow, Locations
<1>6. CASE UndoneIncomplete
  <2>1. height \in Nat /\ height' = height - 1
    BY <1>6 DEF UndoneIncomplete, BlockGone, TypeOK, Bounds
  <2>2. TypeOK'
    BY <1>6, <2>1 DEF UndoneIncomplete, BlockGone, TypeOK, Locations
  <2>3. \A b \in Stored : Height[b] # height
    BY <1>6 DEF UndoneIncomplete, BlockGone, HasLayerAtHeight, Reachable, Attached, Layers, Stored
  <2>4. \A b \in Stored : Height[b] \in Nat /\ Height[b] <= height
    BY <1>6, BlockAssumption DEF UndoneIncomplete, WalkBelow, Stored
  <2>5. WalkBelow'
    BY <1>6, <2>1, <2>3, <2>4 DEF UndoneIncomplete, BlockGone, WalkBelow, Stored
  <2> QED
    BY <1>6, <2>2, <2>5 DEF UndoneIncomplete, Bounds
<1> QED
  BY <1>1, <1>2, <1>3, <1>4, <1>5, <1>6 DEF Startup

\* Deleting a layer stores nothing new.
LEMMA DeleteLayerIInv ==
  ASSUME IInv, DeleteLayer
  PROVE  IInv'
<1>1. /\ graph' \in [Block -> SUBSET Layers]
      /\ \A b \in Block : graph'[b] \subseteq graph[b]
  BY DEF IInv, TypeOK, DeleteLayer
<1>2. Stored' \subseteq Stored
  BY <1>1 DEF Stored
<1>3. UNCHANGED <<nodeVars, checkpoint, snapshot, procVars>>
  BY DEF DeleteLayer
<1>4. TypeOK'
  BY <1>1, <1>3 DEF IInv, TypeOK
<1> QED
  BY <1>2, <1>3, <1>4 DEF IInv, Bounds, WalkBelow

\* Catch-up.
LEMMA CatchUpIInv ==
  ASSUME IInv, CatchUp
  PROVE  IInv'
<1> USE DEF IInv
<1>a. canon \in Chains /\ Len(canon) \in Nat
  BY ChainBlocks DEF TypeOK
<1>1. CASE BeginFetch
  <2>1. top' \in Nat /\ top' < Len(canon)
    BY <1>1, <1>a, LiveAssumption DEF BeginFetch, Least, Tip, TypeOK
  <2> QED
    BY <1>1, <2>1 DEF BeginFetch, TypeOK, Bounds, WalkBelow, Locations
<1>2. CASE \E k \in current .. top : FetchBlock(k)
  <2>1. PICK k \in current .. top : FetchBlock(k)
    BY <1>2
  <2>2. k + 1 \in 1 .. Len(canon)
    BY <2>1, <1>a DEF FetchBlock, TypeOK, Bounds
  <2>3. canon[k + 1] \in Block
    BY <2>2, <1>a, ChainBlocks
  <2> QED
    BY <2>1, <2>3 DEF FetchBlock, TypeOK, Bounds, WalkBelow
<1>3. CASE Fetched
  BY <1>3 DEF Fetched, TypeOK, Bounds, WalkBelow, Locations
<1>4. CASE IngestChunk
  <2>1. PICK last \in ChunkEnds :
          WriteChunk(last) /\ SaveSnapshot(last) /\ height' = last + 1
    BY <1>4 DEF IngestChunk
  <2>2. /\ last \in Nat \cup {-1}
        /\ graph' \in [Block -> SUBSET Layers]
        /\ checkpoint' \in [height : Nat \cup {-1}, hash : Block \cup {None}]
    BY <2>1, WriteChunkTypes
  <2>3. snapshot' \in Nat \cup {-1} /\ height' \in Nat
    BY <2>1, <2>2 DEF SaveSnapshot, TypeOK
  <2>4. TypeOK'
    BY <1>4, <2>2, <2>3 DEF IngestChunk, TypeOK
  <2> QED
    BY <1>4, <2>4 DEF IngestChunk, Bounds, WalkBelow
<1>5. CASE IngestLastChunk
  <2>1. /\ graph' \in [Block -> SUBSET Layers]
        /\ checkpoint' \in [height : Nat \cup {-1}, hash : Block \cup {None}]
    BY <1>5, WriteChunkTypes DEF IngestLastChunk
  <2>2. /\ snapshot' \in Nat \cup {-1}
        /\ committed' \in Nat \cup {-1}
        /\ current' \in Nat
    BY <1>5 DEF IngestLastChunk, SaveSnapshot, Record, TypeOK
  <2>3. TypeOK'
    BY <1>5, <2>1, <2>2 DEF IngestLastChunk, TypeOK, Locations
  <2> QED
    BY <1>5, <2>3 DEF IngestLastChunk, Bounds, WalkBelow
<1>6. CASE ChunkRejected
  BY <1>6, ExitIInv DEF ChunkRejected, TypeOK, StoreTypes
<1>7. CASE LeaveCatchup
  BY <1>7 DEF LeaveCatchup, TypeOK, Bounds, WalkBelow, Locations
<1>8. CASE MaxReachedInCatchup
  BY <1>8, ExitIInv DEF MaxReachedInCatchup, TypeOK, StoreTypes
<1>9. CASE Connect
  BY <1>9 DEF Connect, TypeOK, Bounds, WalkBelow, Locations
<1> QED
  BY <1>1, <1>2, <1>3, <1>4, <1>5, <1>6, <1>7, <1>8, <1>9 DEF CatchUp

\* Real time.
LEMMA RealTimeIInv ==
  ASSUME IInv, RealTime
  PROVE  IInv'
<1> USE DEF IInv
<1>a. canon \in Chains /\ Len(canon) \in Nat \ {0}
  BY ChainBlocks DEF TypeOK
<1>b. ASSUME SaveOnShutdown
      PROVE  snapshot' \in Nat \cup {-1}
  BY <1>b DEF SaveOnShutdown, SaveSnapshot, TypeOK
<1>1. CASE StopOnSignal
  BY <1>1, <1>b, ExitIInv DEF StopOnSignal, TypeOK, StoreTypes
<1>2. CASE Receive
  <2>1. pending' \in 0 .. MaxPending /\ failures' \in 0 .. MaxFailures
    BY <1>2, LiveAssumption DEF Receive, TypeOK
  <2> QED
    BY <1>2, <2>1 DEF Receive, TypeOK, Bounds, WalkBelow, Locations
<1>3. CASE Reconnect
  BY <1>3 DEF Reconnect, TypeOK, Bounds, WalkBelow
<1>4. CASE AskTip
  <2>1. CASE current <= Least(Tip, MaxHeight)
    <3>1. /\ top' \in Nat /\ top' < Len(canon)
          /\ height' \in Nat /\ height' <= top'
      BY <1>4, <2>1, <1>a, LiveAssumption DEF AskTip, Least, Tip, TypeOK
    <3> QED
      BY <1>4, <2>1, <3>1 DEF AskTip, TypeOK, Bounds, WalkBelow, Locations
  <2>2. CASE ~(current <= Least(Tip, MaxHeight))
    BY <1>4, <2>2 DEF AskTip, TypeOK, Bounds, WalkBelow, Locations
  <2> QED
    BY <2>1, <2>2
<1>5. CASE IngestBlock
  <2>1. pc = "block" /\ height \in Nat /\ height <= top /\ top < Len(canon) /\ top \in Nat
    BY <1>5 DEF IngestBlock, Bounds, TypeOK
  <2>2. /\ graph' \in [Block -> SUBSET Layers]
        /\ checkpoint' \in [height : Nat \cup {-1}, hash : Block \cup {None}]
    BY <1>5, <2>1, WriteBlockTypes DEF IngestBlock
  <2>3. /\ snapshot' \in Nat \cup {-1}
        /\ committed' \in Nat \cup {-1}
    BY <1>5, <2>1 DEF IngestBlock, SaveSnapshot, Record, TypeOK
  <2>4. CASE height < top
    BY <1>5, <2>1, <2>2, <2>3, <2>4
    DEF IngestBlock, TypeOK, Bounds, WalkBelow, Locations
  <2>5. CASE ~(height < top)
    BY <1>5, <2>1, <2>2, <2>3, <2>5
    DEF IngestBlock, TypeOK, Bounds, WalkBelow, Locations
  <2> QED
    BY <2>4, <2>5
<1>6. CASE BlockRejected
  BY <1>6, ExitIInv DEF BlockRejected, TypeOK, StoreTypes
<1>7. CASE LoopAgain
  BY <1>7 DEF LoopAgain, TypeOK, Bounds, WalkBelow, Locations
<1>8. CASE StopAtMaxHeight
  BY <1>8, <1>b, ExitIInv DEF StopAtMaxHeight, TypeOK, StoreTypes
<1> QED
  BY <1>1, <1>2, <1>3, <1>4, <1>5, <1>6, <1>7, <1>8 DEF RealTime

\* Fork search and rollback.
LEMMA ReorgIInv ==
  ASSUME IInv, Reorg
  PROVE  IInv'
<1> USE DEF IInv
<1>a. canon \in Chains /\ Len(canon) \in Nat
  BY ChainBlocks DEF TypeOK
<1>1. CASE ReorgDetected
  <2>1. height \in Nat /\ height < Len(canon)
    BY <1>1, <1>a DEF ReorgDetected, Bounds, TypeOK
  <2>2. height > 0
    BY <1>1, <2>1, NextBlockType DEF ReorgDetected, ParentMatches
  <2>3. height - 1 \in Nat /\ height - 1 < Len(canon)
    BY <1>a, <2>1, <2>2
  <2>4. TypeOK'
    BY <1>1, <2>3 DEF ReorgDetected, TypeOK, Locations
  <2>5. pc' = "find" /\ height' = height - 1 /\ top' = height - 1 /\ canon' = canon
    BY <1>1 DEF ReorgDetected
  <2>6. Bounds' /\ WalkBelow'
    BY <2>3, <2>5 DEF Bounds, WalkBelow
  <2> QED
    BY <2>4, <2>6
<1>2. CASE ChainsAgree
  <2>1. height \in Nat /\ top \in Nat /\ height <= top
    BY <1>2 DEF ChainsAgree, Bounds, TypeOK
  <2>2. TypeOK'
    BY <1>2, <2>1 DEF ChainsAgree, TypeOK, Locations
  <2> QED
    BY <1>2, <2>1, <2>2 DEF ChainsAgree, Bounds, WalkBelow
<1>3. CASE ChainsDisagree
  BY <1>3, <1>a DEF ChainsDisagree, TypeOK, Bounds, WalkBelow
<1>4. CASE RolledBackBlock
  BY <1>4 DEF RolledBackBlock, BlockGone, TypeOK, Bounds, WalkBelow
<1>5. CASE RolledBack
  <2>1. checkpoint' \in [height : Nat \cup {-1}, hash : Block \cup {None}]
    BY <1>5 DEF RolledBack, TypeOK, StoredAt, Stored
  <2> QED
    BY <1>5, <2>1 DEF RolledBack, TypeOK, Bounds, WalkBelow, Locations
<1> QED
  BY <1>1, <1>2, <1>3, <1>4, <1>5 DEF Reorg

\* The invariant is inductive.
LEMMA NextIInv == IInv /\ [Next]_vars => IInv'
<1> SUFFICES ASSUME IInv, [Next]_vars PROVE IInv'
  OBVIOUS
<1>1. CASE \E c \in Chains : NewTip(c)
  BY <1>1, NewTipIInv
<1>2. CASE Launch \/ Fault
  BY <1>2, FaultIInv
<1>3. CASE Process
  BY <1>3, StartupIInv, DeleteLayerIInv, CatchUpIInv, RealTimeIInv, ReorgIInv
  DEF Process
<1>4. CASE UNCHANGED vars
  BY <1>4 DEF IInv, TypeOK, Bounds, WalkBelow, Stored, vars
<1> QED
  BY <1>1, <1>2, <1>3, <1>4 DEF Next

-----------------------------------------------------------------------------
\* Whatever the environment does, every variable keeps to its set: no step
\* indexes the node's chain outside it and no height falls below -1.
THEOREM TypeCorrect == Spec => []TypeOK
<1>1. IInv => TypeOK
  BY DEF IInv
<1> QED
  BY InitIInv, NextIInv, <1>1, PTL DEF Spec

\* After any crash, torn rollback, reorg or half-written block, the height that
\* sync_checkpoint_with_db resumes from is above every stored block.
THEOREM ResumeIsAboveStore == Spec => ResumeAboveStore
<1>1. IInv /\ [Next]_vars =>
        [pc' = "catchup" /\ pc \in {"start", "sync"} =>
           \A b \in Stored' : Height[b] < current']_vars
  <2> SUFFICES ASSUME IInv, Next, pc' = "catchup", pc \in {"start", "sync"},
                      NEW b \in Stored'
               PROVE  Height[b] < current'
    BY DEF vars
  <2>1. Height[b] \in Nat
    BY BlockAssumption DEF Stored
  <2>2. CASE ResumeFromCheckpoint
    BY <2>1, <2>2 DEF ResumeFromCheckpoint, BlocksAboveCheckpoint, Stored, IInv, TypeOK
  <2>3. CASE FoundComplete
    BY <2>1, <2>3 DEF FoundComplete, Stored, IInv, WalkBelow, TypeOK
  <2>4. CASE WalkedToCheckpoint
    BY <2>1, <2>4 DEF WalkedToCheckpoint, Stored, IInv, WalkBelow, TypeOK
  <2> QED
    BY <2>2, <2>3, <2>4 DEF Next, Process, Startup, DeleteLayer, BeginWalk,
       FoundIncomplete, UndoneIncomplete, CatchUp, RealTime, Reorg, Fault,
       NewTip, Launch, Crash, Exit, Signal, RpcFails, ChunkFails, ConnectFails,
       ReceiveFails, ReceiveGivesUp, BlockFails, BeginFetch, FetchBlock, Fetched,
       IngestChunk, IngestLastChunk, ChunkRejected, LeaveCatchup,
       MaxReachedInCatchup, Connect, StopOnSignal, Receive, Reconnect, AskTip,
       IngestBlock, BlockRejected, LoopAgain, StopAtMaxHeight, ReorgDetected,
       ChainsAgree, ChainsDisagree, RolledBackBlock, RolledBack
<1> QED
  BY InitIInv, NextIInv, <1>1, PTL DEF Spec, ResumeAboveStore

\* A restart deletes nothing at or below the checkpoint: the startup walk stops
\* above it, even when the process dies between two queries of a rollback.
THEOREM WalkStopsAtCheckpoint == Spec => WalkSparesCheckpointed
<1>1. IInv /\ [Next]_vars =>
        [\A b \in Block : pc = "undo" /\ graph'[b] # graph[b] =>
           Height[b] > checkpoint.height]_vars
  <2> SUFFICES ASSUME IInv, Next, pc = "undo",
                      NEW b \in Block, graph'[b] # graph[b]
               PROVE  Height[b] > checkpoint.height
    BY DEF vars
  <2>1. height > checkpoint.height
    BY DEF IInv, Bounds
  <2>2. CASE DeleteLayer
    BY <2>1, <2>2 DEF DeleteLayer, Reachable, Attached, IInv, TypeOK
  <2> QED
    BY <2>2 DEF Next, Process, Startup, ResumeFromCheckpoint, BeginWalk,
       FoundComplete, FoundIncomplete, WalkedToCheckpoint, UndoneIncomplete,
       BlockGone, CatchUp, RealTime, Reorg, Fault,
       NewTip, Launch, Crash, Exit, Signal, RpcFails, ChunkFails, ConnectFails,
       ReceiveFails, ReceiveGivesUp, BlockFails, BeginFetch, FetchBlock, Fetched,
       IngestChunk, IngestLastChunk, ChunkRejected, LeaveCatchup,
       MaxReachedInCatchup, Connect, StopOnSignal, Receive, Reconnect, AskTip,
       IngestBlock, BlockRejected, LoopAgain, StopAtMaxHeight, ReorgDetected,
       ChainsAgree, ChainsDisagree, RolledBackBlock, RolledBack
<1> QED
  BY InitIInv, NextIInv, <1>1, PTL DEF Spec, WalkSparesCheckpointed

\* A query of a rollback takes away nothing that data still in the graph needs to be
\* found: transactions go after inputs and outputs, the block after all three.
LEMMA DeleteOrphansNothing ==
  ASSUME IInv, DeleteLayer, NEW b \in Block
  PROVE  Orphaned(b)' \subseteq Orphaned(b)
<1>1. PICK i \in 1 .. 4 :
        /\ \A j \in 1 .. i - 1 : ~HasLayerAtHeight(RollbackOrder[j])
        /\ graph' = [a \in Block |-> IF Reachable(a, RollbackOrder[i])
                                     THEN graph[a] \ {RollbackOrder[i]}
                                     ELSE graph[a]]
  BY DEF DeleteLayer
<1>2. graph[b] \subseteq Layers
  BY DEF IInv, TypeOK
<1> SUFFICES ASSUME NEW l \in Layers, l \in graph'[b], ~Attached(b, l)', Attached(b, l)
             PROVE  FALSE
  BY <1>1, <1>2 DEF Orphaned
<1>3. /\ Reachable(b, RollbackOrder[i]) /\ graph'[b] = graph[b] \ {RollbackOrder[i]}
      /\ l # RollbackOrder[i]
  BY <1>1 DEF Attached
<1>4. \A j \in 1 .. i - 1 : ~Attached(b, RollbackOrder[j])
  BY <1>1, <1>3 DEF HasLayerAtHeight, Reachable
<1>5. CASE RollbackOrder[i] = "transactions" /\ l \in {"inputs", "outputs"}
  <2>1. i = 3
    BY <1>5 DEF RollbackOrder
  <2>2. ~Attached(b, "inputs") /\ ~Attached(b, "outputs")
    BY <1>4, <2>1 DEF RollbackOrder
  <2> QED
    BY <1>5, <2>2
<1>6. CASE RollbackOrder[i] = "block"
  <2>1. i = 4
    BY <1>6 DEF RollbackOrder
  <2>2. ~Attached(b, "inputs") /\ ~Attached(b, "outputs") /\ ~Attached(b, "transactions")
    BY <1>4, <2>1 DEF RollbackOrder
  <2> QED
    BY <1>3, <1>6, <2>2 DEF Layers
<1> QED
  BY <1>3, <1>5, <1>6 DEF Attached

\* Wherever rollbacks are cut off, by a crash or a failing query, nothing is left
\* that no later rollback could delete.
THEOREM RollbackIsResumable == Spec => RollbackLeavesNoOrphan
<1>1. IInv /\ [Next]_vars => [\A b \in Block : Orphaned(b)' \subseteq Orphaned(b)]_vars
  <2> SUFFICES ASSUME IInv, Next, NEW b \in Block
               PROVE  Orphaned(b)' \subseteq Orphaned(b)
    BY DEF vars
  <2>1. CASE DeleteLayer
    BY <2>1, DeleteOrphansNothing
  <2>2. ASSUME NEW B, Insert(B)
        PROVE  Orphaned(b)' \subseteq Orphaned(b)
    BY <2>2 DEF Insert, Orphaned, Attached, Layers
  <2>3. CASE graph' = graph
    BY <2>3 DEF Orphaned, Attached
  <2>4. CASE ChunkFails \/ BlockFails \/ IngestChunk \/ IngestLastChunk \/ IngestBlock
    <3>1. graph' = graph \/ \E B : Insert(B)
      BY <2>4 DEF ChunkFails, BlockFails, IngestChunk, IngestLastChunk, IngestBlock,
                  WriteChunk, WriteBlock
    <3> QED
      BY <2>2, <2>3, <3>1
  <2>5. DeleteLayer \/ ChunkFails \/ BlockFails \/ IngestChunk \/ IngestLastChunk
          \/ IngestBlock \/ graph' = graph
    BY DEF Next, Process, Startup, ResumeFromCheckpoint, BeginWalk, storeVars,
       FoundComplete, FoundIncomplete, WalkedToCheckpoint, UndoneIncomplete,
       BlockGone, CatchUp, RealTime, Reorg, Fault,
       NewTip, Launch, Crash, Exit, Signal, RpcFails, ConnectFails,
       ReceiveFails, ReceiveGivesUp, BeginFetch, FetchBlock, Fetched,
       ChunkRejected, LeaveCatchup,
       MaxReachedInCatchup, Connect, StopOnSignal, Receive, Reconnect, AskTip,
       BlockRejected, LoopAgain, StopAtMaxHeight, ReorgDetected,
       ChainsAgree, ChainsDisagree, RolledBackBlock, RolledBack
  <2> QED
    BY <2>1, <2>3, <2>4, <2>5
<1> QED
  BY InitIInv, NextIInv, <1>1, PTL DEF Spec, RollbackLeavesNoOrphan


-----------------------------------------------------------------------------
(* Where incomplete blocks can be.  A committed chunk holds whole blocks, so *)
(* only a rollback makes a block incomplete, or an ingest_block that died in *)
(* the initial store; every such block is at most one above the checkpoint.  *)
(* Hence the startup walk deletes at most the block just above it.           *)

Incomplete == {b \in Stored : ~Complete(b)}

\* The process is past sync_checkpoint_with_db.
Running == pc \notin {"down", "start", "sync", "undo"}

IncompleteNearCheckpoint ==
  \A b \in Incomplete : Height[b] <= checkpoint.height + 1

\* The process never resumes above a gap, nor at a block it must not write again.
CurrentNearCheckpoint ==
  /\ Running => current <= checkpoint.height + 1
  /\ Running /\ pc # "rollback" => \A b \in Incomplete : Height[b] < current

HeightNearCheckpoint ==
  /\ pc = "undo" => height = checkpoint.height + 1
  /\ pc \in {"ingest", "block"} => height >= current
  /\ pc = "block" => height <= checkpoint.height + 1
  /\ pc \in {"find", "rollback"} => current <= top + 1 /\ top <= checkpoint.height

\* A reorg's rollback leaves nothing stored between where it is and where it began.
RollbackClears ==
  pc = "rollback" =>
    /\ height <= top
    /\ \A b \in Stored : Height[b] \notin height + 1 .. top
    /\ \A b \in Incomplete : Height[b] <= top

WalkInv ==
  /\ IncompleteNearCheckpoint
  /\ CurrentNearCheckpoint
  /\ HeightNearCheckpoint
  /\ RollbackClears
  /\ WalkMeetsBlock

\* Only what writes a chunk or deletes a layer changes which blocks are incomplete.
LEMMA SameIncomplete ==
  ASSUME graph' = graph
  PROVE  Stored' = Stored /\ Incomplete' = Incomplete
BY DEF Stored, Incomplete, Complete

\* What a chunk inserts is complete.
LEMMA InsertIncomplete ==
  ASSUME IInv, NEW B, Insert(B)
  PROVE  Incomplete' \subseteq Incomplete
BY DEF IInv, TypeOK, Insert, Incomplete, Stored, Complete, Layers

\* An ended process leaves a store whose incomplete blocks are near the checkpoint.
LEMMA ExitWalk ==
  ASSUME Exit, IncompleteNearCheckpoint'
  PROVE  WalkInv'
BY DEF Exit, WalkInv, CurrentNearCheckpoint, HeightNearCheckpoint, RollbackClears,
   WalkMeetsBlock, Running

\* The initial states.
LEMMA InitWalk == Init => WalkInv
<1> SUFFICES ASSUME Init PROVE WalkInv
  OBVIOUS
<1>1. IncompleteNearCheckpoint
  <2>1. CASE EmptyStore
    BY <2>1 DEF EmptyStore, IncompleteNearCheckpoint, Incomplete, Stored
  <2>2. CASE PartialStore
    <3>1. PICK n \in 2 .. Len(canon) : \E p \in PartialBlocks :
            /\ graph = [b \in Block |-> IF \E i \in 1 .. n - 1 : canon[i] = b THEN Layers
                                       ELSE IF b = canon[n] THEN p ELSE {}]
            /\ checkpoint = [height |-> n - 2, hash |-> canon[n - 1]]
      BY <2>2 DEF PartialStore
    <3>2. PICK p \in PartialBlocks :
            graph = [b \in Block |-> IF \E i \in 1 .. n - 1 : canon[i] = b THEN Layers
                                     ELSE IF b = canon[n] THEN p ELSE {}]
      BY <3>1
    <3>3. Len(canon) \in Nat /\ n \in Int /\ Height[canon[n]] = n - 1
      BY <3>1, ChainBlocks DEF Init
    <3>4. \A b \in Incomplete : b = canon[n]
      <4> SUFFICES ASSUME NEW b \in Block, b # canon[n], b \in Stored
                   PROVE  Complete(b)
        BY DEF Incomplete, Stored
      <4>1. graph[b] = IF \E i \in 1 .. n - 1 : canon[i] = b THEN Layers ELSE {}
        BY <3>2
      <4> QED
        BY <4>1 DEF Stored, Complete, Layers
    <3>5. checkpoint.height = n - 2
      BY <3>1
    <3> QED
      BY <3>3, <3>4, <3>5 DEF IncompleteNearCheckpoint
  <2> QED
    BY <2>1, <2>2 DEF Init
<1> QED
  BY <1>1 DEF Init, WalkInv, CurrentNearCheckpoint, HeightNearCheckpoint,
     RollbackClears, WalkMeetsBlock, Running

\* The startup walk.
LEMMA StartupWalk ==
  ASSUME IInv, WalkInv, Startup
  PROVE  WalkInv'
<1> USE DEF WalkInv, IncompleteNearCheckpoint, CurrentNearCheckpoint,
        HeightNearCheckpoint, RollbackClears, WalkMeetsBlock, Running
<1>a. graph' = graph /\ Stored' = Stored /\ Incomplete' = Incomplete
  BY SameIncomplete DEF Startup, ResumeFromCheckpoint, BeginWalk, FoundComplete,
     FoundIncomplete, WalkedToCheckpoint, UndoneIncomplete, BlockGone
<1>b. \A b \in Stored : Height[b] \in Nat
  BY BlockAssumption DEF Stored
<1>c. Incomplete \subseteq Stored
  BY DEF Incomplete
<1>d. checkpoint.height \in Int /\ height \in Int
  BY DEF IInv, TypeOK
<1>1. CASE ResumeFromCheckpoint
  <2>1. \A b \in Stored : Height[b] <= checkpoint.height
    BY <1>1, <1>b, <1>d DEF ResumeFromCheckpoint, BlocksAboveCheckpoint
  <2> QED
    BY <1>1, <1>a, <1>b, <1>c, <1>d, <2>1 DEF ResumeFromCheckpoint
<1>2. CASE BeginWalk
  <2>1. \E m \in Stored : height' = Height[m]
    BY <1>2 DEF BeginWalk, BlocksAboveCheckpoint
  <2>2. WalkMeetsBlock'
    BY <1>a, <2>1 DEF StoredAt
  <2> QED
    BY <1>2, <1>a, <2>2 DEF BeginWalk
<1>3. CASE FoundComplete
  <2>1. checkpoint'.height = height /\ current' = height + 1 /\ pc' = "catchup"
    BY <1>3 DEF FoundComplete
  <2>2. \A b \in Stored : Height[b] <= height
    BY <1>3 DEF FoundComplete, IInv, WalkBelow
  <2> QED
    BY <1>a, <1>b, <1>c, <1>d, <2>1, <2>2
<1>4. CASE FoundIncomplete
  <2>1. PICK b \in Incomplete : Height[b] = height
    BY <1>4 DEF FoundIncomplete, StoredAt, Incomplete
  <2>2. height = checkpoint.height + 1
    BY <1>4, <1>d, <2>1 DEF FoundIncomplete
  <2> QED
    BY <1>4, <1>a, <2>2 DEF FoundIncomplete
<1>5. CASE WalkedToCheckpoint
  <2>1. \A b \in Stored : Height[b] <= checkpoint.height
    BY <1>5 DEF WalkedToCheckpoint, IInv, WalkBelow
  <2> QED
    BY <1>5, <1>a, <1>b, <1>c, <1>d, <2>1 DEF WalkedToCheckpoint
<1>6. CASE UndoneIncomplete
  BY <1>6, <1>a, <1>d DEF UndoneIncomplete, BlockGone
<1> QED
  BY <1>1, <1>2, <1>3, <1>4, <1>5, <1>6 DEF Startup


\* Deleting a layer makes only blocks at the height of the rollback incomplete.
LEMMA DeleteLayerWalk ==
  ASSUME IInv, WalkInv, DeleteLayer
  PROVE  WalkInv'
<1> USE DEF WalkInv, IncompleteNearCheckpoint, CurrentNearCheckpoint,
        HeightNearCheckpoint, RollbackClears, WalkMeetsBlock, Running
<1>1. \A b \in Block : graph'[b] \subseteq graph[b] /\ (graph'[b] # graph[b] => Height[b] = height)
  BY DEF IInv, TypeOK, DeleteLayer, Reachable, Attached
<1>2. Stored' \subseteq Stored
  BY <1>1 DEF Stored
<1>3. \A b \in Incomplete' : b \in Incomplete \/ Height[b] = height
  BY <1>1 DEF Incomplete, Stored, Complete
<1>4. UNCHANGED <<checkpoint, procVars>> /\ pc \in {"undo", "rollback"}
  BY DEF DeleteLayer
<1>5. /\ checkpoint.height \in Int /\ height \in Int /\ top \in Int /\ current \in Int
      /\ pc = "rollback" => height <= checkpoint.height + 1
  BY DEF IInv, TypeOK
<1>6. IncompleteNearCheckpoint'
  BY <1>3, <1>4, <1>5
<1>7. RollbackClears'
  BY <1>2, <1>3, <1>4, <1>5
<1> QED
  BY <1>4, <1>6, <1>7

\* A chunk, or a block of the stream, written at the process's height leaves every
\* incomplete block below the height it began at, and the checkpoint at its end.
LEMMA WrittenWalk ==
  ASSUME IInv, WalkInv, pc \in {"ingest", "block"},
         NEW last \in Int, last >= height, checkpoint'.height = last,
         Incomplete' \subseteq Incomplete
  PROVE  /\ current <= height /\ current <= last + 1
         /\ \A b \in Incomplete' : Height[b] < current
         /\ IncompleteNearCheckpoint'
<1>1. current <= height /\ current \in Int /\ height \in Int
  BY DEF IInv, TypeOK, WalkInv, HeightNearCheckpoint
<1>2. \A b \in Incomplete : Height[b] < current
  BY DEF WalkInv, CurrentNearCheckpoint, Running
<1>3. \A b \in Incomplete' : Height[b] \in Int
  BY BlockAssumption DEF Incomplete, Stored
<1>4. IncompleteNearCheckpoint'
  BY <1>1, <1>2, <1>3 DEF IncompleteNearCheckpoint
<1> QED
  BY <1>1, <1>2, <1>4

\* A chunk that is written.
LEMMA ChunkWalk ==
  ASSUME IInv, WalkInv, pc = "ingest", NEW last \in ChunkEnds, WriteChunk(last)
  PROVE  /\ last \in Int /\ last >= height /\ checkpoint'.height = last
         /\ current <= height /\ current <= last + 1
         /\ \A b \in Incomplete' : Height[b] < current
         /\ IncompleteNearCheckpoint'
<1>1. last \in Int /\ last >= height /\ checkpoint'.height = last
  BY WriteChunkTypes
<1>2. Incomplete' \subseteq Incomplete
  BY InsertIncomplete DEF WriteChunk
<1> QED
  BY <1>1, <1>2, WrittenWalk

\* A block of the stream that is written.
LEMMA BlockWalk ==
  ASSUME IInv, WalkInv, pc = "block", WriteBlock
  PROVE  /\ checkpoint'.height = height
         /\ current <= height
         /\ \A b \in Incomplete' : Height[b] < current
         /\ IncompleteNearCheckpoint'
<1>1. height \in Int /\ checkpoint'.height = height
  BY DEF IInv, TypeOK, WriteBlock
<1>2. Incomplete' \subseteq Incomplete
  BY InsertIncomplete DEF WriteBlock
<1> QED
  BY <1>1, <1>2, WrittenWalk

\* The node's steps, the launch and the faults.
LEMMA FaultWalk ==
  ASSUME IInv, WalkInv, (\E c \in Chains : NewTip(c)) \/ Launch \/ Fault
  PROVE  WalkInv'
<1>a. ASSUME graph' = graph, checkpoint' = checkpoint
      PROVE  Incomplete' = Incomplete /\ Stored' = Stored /\ IncompleteNearCheckpoint'
  BY <1>a, SameIncomplete DEF WalkInv, IncompleteNearCheckpoint
<1>1. CASE \E c \in Chains : NewTip(c)
  BY <1>1, <1>a DEF NewTip, WalkInv, CurrentNearCheckpoint, HeightNearCheckpoint,
     RollbackClears, WalkMeetsBlock, Running, StoredAt
<1>2. CASE Launch
  BY <1>2, <1>a DEF Launch, WalkInv, CurrentNearCheckpoint, HeightNearCheckpoint,
     RollbackClears, WalkMeetsBlock, Running
<1>3. CASE Crash \/ RpcFails \/ ConnectFails \/ ReceiveGivesUp
  BY <1>3, <1>a, ExitWalk DEF Crash, RpcFails, ConnectFails, ReceiveGivesUp
<1>4. CASE Signal \/ ReceiveFails
  BY <1>4, <1>a DEF Signal, ReceiveFails, WalkInv, CurrentNearCheckpoint,
     HeightNearCheckpoint, RollbackClears, WalkMeetsBlock, Running, StoredAt
<1>5. CASE ChunkFails
  <2>1. CASE UNCHANGED <<graph, checkpoint>>
    BY <1>5, <2>1, <1>a, ExitWalk DEF ChunkFails
  <2>2. CASE \E last \in ChunkEnds : ChunkAccepted(last) /\ WriteChunk(last)
    BY <1>5, <2>2, ChunkWalk, ExitWalk DEF ChunkFails
  <2> QED
    BY <1>5, <2>1, <2>2 DEF ChunkFails
<1>6. CASE BlockFails
  <2>1. CASE UNCHANGED <<graph, checkpoint>>
    BY <1>6, <2>1, <1>a, ExitWalk DEF BlockFails
  <2>2. CASE WriteBlock
    BY <1>6, <2>2, BlockWalk, ExitWalk DEF BlockFails
  <2> QED
    BY <1>6, <2>1, <2>2 DEF BlockFails
<1> QED
  BY <1>1, <1>2, <1>3, <1>4, <1>5, <1>6 DEF Fault

\* Catch-up.
LEMMA CatchUpWalk ==
  ASSUME IInv, WalkInv, CatchUp
  PROVE  WalkInv'
<1> USE DEF WalkInv, CurrentNearCheckpoint, HeightNearCheckpoint, RollbackClears,
        WalkMeetsBlock, Running
<1>a. ASSUME graph' = graph, checkpoint' = checkpoint
      PROVE  Incomplete' = Incomplete /\ Stored' = Stored /\ IncompleteNearCheckpoint'
  BY <1>a, SameIncomplete DEF IncompleteNearCheckpoint
<1>b. current \in Int /\ top \in Int /\ height \in Int
  BY DEF IInv, TypeOK
<1>1. CASE BeginFetch
  BY <1>1, <1>a DEF BeginFetch
<1>2. CASE \E k \in current .. top : FetchBlock(k)
  BY <1>2, <1>a DEF FetchBlock
<1>3. CASE Fetched
  BY <1>3, <1>a, <1>b DEF Fetched
<1>4. CASE IngestChunk
  <2>1. PICK last \in ChunkEnds : WriteChunk(last) /\ height' = last + 1
    BY <1>4 DEF IngestChunk
  <2>2. /\ last \in Int /\ last >= height /\ checkpoint'.height = last
        /\ current <= height /\ current <= last + 1
        /\ \A b \in Incomplete' : Height[b] < current
        /\ IncompleteNearCheckpoint'
    BY <1>4, <2>1, ChunkWalk DEF IngestChunk
  <2>3. pc' = "ingest" /\ current' = current
    BY <1>4 DEF IngestChunk
  <2> QED
    BY <1>b, <2>1, <2>2, <2>3
<1>5. CASE IngestLastChunk
  <2>1. /\ checkpoint'.height = top
        /\ current <= height /\ current <= top + 1
        /\ \A b \in Incomplete' : Height[b] < current
        /\ IncompleteNearCheckpoint'
    BY <1>5, ChunkWalk DEF IngestLastChunk
  <2>2. \A b \in Incomplete' : Height[b] \in Int
    BY BlockAssumption DEF Incomplete, Stored
  <2>3. pc' \in {"phaseB", "catchup"} /\ current' \in {current, top + 1}
    BY <1>5 DEF IngestLastChunk
  <2> QED
    BY <1>b, <2>1, <2>2, <2>3
<1>6. CASE ChunkRejected \/ MaxReachedInCatchup
  BY <1>6, <1>a, ExitWalk DEF ChunkRejected, MaxReachedInCatchup
<1>7. CASE LeaveCatchup \/ Connect
  BY <1>7, <1>a DEF LeaveCatchup, Connect
<1> QED
  BY <1>1, <1>2, <1>3, <1>4, <1>5, <1>6, <1>7 DEF CatchUp

\* Real time.
LEMMA RealTimeWalk ==
  ASSUME IInv, WalkInv, RealTime
  PROVE  WalkInv'
<1> USE DEF WalkInv, CurrentNearCheckpoint, HeightNearCheckpoint, RollbackClears,
        WalkMeetsBlock, Running
<1>a. ASSUME graph' = graph, checkpoint' = checkpoint
      PROVE  Incomplete' = Incomplete /\ Stored' = Stored /\ IncompleteNearCheckpoint'
  BY <1>a, SameIncomplete DEF IncompleteNearCheckpoint
<1>b. current \in Int /\ top \in Int /\ height \in Int
  BY DEF IInv, TypeOK
<1>1. CASE StopOnSignal \/ BlockRejected \/ StopAtMaxHeight
  BY <1>1, <1>a, ExitWalk DEF StopOnSignal, BlockRejected, StopAtMaxHeight
<1>2. CASE Receive \/ Reconnect \/ LoopAgain
  BY <1>2, <1>a DEF Receive, Reconnect, LoopAgain
<1>3. CASE AskTip
  <2>1. CASE pc' = "block" /\ height' = current
    BY <1>3, <2>1, <1>a, <1>b DEF AskTip
  <2>2. CASE pc' = "check"
    BY <1>3, <2>2, <1>a DEF AskTip
  <2> QED
    BY <1>3, <2>1, <2>2 DEF AskTip
<1>4. CASE IngestBlock
  <2>1. /\ checkpoint'.height = height
        /\ current <= height
        /\ \A b \in Incomplete' : Height[b] < current
        /\ IncompleteNearCheckpoint'
    BY <1>4, BlockWalk DEF IngestBlock
  <2>2. \A b \in Incomplete' : Height[b] \in Int
    BY BlockAssumption DEF Incomplete, Stored
  <2>3. CASE height < top
    BY <1>4, <1>b, <2>1, <2>2, <2>3 DEF IngestBlock
  <2>4. CASE ~(height < top)
    <3>1. top = height
      BY <1>4, <1>b, <2>4 DEF IngestBlock, IInv, Bounds
    <3>2. pc' = "check" /\ current' = top + 1
      BY <1>4, <2>4 DEF IngestBlock
    <3> QED
      BY <1>b, <2>1, <2>2, <3>1, <3>2
  <2> QED
    BY <2>3, <2>4
<1> QED
  BY <1>1, <1>2, <1>3, <1>4 DEF RealTime

\* Fork search and rollback.
LEMMA ReorgWalk ==
  ASSUME IInv, WalkInv, Reorg
  PROVE  WalkInv'
<1> USE DEF WalkInv, CurrentNearCheckpoint, HeightNearCheckpoint, RollbackClears,
        WalkMeetsBlock, Running
<1>a. graph' = graph /\ Incomplete' = Incomplete /\ Stored' = Stored
  BY SameIncomplete DEF Reorg, ReorgDetected, ChainsAgree, ChainsDisagree,
     RolledBackBlock, BlockGone, RolledBack
<1>b. current \in Int /\ top \in Int /\ height \in Int /\ checkpoint.height \in Int
  BY DEF IInv, TypeOK
<1>c. /\ \A b \in Stored : Height[b] \in Int
      /\ Incomplete \subseteq Stored
  BY BlockAssumption DEF Incomplete, Stored
<1>1. CASE ReorgDetected \/ ChainsDisagree
  BY <1>1, <1>a, <1>b, <1>c DEF ReorgDetected, ChainsDisagree, IncompleteNearCheckpoint
<1>2. CASE ChainsAgree
  BY <1>2, <1>a, <1>b, <1>c DEF ChainsAgree, IncompleteNearCheckpoint
<1>3. CASE RolledBackBlock
  <2>1. \A b \in Stored : Height[b] # height
    BY <1>3 DEF RolledBackBlock, BlockGone, HasLayerAtHeight, Reachable, Attached, Layers, Stored
  <2>2. /\ pc = "rollback" /\ pc' = pc /\ height' = height - 1
        /\ UNCHANGED <<current, top, checkpoint>>
    BY <1>3 DEF RolledBackBlock, BlockGone
  <2>3. RollbackClears'
    BY <1>a, <1>b, <1>c, <2>1, <2>2
  <2> QED
    BY <1>a, <2>2, <2>3 DEF IncompleteNearCheckpoint
<1>4. CASE RolledBack
  <2>1. /\ height = fork /\ pc = "rollback" /\ pc' = "check" /\ current' = fork + 1
    BY <1>4 DEF RolledBack
  <2>2. checkpoint'.height = fork \/ (fork = top /\ checkpoint' = checkpoint)
    BY <1>4, <1>b, <2>1 DEF RolledBack
  <2>3. \A b \in Incomplete : Height[b] <= fork
    BY <1>b, <1>c, <2>1
  <2>4. fork + 1 <= checkpoint'.height + 1 /\ fork \in Int /\ checkpoint'.height \in Int
    BY <1>b, <2>1, <2>2
  <2> QED
    BY <1>a, <1>c, <2>1, <2>3, <2>4 DEF IncompleteNearCheckpoint
<1> QED
  BY <1>1, <1>2, <1>3, <1>4 DEF Reorg

\* The strengthened invariant is inductive.
LEMMA NextWalk == IInv /\ WalkInv /\ [Next]_vars => WalkInv'
<1> SUFFICES ASSUME IInv, WalkInv, [Next]_vars PROVE WalkInv'
  OBVIOUS
<1>1. CASE (\E c \in Chains : NewTip(c)) \/ Launch \/ Fault
  BY <1>1, FaultWalk
<1>2. CASE Process
  BY <1>2, StartupWalk, DeleteLayerWalk, CatchUpWalk, RealTimeWalk, ReorgWalk
  DEF Process
<1>3. CASE UNCHANGED vars
  BY <1>3, SameIncomplete DEF WalkInv, IncompleteNearCheckpoint, CurrentNearCheckpoint,
     HeightNearCheckpoint, RollbackClears, WalkMeetsBlock, Running, StoredAt, vars
<1> QED
  BY <1>1, <1>2, <1>3 DEF Next

\* Whatever the environment does (a reorg, a rollback torn apart, a half-written
\* block), check_block_complete always finds a block at the height it asks about,
\* so no launch ends in the startup walk.
THEOREM WalkAlwaysMeetsBlock == Spec => []WalkMeetsBlock
<1>1. WalkInv => WalkMeetsBlock
  BY DEF WalkInv
<1> QED
  BY InitIInv, NextIInv, InitWalk, NextWalk, <1>1, PTL DEF Spec

-----------------------------------------------------------------------------
(* A chain that only grows *)

Grows == "reorg" \notin Env /\ "partial" \notin Env

\* The layers block b has when the graph is the node's chain up to height k.
LayersUpTo(b, k) ==
  IF Height[b] <= k /\ canon[Height[b] + 1] = b THEN Layers ELSE {}

StoreIsPrefix ==
  /\ checkpoint.height < Len(canon)
  /\ \A b \in Block : graph[b] = LayersUpTo(b, checkpoint.height)
  /\ checkpoint.height >= 0 => checkpoint.hash = canon[checkpoint.height + 1]

\* How the loops' heights stand to the checkpoint.
LoopsFollow ==
  /\ pc \notin {"sync", "undo", "find", "rollback"}
  /\ pc \notin {"down", "start"} => current <= checkpoint.height + 1
  /\ pc \in {"catchup", "fetch"} => current = checkpoint.height + 1
  /\ pc = "fetch" => current <= top
  /\ pc = "ingest" => height = checkpoint.height + 1 /\ height <= top
  /\ pc = "block" => height <= checkpoint.height + 1

\* What has been fetched is the node's chain, with no height left out when the
\* batch is handed over.
BatchIsChain ==
  /\ pc \in {"fetch", "ingest"} =>
       /\ top < Len(canon)
       /\ \A b \in batch : Height[b] <= top /\ canon[Height[b] + 1] = b
  /\ pc = "ingest" => \A k \in height .. top : canon[k + 1] \in batch

LineInv ==
  /\ IInv
  /\ StoreIsPrefix
  /\ LoopsFollow
  /\ BatchIsChain
  /\ SaveHeightIsCheckpoint
  /\ SnapshotWithinCheckpoint

-----------------------------------------------------------------------------
\* What the invariant says of the node's chain at a height it has.
LEMMA CanonBlocks ==
  ASSUME IInv
  PROVE  /\ Len(canon) \in Nat \ {0}
         /\ \A k \in 0 .. Len(canon) - 1 :
              canon[k + 1] \in Block /\ Height[canon[k + 1]] = k
         /\ \A k \in 1 .. Len(canon) - 1 : Parent[canon[k + 1]] = canon[k]
<1>1. canon \in Chains
  BY DEF IInv, TypeOK
<1>2. Len(canon) \in Nat \ {0}
  BY <1>1, ChainBlocks
<1>3. ASSUME NEW k \in 0 .. Len(canon) - 1
      PROVE  canon[k + 1] \in Block /\ Height[canon[k + 1]] = k
  <2>1. k + 1 \in 1 .. Len(canon) /\ k + 1 - 1 = k
    BY <1>2
  <2> QED
    BY <1>1, <2>1, ChainBlocks
<1>4. ASSUME NEW k \in 1 .. Len(canon) - 1
      PROVE  Parent[canon[k + 1]] = canon[k]
  <2>1. k + 1 \in 2 .. Len(canon) /\ k + 1 - 1 = k
    BY <1>2
  <2> QED
    BY <1>1, <2>1, ChainBlocks
<1> QED
  BY <1>2, <1>3, <1>4

\* StoreIsPrefix is the property of the runs, said block by block.
LEMMA PrefixOfStore == IInv /\ StoreIsPrefix => StoredIsPrefix
<1> SUFFICES ASSUME IInv, StoreIsPrefix PROVE StoredIsPrefix
  OBVIOUS
<1>1. checkpoint.height \in Nat \cup {-1} /\ Len(canon) \in Nat
      /\ checkpoint.height < Len(canon)
  BY CanonBlocks DEF StoreIsPrefix, IInv, TypeOK
<1>2. ASSUME NEW b \in Stored
      PROVE  b \in {canon[i] : i \in 1 .. checkpoint.height + 1}
  <2>1. b \in Block /\ Height[b] \in Nat
    BY BlockAssumption DEF Stored
  <2>2. Height[b] <= checkpoint.height /\ canon[Height[b] + 1] = b
    BY <2>1 DEF Stored, StoreIsPrefix, LayersUpTo
  <2>3. Height[b] + 1 \in 1 .. checkpoint.height + 1
    BY <1>1, <2>1, <2>2
  <2> QED
    BY <2>2, <2>3
<1>3. ASSUME NEW i \in 1 .. checkpoint.height + 1
      PROVE  canon[i] \in Stored
  <2>1. i - 1 \in 0 .. Len(canon) - 1 /\ (i - 1) + 1 = i /\ i - 1 <= checkpoint.height
    BY <1>1
  <2>2. canon[i] \in Block /\ Height[canon[i]] = i - 1
    BY <2>1, CanonBlocks
  <2>3. graph[canon[i]] = Layers
    BY <2>1, <2>2 DEF StoreIsPrefix, LayersUpTo
  <2> QED
    BY <2>2, <2>3 DEF Stored, Layers
<1>4. \A b \in Block : graph[b] \in {{}, Layers}
  BY DEF StoreIsPrefix, LayersUpTo
<1> QED
  BY <1>1, <1>2, <1>3, <1>4 DEF StoredIsPrefix, StoreIsPrefix

\* An empty store is the empty prefix.
LEMMA InitLine == Grows /\ Init => LineInv
<1> SUFFICES ASSUME Grows, Init PROVE LineInv
  OBVIOUS
<1>1. IInv
  BY InitIInv
<1>2. EmptyStore
  BY DEF Init, Grows
<1>3. StoreIsPrefix
  <2>1. checkpoint.height = -1
    BY <1>2 DEF EmptyStore
  <2>2. Len(canon) \in Nat \ {0}
    BY <1>1, CanonBlocks
  <2>3. ASSUME NEW b \in Block PROVE graph[b] = LayersUpTo(b, checkpoint.height)
    BY <1>2, <2>1, BlockAssumption DEF EmptyStore, LayersUpTo
  <2> QED
    BY <2>1, <2>2, <2>3 DEF StoreIsPrefix
<1>4. SaveHeightIsCheckpoint /\ SnapshotWithinCheckpoint
  BY <1>2 DEF Init, EmptyStore, SaveHeightIsCheckpoint, SnapshotWithinCheckpoint
<1> QED
  BY <1>1, <1>3, <1>4 DEF LineInv, LoopsFollow, BatchIsChain, Init

-----------------------------------------------------------------------------
(* The steps. *)

USE DEF nodeVars, storeVars, loopVars, flags, procVars

\* A step that leaves the store and the node's chain alone leaves the prefix.
LEMMA PrefixKept ==
  ASSUME StoreIsPrefix, UNCHANGED <<canon, graph, checkpoint>>
  PROVE  StoreIsPrefix'
BY DEF StoreIsPrefix, LayersUpTo

\* A process that ends leaves the line invariant to its store alone.
LEMMA ExitLine ==
  ASSUME IInv', Exit, StoreIsPrefix', SnapshotWithinCheckpoint'
  PROVE  LineInv'
BY DEF LineInv, Exit, Idle, LoopsFollow, BatchIsChain, SaveHeightIsCheckpoint

\* The node's chain grows: what was stored or fetched of it is still there.
LEMMA NewTipLine ==
  ASSUME Grows, LineInv, IInv', NEW c \in Chains, NewTip(c)
  PROVE  LineInv'
<1> USE DEF LineInv
<1>1. /\ Len(canon) \in Nat /\ Len(canon') \in Nat
      /\ Len(canon) < Len(canon')
      /\ \A i \in 1 .. Len(canon) : canon'[i] = canon[i]
  BY CanonBlocks, ChainBlocks DEF NewTip, Extends, Grows
<1>2. /\ checkpoint.height \in Nat \cup {-1} /\ checkpoint.height < Len(canon)
      /\ top \in Nat /\ height \in Nat \cup {-1}
      /\ batch \subseteq Block
  BY DEF IInv, TypeOK, StoreIsPrefix
<1>3. \A k \in 0 .. Len(canon) - 1 : canon'[k + 1] = canon[k + 1]
  BY <1>1
<1>4. UNCHANGED <<storeVars, procVars>>
  BY DEF NewTip
<1>5. StoreIsPrefix'
  <2>1. ASSUME NEW b \in Block
        PROVE  graph'[b] = LayersUpTo(b, checkpoint.height)'
    <3>1. Height[b] \in Nat
      BY BlockAssumption
    <3>2. CASE Height[b] <= checkpoint.height
      <4>1. canon'[Height[b] + 1] = canon[Height[b] + 1]
        BY <1>1, <1>2, <1>3, <3>1, <3>2
      <4> QED
        BY <1>4, <4>1 DEF StoreIsPrefix, LayersUpTo
    <3>3. CASE ~(Height[b] <= checkpoint.height)
      BY <1>4, <3>3 DEF StoreIsPrefix, LayersUpTo
    <3> QED
      BY <3>2, <3>3
  <2>2. checkpoint'.height < Len(canon')
    BY <1>1, <1>2, <1>4
  <2>3. checkpoint'.height >= 0 => checkpoint'.hash = canon'[checkpoint'.height + 1]
    BY <1>1, <1>2, <1>3, <1>4 DEF StoreIsPrefix
  <2> QED
    BY <2>1, <2>2, <2>3 DEF StoreIsPrefix
<1>6. LoopsFollow' /\ SaveHeightIsCheckpoint' /\ SnapshotWithinCheckpoint'
  BY <1>4 DEF LoopsFollow, SaveHeightIsCheckpoint, SnapshotWithinCheckpoint
<1>7. BatchIsChain'
  <2>1. ASSUME pc \in {"fetch", "ingest"}
        PROVE  top < Len(canon') /\ \A b \in batch : Height[b] <= top /\ canon'[Height[b] + 1] = b
    BY <1>1, <1>2, <1>3, <2>1, BlockAssumption DEF BatchIsChain
  <2>2. ASSUME pc = "ingest", NEW k \in height .. top
        PROVE  canon'[k + 1] \in batch
    <3>1. k \in 0 .. Len(canon) - 1
      BY <1>1, <1>2, <2>2 DEF BatchIsChain, LoopsFollow
    <3> QED
      BY <1>3, <2>2, <3>1 DEF BatchIsChain
  <2> QED
    BY <1>4, <2>1, <2>2 DEF BatchIsChain
<1> QED
  BY <1>5, <1>6, <1>7

\* A chunk that follows the checkpoint extends the prefix to its last height.
LEMMA WriteChunkLine ==
  ASSUME LineInv, pc = "ingest", NEW last \in ChunkEnds, WriteChunk(last),
         UNCHANGED canon
  PROVE  /\ StoreIsPrefix'
         /\ checkpoint'.height = last
         /\ last > checkpoint.height /\ last <= top
<1> USE DEF LineInv
<1>1. /\ height \in Nat /\ top \in Nat /\ Len(canon) \in Nat
      /\ checkpoint.height \in Nat \cup {-1}
      /\ height = checkpoint.height + 1 /\ top < Len(canon)
      /\ batch \subseteq Block
  BY CanonBlocks DEF IInv, TypeOK, LoopsFollow, BatchIsChain
<1>2. last \in Nat /\ height <= last /\ last <= top
  BY <1>1, LiveAssumption DEF ChunkEnds, Least
<1>3. PICK e \in Chunk(last) :
        Height[e] = last /\ checkpoint' = [height |-> last, hash |-> e]
  BY DEF WriteChunk
<1>4. e = canon[last + 1]
  BY <1>3 DEF Chunk, BatchIsChain
<1>5. ASSUME NEW b \in Block
      PROVE  graph'[b] = LayersUpTo(b, last)
  <2>1. Height[b] \in Nat
    BY BlockAssumption
  <2>2. graph'[b] = IF b \in Chunk(last) THEN Layers ELSE graph[b]
    BY DEF WriteChunk, Insert
  <2>3. CASE Height[b] < height
    BY <1>1, <1>2, <2>1, <2>2, <2>3 DEF Chunk, StoreIsPrefix, LayersUpTo
  <2>4. CASE Height[b] \in height .. last
    <3>1. b \in Chunk(last) <=> canon[Height[b] + 1] = b
      BY <1>1, <1>2, <2>4 DEF Chunk, BatchIsChain
    <3>2. graph[b] = {}
      BY <1>1, <2>1, <2>4 DEF StoreIsPrefix, LayersUpTo
    <3> QED
      BY <1>1, <1>2, <2>1, <2>2, <2>4, <3>1, <3>2 DEF LayersUpTo
  <2>5. CASE Height[b] > last
    BY <1>1, <1>2, <2>1, <2>2, <2>5 DEF Chunk, StoreIsPrefix, LayersUpTo
  <2> QED
    BY <1>1, <1>2, <2>1, <2>3, <2>4, <2>5
<1>6. StoreIsPrefix'
  BY <1>1, <1>2, <1>3, <1>4, <1>5 DEF StoreIsPrefix, LayersUpTo
<1> QED
  BY <1>1, <1>2, <1>3, <1>6

\* CREATE accepts a block of the stream only when it is the next one.
LEMMA WriteBlockLine ==
  ASSUME LineInv, pc = "block", Insertable({NextBlock}), WriteBlock,
         UNCHANGED canon
  PROVE  /\ StoreIsPrefix'
         /\ checkpoint'.height = height
         /\ height = checkpoint.height + 1
<1> USE DEF LineInv
<1>1. /\ height \in Nat /\ top \in Nat /\ Len(canon) \in Nat
      /\ checkpoint.height \in Nat \cup {-1}
      /\ height <= checkpoint.height + 1 /\ height <= top /\ top < Len(canon)
  BY CanonBlocks DEF IInv, TypeOK, Bounds, LoopsFollow
<1>2. NextBlock \in Block /\ Height[NextBlock] = height
  BY <1>1, NextBlockType
<1>3. graph[NextBlock] = {}
  BY DEF Insertable
<1>4. ~(height <= checkpoint.height)
  <2>1. Layers # {}
    BY DEF Layers
  <2>2. graph[NextBlock] = LayersUpTo(NextBlock, checkpoint.height)
    BY <1>2 DEF StoreIsPrefix
  <2>3. canon[Height[NextBlock] + 1] = NextBlock
    BY <1>2 DEF NextBlock
  <2> QED
    BY <1>2, <1>3, <2>1, <2>2, <2>3 DEF LayersUpTo
<1>5. height = checkpoint.height + 1
  BY <1>1, <1>4
<1>6. checkpoint' = [height |-> height, hash |-> NextBlock]
  BY DEF WriteBlock
<1>7. ASSUME NEW b \in Block
      PROVE  graph'[b] = LayersUpTo(b, height)
  <2>1. Height[b] \in Nat
    BY BlockAssumption
  <2>2. graph'[b] = IF b = NextBlock THEN Layers ELSE graph[b]
    BY DEF WriteBlock, Insert
  <2>3. CASE b = NextBlock
    BY <1>1, <1>2, <2>2, <2>3 DEF LayersUpTo, NextBlock
  <2>4. CASE b # NextBlock /\ Height[b] = height
    BY <1>1, <1>4, <2>2, <2>4 DEF LayersUpTo, NextBlock, StoreIsPrefix
  <2>5. CASE b # NextBlock /\ Height[b] # height
    BY <1>1, <1>5, <2>1, <2>2, <2>5 DEF LayersUpTo, StoreIsPrefix
  <2> QED
    BY <2>3, <2>4, <2>5
<1>8. StoreIsPrefix'
  BY <1>1, <1>6, <1>7 DEF StoreIsPrefix, LayersUpTo, NextBlock
<1> QED
  BY <1>5, <1>6, <1>8

\* Launch and the faults.
LEMMA FaultLine ==
  ASSUME LineInv, IInv', Launch \/ Fault
  PROVE  LineInv'
<1> USE DEF LineInv
<1>1. CASE Launch
  BY <1>1, PrefixKept DEF Launch, LoopsFollow, BatchIsChain,
     SaveHeightIsCheckpoint, SnapshotWithinCheckpoint
<1>2. ASSUME Exit, UNCHANGED storeVars
      PROVE  LineInv'
  BY <1>2, PrefixKept, ExitLine DEF Exit, SnapshotWithinCheckpoint
<1>3. CASE Signal
  BY <1>3, PrefixKept DEF Signal, LoopsFollow, BatchIsChain,
     SaveHeightIsCheckpoint, SnapshotWithinCheckpoint
<1>4. CASE ReceiveFails
  BY <1>4, PrefixKept DEF ReceiveFails, LoopsFollow, BatchIsChain,
     SaveHeightIsCheckpoint, SnapshotWithinCheckpoint
<1>5. CASE ChunkFails
  <2>1. CASE UNCHANGED <<graph, checkpoint>>
    BY <1>2, <1>5, <2>1 DEF ChunkFails
  <2>2. CASE \E last \in ChunkEnds : ChunkAccepted(last) /\ WriteChunk(last)
    <3>1. PICK last \in ChunkEnds : WriteChunk(last)
      BY <2>2
    <3>2. StoreIsPrefix' /\ checkpoint'.height = last /\ last > checkpoint.height
      BY <1>5, <3>1, WriteChunkLine DEF ChunkFails, Exit
    <3>3. SnapshotWithinCheckpoint'
      BY <1>5, <3>1, <3>2, WriteChunkTypes
      DEF ChunkFails, SnapshotWithinCheckpoint, IInv, TypeOK
    <3> QED
      BY <1>5, <3>2, <3>3, ExitLine DEF ChunkFails
  <2> QED
    BY <1>5, <2>1, <2>2 DEF ChunkFails
<1>6. CASE BlockFails
  <2>1. CASE UNCHANGED <<graph, checkpoint>>
    BY <1>2, <1>6, <2>1 DEF BlockFails
  <2>2. CASE Insertable({NextBlock}) /\ WriteBlock
    <3>1. StoreIsPrefix' /\ checkpoint'.height = height
          /\ height = checkpoint.height + 1
      BY <1>6, <2>2, WriteBlockLine DEF BlockFails, Exit
    <3>2. SnapshotWithinCheckpoint'
      BY <1>6, <3>1 DEF BlockFails, SnapshotWithinCheckpoint, IInv, TypeOK
    <3> QED
      BY <1>6, <3>1, <3>2, ExitLine DEF BlockFails
  <2> QED
    BY <1>6, <2>1, <2>2 DEF BlockFails
<1> QED
  BY <1>1, <1>2, <1>3, <1>4, <1>5, <1>6
  DEF Fault, Crash, RpcFails, ConnectFails, ReceiveGivesUp

\* There is nothing above the checkpoint to walk over.
LEMMA StartupLine ==
  ASSUME LineInv, IInv', Startup
  PROVE  LineInv'
<1> USE DEF LineInv
<1>a. checkpoint.height \in Nat \cup {-1}
  BY DEF IInv, TypeOK
<1>1. CASE ResumeFromCheckpoint
  BY <1>1, <1>a, PrefixKept DEF ResumeFromCheckpoint, LoopsFollow, BatchIsChain,
     SaveHeightIsCheckpoint, SnapshotWithinCheckpoint
<1>2. BlocksAboveCheckpoint = {}
  <2>1. ASSUME NEW b \in Block, Height[b] > checkpoint.height
        PROVE  graph[b] = {}
    BY <1>a, <2>1, BlockAssumption DEF StoreIsPrefix, LayersUpTo
  <2> QED
    BY <2>1 DEF BlocksAboveCheckpoint, Stored
<1> QED
  BY <1>1, <1>2 DEF Startup, BeginWalk, FoundComplete, FoundIncomplete,
     WalkedToCheckpoint, UndoneIncomplete, LoopsFollow

\* Catch-up: a batch is fetched, then written chunk by chunk.
LEMMA CatchUpLine ==
  ASSUME LineInv, IInv', CatchUp
  PROVE  LineInv'
<1> USE DEF LineInv
<1>a. /\ Len(canon) \in Nat /\ current \in Nat /\ top \in Nat
      /\ checkpoint.height \in Nat \cup {-1} /\ checkpoint.height < Len(canon)
      /\ height \in Nat \cup {-1} /\ snapshot \in Nat \cup {-1}
      /\ batch \subseteq Block
  BY CanonBlocks DEF IInv, TypeOK, StoreIsPrefix
<1>1. CASE BeginFetch
  <2>1. current <= top' /\ top' < Len(canon)
    BY <1>1, <1>a, LiveAssumption DEF BeginFetch, Least, Tip
  <2> QED
    BY <1>1, <2>1, PrefixKept DEF BeginFetch, LoopsFollow, BatchIsChain,
       SaveHeightIsCheckpoint, SnapshotWithinCheckpoint
<1>2. CASE \E k \in current .. top : FetchBlock(k)
  <2>1. PICK k \in current .. top : FetchBlock(k)
    BY <1>2
  <2>2. k \in 0 .. Len(canon) - 1 /\ k <= top
    BY <1>a, <2>1 DEF FetchBlock, IInv, Bounds
  <2>3. canon[k + 1] \in Block /\ Height[canon[k + 1]] = k
    BY <2>2, CanonBlocks
  <2>4. BatchIsChain'
    BY <2>1, <2>2, <2>3 DEF FetchBlock, BatchIsChain
  <2> QED
    BY <2>1, <2>4, PrefixKept DEF FetchBlock, LoopsFollow,
       SaveHeightIsCheckpoint, SnapshotWithinCheckpoint
<1>3. CASE Fetched
  <2>1. ASSUME NEW k \in current .. top PROVE canon[k + 1] \in batch
    BY <1>3, <2>1 DEF Fetched, BatchIsChain
  <2>2. BatchIsChain'
    BY <1>3, <2>1 DEF Fetched, BatchIsChain
  <2>3. LoopsFollow'
    BY <1>3 DEF Fetched, LoopsFollow
  <2> QED
    BY <1>3, <2>2, <2>3, PrefixKept DEF Fetched, SaveHeightIsCheckpoint,
       SnapshotWithinCheckpoint
<1>4. CASE IngestChunk
  <2>1. PICK last \in ChunkEnds :
          last < top /\ WriteChunk(last) /\ SaveSnapshot(last) /\ height' = last + 1
    BY <1>4 DEF IngestChunk
  <2>2. pc = "ingest" /\ UNCHANGED <<canon, pc, current, top, batch, committed>>
    BY <1>4 DEF IngestChunk
  <2>3. /\ StoreIsPrefix' /\ checkpoint'.height = last
        /\ last > checkpoint.height /\ last \in Nat \cup {-1} /\ last >= height
    BY <2>1, <2>2, WriteChunkLine, WriteChunkTypes
  <2>4. SnapshotWithinCheckpoint'
    BY <1>a, <2>1, <2>3 DEF SnapshotWithinCheckpoint, SaveSnapshot
  <2>5. LoopsFollow'
    BY <1>a, <2>1, <2>2, <2>3 DEF LoopsFollow
  <2>6. BatchIsChain'
    BY <1>a, <2>1, <2>2, <2>3 DEF BatchIsChain
  <2> QED
    BY <2>2, <2>3, <2>4, <2>5, <2>6 DEF SaveHeightIsCheckpoint
<1>5. CASE IngestLastChunk
  <2>1. /\ pc = "ingest" /\ top \in ChunkEnds /\ WriteChunk(top)
        /\ SaveSnapshot(top) /\ committed' = top
        /\ UNCHANGED <<canon, top>>
    BY <1>5 DEF IngestLastChunk, Record
  <2>2. /\ StoreIsPrefix' /\ checkpoint'.height = top
        /\ top > checkpoint.height
    BY <2>1, WriteChunkLine
  <2>3. SnapshotWithinCheckpoint' /\ SaveHeightIsCheckpoint'
    BY <1>a, <2>1, <2>2
    DEF SnapshotWithinCheckpoint, SaveHeightIsCheckpoint, SaveSnapshot
  <2>4. LoopsFollow'
    BY <1>5, <1>a, <2>1, <2>2 DEF IngestLastChunk, LoopsFollow
  <2> QED
    BY <1>5, <2>2, <2>3, <2>4 DEF IngestLastChunk, BatchIsChain
<1>6. CASE ChunkRejected \/ MaxReachedInCatchup
  BY <1>6, PrefixKept, ExitLine
  DEF ChunkRejected, MaxReachedInCatchup, Exit, SnapshotWithinCheckpoint
<1>7. CASE LeaveCatchup
  BY <1>7, PrefixKept DEF LeaveCatchup, LoopsFollow, BatchIsChain,
     SaveHeightIsCheckpoint, SnapshotWithinCheckpoint
<1>8. CASE Connect
  BY <1>8, PrefixKept DEF Connect, LoopsFollow, BatchIsChain,
     SaveHeightIsCheckpoint, SnapshotWithinCheckpoint
<1> QED
  BY <1>1, <1>2, <1>3, <1>4, <1>5, <1>6, <1>7, <1>8 DEF CatchUp

\* Real time: the block of the next height is written, any other is refused.
LEMMA RealTimeLine ==
  ASSUME LineInv, IInv', RealTime
  PROVE  LineInv'
<1> USE DEF LineInv
<1>a. /\ Len(canon) \in Nat /\ current \in Nat /\ top \in Nat
      /\ checkpoint.height \in Nat \cup {-1} /\ checkpoint.height < Len(canon)
      /\ height \in Nat \cup {-1} /\ snapshot \in Nat \cup {-1}
  BY CanonBlocks DEF IInv, TypeOK, StoreIsPrefix
<1>1. CASE StopOnSignal \/ StopAtMaxHeight
  <2>1. SaveOnShutdown /\ Exit /\ pc # "ingest" /\ UNCHANGED <<graph, checkpoint>>
    BY <1>1 DEF StopOnSignal, StopAtMaxHeight
  <2>2. SnapshotWithinCheckpoint'
    BY <1>a, <2>1
    DEF SaveOnShutdown, SaveSnapshot, SaveHeightIsCheckpoint, SnapshotWithinCheckpoint
  <2> QED
    BY <2>1, <2>2, PrefixKept, ExitLine DEF Exit
<1>2. CASE Receive
  BY <1>2, PrefixKept DEF Receive, LoopsFollow, BatchIsChain,
     SaveHeightIsCheckpoint, SnapshotWithinCheckpoint
<1>3. CASE Reconnect
  BY <1>3, PrefixKept DEF Reconnect, LoopsFollow, BatchIsChain,
     SaveHeightIsCheckpoint, SnapshotWithinCheckpoint
<1>4. CASE AskTip
  <2>1. pc = "tip" /\ pc' \in {"block", "check"} /\ (pc' = "block" => height' = current)
        /\ UNCHANGED <<canon, graph, checkpoint, snapshot, current, committed>>
    BY <1>4 DEF AskTip
  <2> QED
    BY <2>1, PrefixKept DEF LoopsFollow, BatchIsChain,
       SaveHeightIsCheckpoint, SnapshotWithinCheckpoint
<1>5. CASE IngestBlock
  <2>1. /\ pc = "block" /\ Insertable({NextBlock}) /\ WriteBlock
        /\ SaveSnapshot(height) /\ committed' = height
        /\ UNCHANGED <<canon, top>>
    BY <1>5 DEF IngestBlock, Record
  <2>2. /\ StoreIsPrefix' /\ checkpoint'.height = height
        /\ height = checkpoint.height + 1
    BY <2>1, WriteBlockLine
  <2>3. SnapshotWithinCheckpoint' /\ SaveHeightIsCheckpoint'
    BY <1>a, <2>1, <2>2
    DEF SnapshotWithinCheckpoint, SaveHeightIsCheckpoint, SaveSnapshot
  <2>4. CASE height < top
    <3>1. pc' = "block" /\ height' = height + 1 /\ current' = current
      BY <1>5, <2>1, <2>4 DEF IngestBlock
    <3>2. LoopsFollow'
      BY <1>a, <2>1, <2>2, <3>1 DEF LoopsFollow
    <3> QED
      BY <2>2, <2>3, <3>1, <3>2 DEF BatchIsChain
  <2>5. CASE ~(height < top)
    <3>1. pc' = "check" /\ current' = top + 1 /\ height = top
      BY <1>5, <1>a, <2>1, <2>5 DEF IngestBlock, IInv, Bounds
    <3>2. LoopsFollow'
      BY <1>a, <2>2, <3>1 DEF LoopsFollow
    <3> QED
      BY <2>2, <2>3, <3>1, <3>2 DEF BatchIsChain
  <2> QED
    BY <2>4, <2>5
<1>6. CASE BlockRejected
  BY <1>6, PrefixKept, ExitLine DEF BlockRejected, Exit, SnapshotWithinCheckpoint
<1>7. CASE LoopAgain
  BY <1>7, PrefixKept DEF LoopAgain, LoopsFollow, BatchIsChain,
     SaveHeightIsCheckpoint, SnapshotWithinCheckpoint
<1> QED
  BY <1>1, <1>2, <1>3, <1>4, <1>5, <1>6, <1>7 DEF RealTime

\* The block asked for names the stored block below it: no reorg is detected.
LEMMA NoReorg ==
  ASSUME LineInv
  PROVE  ~Reorg /\ ~DeleteLayer
<1> USE DEF LineInv
<1>1. ~ReorgDetected
  <2> SUFFICES ASSUME pc = "block" PROVE ParentMatches(NextBlock)
    BY DEF ReorgDetected
  <2>1. /\ height \in Nat /\ Len(canon) \in Nat /\ height < Len(canon)
        /\ checkpoint.height \in Nat \cup {-1}
        /\ height <= checkpoint.height + 1
    BY CanonBlocks DEF IInv, TypeOK, Bounds, LoopsFollow
  <2>2. Height[NextBlock] = height
    BY <2>1, NextBlockType
  <2>3. ASSUME height > 0, NEW p \in StoredAt(height - 1)
        PROVE  p = Parent[NextBlock]
    <3>1. p \in Block /\ Height[p] = height - 1 /\ graph[p] # {}
      BY DEF StoredAt, Stored
    <3>2. canon[Height[p] + 1] = p
      BY <3>1 DEF StoreIsPrefix, LayersUpTo
    <3>3. canon[height] = p
      BY <2>1, <3>1, <3>2
    <3>4. Parent[canon[height + 1]] = canon[height]
      BY <2>1, <2>3, CanonBlocks
    <3> QED
      BY <3>3, <3>4 DEF NextBlock
  <2> QED
    BY <2>2, <2>3 DEF ParentMatches
<1> QED
  BY <1>1 DEF Reorg, DeleteLayer, ChainsAgree, ChainsDisagree, RolledBackBlock,
     RolledBack, LoopsFollow

\* The invariant is inductive.
LEMMA NextLine == Grows /\ LineInv /\ [Next]_vars => LineInv'
<1> SUFFICES ASSUME Grows, LineInv, [Next]_vars PROVE LineInv'
  OBVIOUS
<1>0. IInv'
  BY NextIInv DEF LineInv
<1>1. CASE \E c \in Chains : NewTip(c)
  BY <1>0, <1>1, NewTipLine
<1>2. CASE Launch \/ Fault
  BY <1>0, <1>2, FaultLine
<1>3. CASE Process
  BY <1>0, <1>3, StartupLine, CatchUpLine, RealTimeLine, NoReorg DEF Process
<1>4. CASE UNCHANGED vars
  BY <1>0, <1>4, PrefixKept DEF LineInv, LoopsFollow, BatchIsChain,
     SaveHeightIsCheckpoint, SnapshotWithinCheckpoint, vars
<1> QED
  BY <1>1, <1>2, <1>3, <1>4 DEF Next

\* The line invariant holds in every state of a node that never reorganises.
LEMMA LineInvariant == ASSUME Grows PROVE Spec => []LineInv
<1>1. Init => LineInv
  BY InitLine
<1>2. LineInv /\ [Next]_vars => LineInv'
  BY NextLine
<1> QED
  BY <1>1, <1>2, PTL DEF Spec

-----------------------------------------------------------------------------
\* Without a reorg the graph is the node's chain up to the checkpoint, complete,
\* whatever crashes, shutdowns and failed or half-acknowledged commits happen.
THEOREM StorePrefix == ASSUME Grows PROVE Spec => []StoredIsPrefix
<1>1. LineInv => StoredIsPrefix
  BY PrefixOfStore DEF LineInv
<1> QED
  BY LineInvariant, <1>1, PTL

\* Without a reorg the height of the final cache save is the checkpoint's, even
\* when a shutdown has left current_height behind.
THEOREM SaveHeight == ASSUME Grows PROVE Spec => []SaveHeightIsCheckpoint
<1>1. LineInv => SaveHeightIsCheckpoint
  BY DEF LineInv
<1> QED
  BY LineInvariant, <1>1, PTL

\* Without a reorg a cache snapshot never claims more than the store holds.
THEOREM SnapshotWithin == ASSUME Grows PROVE Spec => []SnapshotWithinCheckpoint
<1>1. LineInv => SnapshotWithinCheckpoint
  BY DEF LineInv
<1> QED
  BY LineInvariant, <1>1, PTL

\* Neither the checkpoint nor the snapshot ever falls, and the node's chain keeps
\* what it had.
LEMMA StepMonotone ==
  ASSUME Grows, LineInv, [Next]_vars
  PROVE  /\ checkpoint'.height >= checkpoint.height
         /\ \A i \in 1 .. Len(canon) : canon'[i] = canon[i]
         /\ snapshot' >= snapshot
<1> USE DEF LineInv
<1>a. /\ checkpoint.height \in Nat \cup {-1} /\ snapshot \in Nat \cup {-1}
      /\ snapshot <= checkpoint.height
  BY DEF IInv, TypeOK, SnapshotWithinCheckpoint
<1>1. CASE \E c \in Chains : NewTip(c)
  BY <1>1, <1>a DEF NewTip, Extends, Grows
<1>2. CASE UNCHANGED <<canon, checkpoint, snapshot>>
  BY <1>2, <1>a
<1>3. CASE \E last \in ChunkEnds : /\ pc = "ingest" /\ WriteChunk(last)
                                   /\ UNCHANGED canon
                                   /\ UNCHANGED snapshot \/ SaveSnapshot(last)
  <2>1. PICK last \in ChunkEnds : /\ pc = "ingest" /\ WriteChunk(last)
                                  /\ UNCHANGED canon
                                  /\ UNCHANGED snapshot \/ SaveSnapshot(last)
    BY <1>3
  <2>2. last > checkpoint.height /\ checkpoint'.height = last /\ last \in Nat \cup {-1}
    BY <2>1, WriteChunkLine, WriteChunkTypes
  <2> QED
    BY <1>a, <2>1, <2>2 DEF SaveSnapshot
<1>4. CASE /\ pc = "block" /\ Insertable({NextBlock}) /\ WriteBlock
           /\ UNCHANGED canon
           /\ UNCHANGED snapshot \/ SaveSnapshot(height)
  <2>1. checkpoint'.height = height /\ height = checkpoint.height + 1
    BY <1>4, WriteBlockLine
  <2> QED
    BY <1>4, <1>a, <2>1 DEF SaveSnapshot
<1>5. CASE SaveOnShutdown /\ pc # "ingest" /\ UNCHANGED <<canon, checkpoint>>
  BY <1>5, <1>a DEF SaveOnShutdown, SaveSnapshot, SaveHeightIsCheckpoint
<1>6. CASE Launch \/ Fault
  BY <1>2, <1>3, <1>4, <1>6
  DEF Fault, Launch, Crash, Signal, RpcFails, ChunkFails, ConnectFails,
      ReceiveFails, ReceiveGivesUp, BlockFails, Exit
<1>7. CASE Startup
  BY <1>2, <1>7
  DEF Startup, ResumeFromCheckpoint, BeginWalk, FoundComplete, FoundIncomplete,
      WalkedToCheckpoint, UndoneIncomplete, LoopsFollow
<1>8. CASE CatchUp
  <2>1. CASE \E k \in current .. top : FetchBlock(k)
    BY <1>2, <2>1 DEF FetchBlock
  <2> QED
    BY <1>2, <1>3, <1>8, <2>1
    DEF CatchUp, BeginFetch, Fetched, IngestChunk, IngestLastChunk, ChunkRejected,
        LeaveCatchup, MaxReachedInCatchup, Connect, Exit
<1>9. CASE RealTime
  BY <1>2, <1>4, <1>5, <1>9
  DEF RealTime, StopOnSignal, Receive, Reconnect, AskTip, IngestBlock,
      BlockRejected, LoopAgain, StopAtMaxHeight, Exit
<1> QED
  BY <1>1, <1>2, <1>6, <1>7, <1>8, <1>9, NoReorg DEF Next, Process, vars

\* Without a reorg no save relabels a newer snapshot with a lower height.
THEOREM SnapshotOrder == ASSUME Grows PROVE Spec => SnapshotNeverFalls
<1>1. LineInv /\ [Next]_vars => [snapshot' >= snapshot]_vars
  BY StepMonotone
<1> QED
  BY LineInvariant, <1>1, PTL DEF Spec, SnapshotNeverFalls

-----------------------------------------------------------------------------
(* The contract of BlockStore *)

\* The node does not reorganise; an ingest_block may have left a block half-written.
Steady == "reorg" \notin Env

InChain(b) == Height[b] <= checkpoint.height /\ canon[Height[b] + 1] = b

\* The layers that the startup walk looks at.
Seen(b) == graph[b] \cap {"block", "transactions"}

\* The block above the checkpoint.
NextInChain(b) ==
  /\ Height[b] = checkpoint.height + 1
  /\ Height[b] < Len(canon)
  /\ canon[Height[b] + 1] = b

TopStored == \E b \in Stored : Height[b] = checkpoint.height + 1
TopComplete == \E b \in Stored : Height[b] = checkpoint.height + 1 /\ Complete(b)

\* The store is the node's chain up to the checkpoint, and one block more at most.
StoreFollows ==
  /\ checkpoint.height < Len(canon)
  /\ \A b \in Block : InChain(b) => Seen(b) = {"block", "transactions"}
  /\ \A b \in Block : ~ InChain(b) /\ Seen(b) # {} => NextInChain(b) /\ "block" \in graph[b]

\* The block above the checkpoint is dealt with before anything is fetched.
LoopsKeep ==
  /\ pc \notin {"find", "rollback"}
  /\ pc \notin {"down", "start", "sync", "undo"} =>
       ~ TopStored /\ current <= checkpoint.height + 1
  /\ pc = "sync" => height \in {checkpoint.height, checkpoint.height + 1}
  /\ pc = "undo" => height = checkpoint.height + 1 /\ ~ TopComplete
  /\ pc \in {"catchup", "fetch"} => current = checkpoint.height + 1
  /\ pc = "fetch" => current <= top
  /\ pc = "ingest" => height = checkpoint.height + 1 /\ height <= top
  /\ pc = "block" => height <= checkpoint.height + 1

SteadyInv == IInv /\ StoreFollows /\ LoopsKeep /\ BatchIsChain

HeightsFollow ==
  /\ BlockNodes = 0 .. (IF TopStored THEN checkpoint.height + 1 ELSE checkpoint.height)
  /\ LinkedNodes = 0 .. (IF TopComplete THEN checkpoint.height + 1 ELSE checkpoint.height)

\* A step of the contract, or none.
Keeps == Contract!Next \/ UNCHANGED Contract!vars

\* The blocks of the store, by height.
LEMMA StoredBlocks ==
  ASSUME IInv, StoreFollows
  PROVE  /\ checkpoint.height \in Int /\ checkpoint.height >= -1
         /\ \A b \in Stored : Height[b] \in Nat /\ Height[b] <= checkpoint.height + 1
         /\ \A b \in Block : Complete(b) => b \in Stored
         /\ \A k \in 0 .. checkpoint.height :
              /\ canon[k + 1] \in Stored /\ Complete(canon[k + 1])
              /\ Height[canon[k + 1]] = k
<1>1. /\ checkpoint.height \in Int /\ checkpoint.height >= -1
      /\ Len(canon) \in Nat /\ checkpoint.height < Len(canon)
  BY CanonBlocks DEF IInv, TypeOK, StoreFollows
<1>2. ASSUME NEW b \in Stored
      PROVE  Height[b] \in Nat /\ Height[b] <= checkpoint.height + 1
  <2>1. b \in Block /\ Height[b] \in Nat /\ Seen(b) # {}
    BY BlockAssumption DEF Stored, Seen
  <2>2. InChain(b) \/ NextInChain(b)
    BY <2>1 DEF StoreFollows
  <2> QED
    BY <1>1, <2>1, <2>2 DEF InChain, NextInChain
<1>3. ASSUME NEW b \in Block, Complete(b)
      PROVE  b \in Stored
  <2>1. Seen(b) # {}
    BY <1>3 DEF Complete, Seen
  <2>2. "block" \in graph[b]
    BY <2>1 DEF StoreFollows, Seen
  <2> QED
    BY <2>2 DEF Stored
<1>4. ASSUME NEW k \in 0 .. checkpoint.height
      PROVE  /\ canon[k + 1] \in Stored /\ Complete(canon[k + 1])
             /\ Height[canon[k + 1]] = k
  <2>1. k \in 0 .. Len(canon) - 1 /\ k <= checkpoint.height
    BY <1>1
  <2>2. canon[k + 1] \in Block /\ Height[canon[k + 1]] = k
    BY <2>1, CanonBlocks
  <2>3. InChain(canon[k + 1])
    BY <2>1, <2>2 DEF InChain
  <2>4. "block" \in graph[canon[k + 1]] /\ "transactions" \in graph[canon[k + 1]]
    BY <2>2, <2>3 DEF StoreFollows, Seen
  <2> QED
    BY <2>2, <2>4 DEF Stored, Complete
<1> QED
  BY <1>1, <1>2, <1>3, <1>4

\* Seen from the contract the store is two heights.
LEMMA HeightsOfStore == IInv /\ StoreFollows => HeightsFollow
<1> SUFFICES ASSUME IInv, StoreFollows PROVE HeightsFollow
  OBVIOUS
<1> DEFINE k == checkpoint.height
<1>1. /\ k \in Int /\ k >= -1
      /\ \A b \in Stored : Height[b] \in Nat /\ Height[b] <= k + 1
      /\ \A b \in Block : Complete(b) => b \in Stored
  BY StoredBlocks
<1>2. ASSUME NEW h \in 0 .. k
      PROVE  h \in BlockNodes /\ h \in LinkedNodes
  BY <1>2, StoredBlocks DEF BlockNodes, LinkedNodes, Stored
<1>3. k + 1 \in BlockNodes <=> TopStored
  BY DEF BlockNodes, TopStored
<1>4. k + 1 \in LinkedNodes <=> TopComplete
  BY <1>1 DEF LinkedNodes, TopComplete, Stored
<1>5. /\ \A h \in BlockNodes : h \in Nat /\ h <= k + 1
      /\ \A h \in LinkedNodes : h \in Nat /\ h <= k + 1
  BY <1>1 DEF BlockNodes, LinkedNodes, Stored
<1> HIDE DEF k
<1>6. ASSUME NEW S, NEW P \in BOOLEAN, \A h \in 0 .. k : h \in S, k + 1 \in S <=> P,
             \A h \in S : h \in Nat /\ h <= k + 1
      PROVE  S = 0 .. (IF P THEN k + 1 ELSE k)
  <2>1. CASE P
    <3>1. \A h : h \in S <=> h \in 0 .. k + 1
      BY <1>1, <1>6, <2>1
    <3> QED
      BY <2>1, <3>1
  <2>2. CASE ~ P
    <3>1. \A h : h \in S <=> h \in 0 .. k
      BY <1>1, <1>6, <2>2
    <3> QED
      BY <2>2, <3>1
  <2> QED
    BY <2>1, <2>2
<1>7. TopStored \in BOOLEAN /\ TopComplete \in BOOLEAN
  BY DEF TopStored, TopComplete
<1>8. BlockNodes = 0 .. (IF TopStored THEN k + 1 ELSE k)
  BY <1>2, <1>3, <1>5, <1>6, <1>7
<1>9. LinkedNodes = 0 .. (IF TopComplete THEN k + 1 ELSE k)
  BY <1>2, <1>4, <1>5, <1>6, <1>7
<1> QED
  BY <1>8, <1>9 DEF HeightsFollow, k

\* The same in the next state.
LEMMA HeightsOfStoreNext == IInv' /\ StoreFollows' => HeightsFollow'
BY HeightsOfStore, PTL

\* Nothing of the store or the node's chain changes.
LEMMA FollowsSame ==
  ASSUME StoreFollows, UNCHANGED <<canon, graph, checkpoint>>
  PROVE  /\ StoreFollows' /\ (TopStored' <=> TopStored) /\ (TopComplete' <=> TopComplete)
         /\ Keeps
<1>1. StoreFollows'
  BY DEF StoreFollows, InChain, NextInChain, Seen
<1>2. (TopStored' <=> TopStored) /\ (TopComplete' <=> TopComplete)
  BY DEF TopStored, TopComplete, Stored, Complete
<1>3. Keeps
  BY DEF Keeps, Contract!vars, BlockNodes, LinkedNodes, Stored, Complete
<1> QED
  BY <1>1, <1>2, <1>3

\* A process that ends leaves the store as it is.
LEMMA ExitSteady ==
  ASSUME IInv', Exit, StoreFollows'
  PROVE  SteadyInv'
BY DEF SteadyInv, Exit, Idle, LoopsKeep, BatchIsChain

\* The node's chain grows above what is stored and fetched.
LEMMA NewTipSteady ==
  ASSUME Steady, SteadyInv, IInv', NEW c \in Chains, NewTip(c)
  PROVE  SteadyInv' /\ Keeps
<1> USE DEF SteadyInv
<1>1. /\ Len(canon) \in Nat /\ Len(canon') \in Nat
      /\ Len(canon) < Len(canon')
      /\ \A i \in 1 .. Len(canon) : canon'[i] = canon[i]
  BY CanonBlocks, ChainBlocks DEF NewTip, Extends, Steady
<1>2. /\ checkpoint.height \in Nat \cup {-1} /\ checkpoint.height < Len(canon)
      /\ top \in Nat /\ height \in Nat \cup {-1}
      /\ batch \subseteq Block
  BY DEF IInv, TypeOK, StoreFollows
<1>3. \A k \in 0 .. Len(canon) - 1 : canon'[k + 1] = canon[k + 1]
  BY <1>1
<1>4. UNCHANGED <<storeVars, procVars>>
  BY DEF NewTip
<1>5. ASSUME NEW b \in Block
      PROVE  (InChain(b)' <=> InChain(b)) /\ (NextInChain(b) => NextInChain(b)')
             /\ Seen(b)' = Seen(b)
  <2>1. Height[b] \in Nat
    BY BlockAssumption
  <2>2. Height[b] < Len(canon) => canon'[Height[b] + 1] = canon[Height[b] + 1]
    BY <1>1, <1>3, <2>1
  <2>3. Height[b] <= checkpoint.height => Height[b] < Len(canon)
    BY <1>1, <1>2, <2>1
  <2>4. InChain(b)' <=> InChain(b)
    BY <1>4, <2>2, <2>3 DEF InChain
  <2>5. NextInChain(b) => NextInChain(b)'
    BY <1>1, <1>4, <2>1, <2>2 DEF NextInChain
  <2> QED
    BY <1>4, <2>4, <2>5 DEF Seen
<1>6. StoreFollows'
  <2>1. checkpoint'.height < Len(canon')
    BY <1>1, <1>2, <1>4
  <2> QED
    BY <1>4, <1>5, <2>1 DEF StoreFollows
<1>7. (TopStored' <=> TopStored) /\ (TopComplete' <=> TopComplete) /\ Keeps
  BY <1>4 DEF TopStored, TopComplete, Stored, Complete, Keeps, Contract!vars, BlockNodes, LinkedNodes
<1>8. LoopsKeep'
  BY <1>4, <1>7 DEF LoopsKeep
<1>9. BatchIsChain'
  <2>1. ASSUME pc \in {"fetch", "ingest"}
        PROVE  top < Len(canon') /\ \A b \in batch : Height[b] <= top /\ canon'[Height[b] + 1] = b
    BY <1>1, <1>2, <1>3, <2>1, BlockAssumption DEF BatchIsChain
  <2>2. ASSUME pc = "ingest", NEW k \in height .. top
        PROVE  canon'[k + 1] \in batch
    <3>1. k \in 0 .. Len(canon) - 1
      BY <1>1, <1>2, <2>2 DEF BatchIsChain, LoopsKeep
    <3> QED
      BY <1>3, <2>2, <3>1 DEF BatchIsChain
  <2> QED
    BY <1>4, <2>1, <2>2 DEF BatchIsChain
<1> QED
  BY <1>6, <1>7, <1>8, <1>9

\* The blocks of the chain from the checkpoint on, up to height l, are written.
LEMMA InsertFollows ==
  ASSUME IInv, IInv', StoreFollows, ~ TopStored,
         NEW l \in Int, checkpoint.height < l, l < Len(canon),
         NEW B \in SUBSET Block,
         \A b \in Block : b \in B <=> /\ checkpoint.height < Height[b] /\ Height[b] <= l
                                      /\ canon[Height[b] + 1] = b,
         Insert(B), checkpoint'.height = l, UNCHANGED canon
  PROVE  StoreFollows' /\ ~ TopStored' /\ Contract!CommitChunk
<1> DEFINE k == checkpoint.height
<1>1. k \in Int /\ k >= -1 /\ \A b \in Block : Height[b] \in Nat
  BY StoredBlocks, BlockAssumption
<1>2. \A b \in Block : graph'[b] = IF b \in B THEN Layers ELSE graph[b]
  BY DEF Insert
<1>3. \A b \in Block : ~ NextInChain(b) \/ "block" \notin graph[b]
  BY DEF TopStored, NextInChain, Stored
<1>4. \A b \in Block : InChain(b)' <=> InChain(b) \/ b \in B
  BY <1>1 DEF InChain
<1>5. \A b \in Block : ~ (InChain(b) /\ b \in B)
  BY <1>1 DEF InChain
<1>6. \A b \in B : Seen(b)' = {"block", "transactions"}
  BY <1>2 DEF Seen, Layers
<1>7. \A b \in Block : b \notin B => Seen(b)' = Seen(b)
  BY <1>2 DEF Seen
<1>8. \A b \in Block : Seen(b)' # {} => InChain(b)'
  BY <1>3, <1>4, <1>7 DEF StoreFollows
<1>9. StoreFollows'
  <2>1. \A b \in Block : InChain(b)' => Seen(b)' = {"block", "transactions"}
    BY <1>4, <1>6, <1>7 DEF StoreFollows
  <2>2. checkpoint'.height < Len(canon')
    OBVIOUS
  <2> QED
    BY <1>8, <2>1, <2>2 DEF StoreFollows
<1>10. ~ TopStored'
  <2> SUFFICES ASSUME NEW b \in Block, "block" \in graph'[b], Height[b] = l + 1 PROVE FALSE
    BY DEF TopStored, Stored
  <2>1. InChain(b)'
    BY <1>8 DEF Seen
  <2> QED
    BY <2>1 DEF InChain
<1>11. Contract!CommitChunk
  <2>1. ~ TopComplete /\ ~ TopComplete'
    BY <1>10 DEF TopStored, TopComplete
  <2>2. /\ BlockNodes = 0 .. checkpoint.height /\ LinkedNodes = 0 .. checkpoint.height
        /\ BlockNodes' = 0 .. l /\ LinkedNodes' = 0 .. l
    BY <1>9, <1>10, <2>1, HeightsOfStore, HeightsOfStoreNext DEF HeightsFollow
  <2>3. l \in Nat
    BY <1>1
  <2> QED
    BY <2>2, <2>3 DEF Contract!CommitChunk, Contract!UpTo
<1> QED
  BY <1>9, <1>10, <1>11

\* A chunk that follows the checkpoint.
LEMMA WriteChunkSteady ==
  ASSUME SteadyInv, IInv', pc = "ingest", NEW last \in ChunkEnds, WriteChunk(last),
         UNCHANGED canon
  PROVE  /\ StoreFollows' /\ ~ TopStored' /\ Keeps
         /\ checkpoint'.height = last
         /\ last > checkpoint.height /\ last <= top
<1> USE DEF SteadyInv
<1>1. /\ height \in Nat /\ top \in Nat /\ Len(canon) \in Nat
      /\ checkpoint.height \in Nat \cup {-1}
      /\ height = checkpoint.height + 1 /\ top < Len(canon)
      /\ batch \subseteq Block /\ ~ TopStored
  <2>1. /\ height = checkpoint.height + 1 /\ top < Len(canon) /\ ~ TopStored
    BY DEF LoopsKeep, BatchIsChain
  <2>2. /\ checkpoint.height \in Nat \cup {-1} /\ top \in Nat /\ batch \subseteq Block
        /\ Len(canon) \in Nat
    BY CanonBlocks DEF IInv, TypeOK
  <2> QED
    BY <2>1, <2>2
<1>2. last \in Nat /\ height <= last /\ last <= top
  BY <1>1, LiveAssumption DEF ChunkEnds, Least
<1>3. Insert(Chunk(last)) /\ checkpoint'.height = last
  BY DEF WriteChunk
<1>4. ASSUME NEW b \in Block
      PROVE  b \in Chunk(last) <=> /\ checkpoint.height < Height[b] /\ Height[b] <= last
                                   /\ canon[Height[b] + 1] = b
  <2>1. Height[b] \in Nat
    BY BlockAssumption
  <2>2. Height[b] \in height .. last <=> checkpoint.height < Height[b] /\ Height[b] <= last
    BY <1>1, <1>2, <2>1
  <2>3. b \in batch => canon[Height[b] + 1] = b
    BY DEF BatchIsChain
  <2>4. Height[b] \in height .. last /\ canon[Height[b] + 1] = b => b \in batch
    <3>1. Height[b] \in height .. last => Height[b] \in height .. top
      BY <1>1, <1>2
    <3> QED
      BY <3>1 DEF BatchIsChain
  <2> QED
    BY <2>2, <2>3, <2>4 DEF Chunk
<1>5. Chunk(last) \in SUBSET Block /\ checkpoint.height < last /\ last < Len(canon) /\ last \in Int
  BY <1>1, <1>2 DEF Chunk
<1>6. StoreFollows' /\ ~ TopStored' /\ Contract!CommitChunk
  BY <1>1, <1>3, <1>4, <1>5, InsertFollows
<1> QED
  BY <1>2, <1>3, <1>5, <1>6 DEF Keeps, Contract!Next

\* A block of the stream: CREATE accepts it only when it is the next one.
LEMMA WriteBlockSteady ==
  ASSUME SteadyInv, IInv', pc = "block", Insertable({NextBlock}), WriteBlock,
         UNCHANGED canon
  PROVE  /\ StoreFollows' /\ ~ TopStored' /\ Keeps
         /\ checkpoint'.height = height
         /\ height = checkpoint.height + 1
<1> USE DEF SteadyInv
<1>1. /\ height \in Nat /\ top \in Nat /\ Len(canon) \in Nat
      /\ checkpoint.height \in Nat \cup {-1}
      /\ height <= checkpoint.height + 1 /\ height <= top /\ top < Len(canon)
      /\ ~ TopStored
  <2>1. height <= checkpoint.height + 1 /\ ~ TopStored
    BY DEF LoopsKeep
  <2>2. height \in Nat /\ height <= top /\ top < Len(canon)
    BY DEF IInv, Bounds
  <2>3. top \in Nat /\ Len(canon) \in Nat /\ checkpoint.height \in Nat \cup {-1}
    BY CanonBlocks DEF IInv, TypeOK
  <2> QED
    BY <2>1, <2>2, <2>3
<1>2. NextBlock \in Block /\ Height[NextBlock] = height /\ canon[height + 1] = NextBlock
  BY <1>1, NextBlockType DEF NextBlock
<1>3. graph[NextBlock] = {}
  BY DEF Insertable
<1>4. ~(height <= checkpoint.height)
  <2>1. ~ InChain(NextBlock)
    BY <1>2, <1>3 DEF StoreFollows, Seen
  <2> QED
    BY <1>2, <2>1 DEF InChain
<1>5. height = checkpoint.height + 1 /\ height < Len(canon) /\ height \in Int
  BY <1>1, <1>4
<1>6. Insert({NextBlock}) /\ checkpoint'.height = height
  BY DEF WriteBlock
<1>7. ASSUME NEW b \in Block
      PROVE  b \in {NextBlock} <=> /\ checkpoint.height < Height[b] /\ Height[b] <= height
                                   /\ canon[Height[b] + 1] = b
  <2>1. Height[b] \in Nat
    BY BlockAssumption
  <2>2. checkpoint.height < Height[b] /\ Height[b] <= height <=> Height[b] = height
    BY <1>1, <1>5, <2>1
  <2> QED
    BY <1>2, <2>2
<1>8. {NextBlock} \in SUBSET Block /\ checkpoint.height < height
  BY <1>1, <1>2, <1>5
<1>9. StoreFollows' /\ ~ TopStored' /\ Contract!CommitChunk
  BY <1>1, <1>5, <1>6, <1>7, <1>8, InsertFollows
<1> QED
  BY <1>5, <1>6, <1>9 DEF Keeps, Contract!Next

\* Launch and the faults.
LEMMA FaultSteady ==
  ASSUME SteadyInv, IInv', Launch \/ Fault
  PROVE  SteadyInv' /\ Keeps
<1> USE DEF SteadyInv
<1>1. CASE Launch
  BY <1>1, FollowsSame DEF Launch, LoopsKeep, BatchIsChain
<1>2. ASSUME Exit, UNCHANGED <<graph, checkpoint>>
      PROVE  SteadyInv' /\ Keeps
  BY <1>2, FollowsSame, ExitSteady DEF Exit
<1>3. CASE Signal
  <2>1. UNCHANGED <<canon, graph, checkpoint, pc, current, top, batch, height>>
    BY <1>3 DEF Signal
  <2> QED
    BY <2>1, FollowsSame DEF LoopsKeep, BatchIsChain
<1>4. CASE ReceiveFails
  <2>1. UNCHANGED <<canon, graph, checkpoint, pc, current, top, batch, height>>
    BY <1>4 DEF ReceiveFails
  <2> QED
    BY <2>1, FollowsSame DEF LoopsKeep, BatchIsChain
<1>5. CASE ChunkFails
  <2>1. CASE UNCHANGED <<graph, checkpoint>>
    BY <1>2, <1>5, <2>1 DEF ChunkFails
  <2>2. CASE \E last \in ChunkEnds : ChunkAccepted(last) /\ WriteChunk(last)
    <3>1. PICK last \in ChunkEnds : WriteChunk(last)
      BY <2>2
    <3>2. StoreFollows' /\ Keeps
      BY <1>5, <3>1, WriteChunkSteady DEF ChunkFails, Exit
    <3> QED
      BY <1>5, <3>2, ExitSteady DEF ChunkFails
  <2> QED
    BY <1>5, <2>1, <2>2 DEF ChunkFails
<1>6. CASE BlockFails
  <2>1. CASE UNCHANGED <<graph, checkpoint>>
    BY <1>2, <1>6, <2>1 DEF BlockFails
  <2>2. CASE Insertable({NextBlock}) /\ WriteBlock
    <3>1. StoreFollows' /\ Keeps
      BY <1>6, <2>2, WriteBlockSteady DEF BlockFails, Exit
    <3> QED
      BY <1>6, <3>1, ExitSteady DEF BlockFails
  <2> QED
    BY <1>6, <2>1, <2>2 DEF BlockFails
<1>7. CASE Crash \/ RpcFails \/ ConnectFails \/ ReceiveGivesUp
  BY <1>2, <1>7 DEF Crash, RpcFails, ConnectFails, ReceiveGivesUp
<1> QED
  BY <1>1, <1>3, <1>4, <1>5, <1>6, <1>7 DEF Fault

\* A complete block above the checkpoint is adopted.
LEMMA AdoptSteady ==
  ASSUME SteadyInv, IInv', FoundComplete
  PROVE  SteadyInv' /\ Keeps
<1> USE DEF SteadyInv
<1> DEFINE k == checkpoint.height
<1>1. /\ k \in Int /\ k >= -1 /\ Len(canon) \in Nat
      /\ \A b \in Block : Height[b] \in Nat
  BY StoredBlocks, CanonBlocks, BlockAssumption
<1>2. height = k + 1
  <2>1. height \in {k, k + 1} /\ height > k
    BY DEF FoundComplete, LoopsKeep
  <2> QED
    BY <1>1, <2>1
<1>3. PICK a \in StoredAt(height) : Complete(a) /\ checkpoint' = [height |-> height, hash |-> a]
  BY DEF FoundComplete
<1>4. a \in Block /\ Height[a] = k + 1 /\ "block" \in graph[a] /\ "transactions" \in graph[a]
  BY <1>2, <1>3 DEF StoredAt, Stored, Complete
<1>5. NextInChain(a)
  <2>1. ~ InChain(a)
    BY <1>1, <1>4 DEF InChain
  <2> QED
    BY <1>4, <2>1 DEF StoreFollows, Seen
<1>6. UNCHANGED <<canon, graph>> /\ checkpoint'.height = k + 1
  BY <1>2, <1>3 DEF FoundComplete
<1>7. ASSUME NEW b \in Block
      PROVE  InChain(b)' <=> InChain(b) \/ b = a
  <2>1. canon[k + 2] = a /\ k + 1 + 1 = k + 2
    BY <1>1, <1>4, <1>5 DEF NextInChain
  <2>2. Height[b] <= k + 1 <=> Height[b] <= k \/ Height[b] = k + 1
    BY <1>1
  <2> QED
    BY <1>4, <1>6, <2>1, <2>2 DEF InChain
<1>8. \A b \in Block : Seen(b)' = Seen(b)
  BY <1>6 DEF Seen
<1>9. \A b \in Block : Seen(b)' # {} => InChain(b)'
  <2> SUFFICES ASSUME NEW b \in Block, Seen(b) # {}, ~ InChain(b) PROVE b = a
    BY <1>7, <1>8
  <2>1. NextInChain(b)
    BY DEF StoreFollows
  <2> QED
    BY <1>5, <2>1 DEF NextInChain
<1>10. StoreFollows'
  <2>1. checkpoint'.height < Len(canon')
    BY <1>4, <1>5, <1>6 DEF NextInChain
  <2>2. \A b \in Block : InChain(b)' => Seen(b)' = {"block", "transactions"}
    BY <1>4, <1>7, <1>8 DEF StoreFollows, Seen
  <2> QED
    BY <1>9, <2>1, <2>2 DEF StoreFollows
<1>11. ~ TopStored'
  <2> SUFFICES ASSUME NEW b \in Block, "block" \in graph'[b], Height[b] = k + 1 + 1 PROVE FALSE
    BY <1>6 DEF TopStored, Stored
  <2>1. InChain(b)'
    BY <1>9 DEF Seen
  <2> QED
    BY <1>1, <1>6, <2>1 DEF InChain
<1>12. Contract!EndBlock
  <2>1. TopStored /\ TopComplete
    BY <1>4 DEF TopStored, TopComplete, Stored, Complete
  <2>2. BlockNodes = 0 .. k + 1 /\ LinkedNodes = 0 .. k + 1
    BY <2>1, HeightsOfStore DEF HeightsFollow
  <2>3. BlockNodes' = BlockNodes /\ LinkedNodes' = LinkedNodes
    BY <1>6 DEF BlockNodes, LinkedNodes, Stored, Complete
  <2> QED
    BY <1>6, <2>2, <2>3 DEF Contract!EndBlock, Contract!UpTo, Contract!Above
<1>13. LoopsKeep' /\ BatchIsChain'
  <2>1. pc' = "catchup" /\ current' = k + 1 + 1
    BY <1>2 DEF FoundComplete
  <2> QED
    BY <1>1, <1>6, <1>11, <2>1 DEF LoopsKeep, BatchIsChain
<1> QED
  BY <1>10, <1>12, <1>13 DEF Keeps, Contract!Next

\* One without its transactions is removed: its inputs and outputs are not found.
LEMMA RemoveSteady ==
  ASSUME SteadyInv, IInv', DeleteLayer
  PROVE  SteadyInv' /\ Keeps
<1> USE DEF SteadyInv
<1> DEFINE k == checkpoint.height
<1>1. /\ pc = "undo" /\ height = k + 1 /\ ~ TopComplete
      /\ UNCHANGED <<canon, checkpoint, pc, current, top, batch, height>>
  BY DEF DeleteLayer, LoopsKeep
<1>2. /\ k \in Int /\ k >= -1 /\ \A b \in Block : Height[b] \in Nat
  BY StoredBlocks, BlockAssumption
<1>3. ASSUME NEW b \in Block, Height[b] = k + 1
      PROVE  "transactions" \notin graph[b]
  BY <1>1, <1>3, StoredBlocks DEF TopComplete, Complete
<1>4. PICK i \in 1 .. 4 :
        /\ HasLayerAtHeight(RollbackOrder[i])
        /\ graph' = [b \in Block |-> IF Reachable(b, RollbackOrder[i])
                                     THEN graph[b] \ {RollbackOrder[i]}
                                     ELSE graph[b]]
  BY DEF DeleteLayer
<1>5. RollbackOrder[i] = "block"
  <2>1. PICK b \in Block : Reachable(b, RollbackOrder[i])
    BY <1>4 DEF HasLayerAtHeight
  <2>2. RollbackOrder[i] \notin {"inputs", "outputs", "transactions"}
    BY <1>1, <1>3, <2>1 DEF Reachable, Attached
  <2>3. RollbackOrder[i] \in {"inputs", "outputs", "transactions", "block"}
    BY DEF RollbackOrder
  <2> QED
    BY <2>2, <2>3
<1>6. \A b \in Block : graph'[b] = IF Height[b] = k + 1 THEN graph[b] \ {"block"} ELSE graph[b]
  <2>1. \A b \in Block : Reachable(b, "block") <=> Height[b] = k + 1 /\ "block" \in graph[b]
    BY <1>1 DEF Reachable, Attached
  <2> QED
    BY <1>4, <1>5, <2>1
<1>7. \A b \in Block : InChain(b) => Height[b] # k + 1
  BY <1>2 DEF InChain
<1>8. \A b \in Block : Height[b] = k + 1 => Seen(b)' = {}
  BY <1>3, <1>6 DEF Seen
<1>9. \A b \in Block : Height[b] # k + 1 => Seen(b)' = Seen(b)
  BY <1>6 DEF Seen
<1>10. \A b \in Block : (InChain(b)' <=> InChain(b)) /\ (NextInChain(b)' <=> NextInChain(b))
  BY <1>1 DEF InChain, NextInChain
<1>11. StoreFollows'
  <2>1. \A b \in Block : InChain(b)' => Seen(b)' = {"block", "transactions"}
    BY <1>7, <1>9, <1>10 DEF StoreFollows
  <2>2. ASSUME NEW b \in Block, ~ InChain(b), Seen(b)' # {} PROVE FALSE
    <3>1. Height[b] # k + 1 /\ Seen(b) # {}
      BY <1>8, <1>9, <2>2
    <3> QED
      BY <2>2, <3>1 DEF StoreFollows, NextInChain
  <2>3. checkpoint'.height < Len(canon')
    BY <1>1 DEF StoreFollows
  <2> QED
    BY <1>10, <2>1, <2>2, <2>3 DEF StoreFollows
<1>12. TopStored
  <2>1. PICK b \in Block : Reachable(b, "block")
    BY <1>4, <1>5 DEF HasLayerAtHeight
  <2> QED
    BY <1>1, <2>1 DEF Reachable, Attached, TopStored, Stored
<1>13. ~ TopStored' /\ ~ TopComplete'
  BY <1>1, <1>8 DEF TopStored, TopComplete, Stored, Seen
<1>14. Contract!RemoveBlock
  <2>1. /\ BlockNodes = 0 .. k + 1 /\ LinkedNodes = 0 .. k
        /\ BlockNodes' = 0 .. k /\ LinkedNodes' = 0 .. k
    BY <1>1, <1>11, <1>12, <1>13, HeightsOfStore, HeightsOfStoreNext DEF HeightsFollow
  <2> QED
    BY <1>1, <2>1 DEF Contract!RemoveBlock, Contract!UpTo, Contract!Above
<1>15. LoopsKeep' /\ BatchIsChain'
  BY <1>1, <1>13 DEF LoopsKeep, BatchIsChain
<1> QED
  BY <1>11, <1>14, <1>15 DEF Keeps, Contract!Next

\* The startup walk: at most one block above the checkpoint.
LEMMA StartupSteady ==
  ASSUME SteadyInv, IInv', Startup
  PROVE  SteadyInv' /\ Keeps
<1> USE DEF SteadyInv
<1> DEFINE k == checkpoint.height
<1>1. /\ k \in Int /\ k >= -1
      /\ \A b \in Stored : Height[b] \in Nat /\ Height[b] <= k + 1
  BY StoredBlocks
<1>2. CASE ResumeFromCheckpoint
  <2>1. /\ BlocksAboveCheckpoint = {} /\ pc' = "catchup" /\ current' = k + 1
        /\ UNCHANGED <<canon, graph, checkpoint>>
    BY <1>2 DEF ResumeFromCheckpoint
  <2>2. ~ TopStored
    BY <1>1, <2>1 DEF TopStored, BlocksAboveCheckpoint
  <2> QED
    BY <1>1, <2>1, <2>2, FollowsSame DEF LoopsKeep, BatchIsChain
<1>3. CASE BeginWalk
  <2>1. /\ pc' = "sync" /\ UNCHANGED <<canon, graph, checkpoint>>
        /\ \E m \in BlocksAboveCheckpoint : height' = Height[m]
    BY <1>3 DEF BeginWalk
  <2>2. height' = k + 1
    BY <1>1, <2>1 DEF BlocksAboveCheckpoint
  <2> QED
    BY <2>1, <2>2, FollowsSame DEF LoopsKeep, BatchIsChain
<1>4. CASE FoundComplete
  BY <1>4, AdoptSteady
<1>5. CASE FoundIncomplete
  <2>1. /\ pc = "sync" /\ pc' = "undo" /\ height > k
        /\ UNCHANGED <<canon, graph, checkpoint, height>>
    BY <1>5 DEF FoundIncomplete
  <2>2. height = k + 1
    BY <1>1, <2>1 DEF LoopsKeep
  <2>3. PICK a \in StoredAt(height) : ~ Complete(a)
    BY <1>5 DEF FoundIncomplete
  <2>4. ~ TopComplete
    <3> SUFFICES ASSUME NEW b \in Stored, Height[b] = k + 1, Complete(b) PROVE FALSE
      BY DEF TopComplete
    <3>1. \A x \in Stored : Height[x] = k + 1 => NextInChain(x)
      BY <1>1 DEF StoreFollows, InChain, Stored, Seen
    <3>2. a \in Stored /\ Height[a] = k + 1
      BY <2>2, <2>3 DEF StoredAt
    <3>3. a = b
      BY <3>1, <3>2 DEF NextInChain
    <3> QED
      BY <2>3, <3>3
  <2> QED
    BY <2>1, <2>2, <2>4, FollowsSame DEF LoopsKeep, BatchIsChain
<1>6. CASE WalkedToCheckpoint
  <2>1. /\ pc = "sync" /\ pc' = "catchup" /\ height = k /\ current' = height + 1
        /\ UNCHANGED <<canon, graph, checkpoint>>
    BY <1>6 DEF WalkedToCheckpoint
  <2>2. ~ TopStored
    BY <1>1, <2>1 DEF IInv, WalkBelow, TopStored
  <2> QED
    BY <1>1, <2>1, <2>2, FollowsSame DEF LoopsKeep, BatchIsChain
<1>7. CASE UndoneIncomplete
  <2>1. /\ pc = "undo" /\ pc' = "sync" /\ height' = height - 1
        /\ UNCHANGED <<canon, graph, checkpoint>>
    BY <1>7 DEF UndoneIncomplete, BlockGone
  <2>2. height' = k
    BY <1>1, <2>1 DEF LoopsKeep
  <2> QED
    BY <2>1, <2>2, FollowsSame DEF LoopsKeep, BatchIsChain
<1> QED
  BY <1>2, <1>3, <1>4, <1>5, <1>6, <1>7 DEF Startup

\* Catch-up: only the chunks write.
LEMMA CatchUpSteady ==
  ASSUME SteadyInv, IInv', CatchUp
  PROVE  SteadyInv' /\ Keeps
<1> USE DEF SteadyInv
<1>a. /\ Len(canon) \in Nat /\ current \in Nat /\ top \in Nat
      /\ checkpoint.height \in Nat \cup {-1} /\ checkpoint.height < Len(canon)
      /\ height \in Nat \cup {-1} /\ batch \subseteq Block
  BY CanonBlocks DEF IInv, TypeOK, StoreFollows
<1>1. CASE BeginFetch
  <2>1. current <= top' /\ top' < Len(canon)
    BY <1>1, <1>a, LiveAssumption DEF BeginFetch, Least, Tip
  <2>2. /\ pc = "catchup" /\ pc' = "fetch" /\ batch' = {}
        /\ UNCHANGED <<canon, graph, checkpoint, current>>
    BY <1>1 DEF BeginFetch
  <2> QED
    BY <2>1, <2>2, FollowsSame DEF LoopsKeep, BatchIsChain
<1>2. CASE \E k \in current .. top : FetchBlock(k)
  <2>1. PICK k \in current .. top : FetchBlock(k)
    BY <1>2
  <2>2. k \in 0 .. Len(canon) - 1 /\ k <= top
    BY <1>a, <2>1 DEF FetchBlock, IInv, Bounds
  <2>3. canon[k + 1] \in Block /\ Height[canon[k + 1]] = k
    BY <2>2, CanonBlocks
  <2>4. BatchIsChain'
    BY <2>1, <2>2, <2>3 DEF FetchBlock, BatchIsChain
  <2>5. /\ pc = "fetch" /\ UNCHANGED <<canon, graph, checkpoint, pc, current, top, height>>
    BY <2>1 DEF FetchBlock
  <2> QED
    BY <2>4, <2>5, FollowsSame DEF LoopsKeep
<1>3. CASE Fetched
  <2>1. ASSUME NEW k \in current .. top PROVE canon[k + 1] \in batch
    BY <1>3, <2>1 DEF Fetched, BatchIsChain
  <2>2. BatchIsChain'
    BY <1>3, <2>1 DEF Fetched, BatchIsChain
  <2>3. /\ pc = "fetch" /\ pc' \in {"phaseB", "ingest"} /\ (pc' = "ingest" => height' = current)
        /\ UNCHANGED <<canon, graph, checkpoint, current, top>>
    BY <1>3 DEF Fetched
  <2> QED
    BY <2>2, <2>3, <1>a, FollowsSame DEF LoopsKeep
<1>4. CASE IngestChunk
  <2>1. PICK last \in ChunkEnds : last < top /\ WriteChunk(last) /\ height' = last + 1
    BY <1>4 DEF IngestChunk
  <2>2. pc = "ingest" /\ UNCHANGED <<canon, pc, current, top, batch>>
    BY <1>4 DEF IngestChunk
  <2>3. /\ StoreFollows' /\ ~ TopStored' /\ Keeps /\ checkpoint'.height = last
        /\ last > checkpoint.height
    BY <2>1, <2>2, WriteChunkSteady
  <2>4. last \in Int /\ last >= height
    BY <2>1, WriteChunkTypes
  <2>5. LoopsKeep'
    BY <1>a, <2>1, <2>2, <2>3, <2>4 DEF LoopsKeep
  <2>6. BatchIsChain'
    BY <1>a, <2>1, <2>2, <2>3, <2>4 DEF BatchIsChain
  <2> QED
    BY <2>3, <2>5, <2>6
<1>5. CASE IngestLastChunk
  <2>1. /\ pc = "ingest" /\ top \in ChunkEnds /\ WriteChunk(top)
        /\ pc' \in {"phaseB", "catchup"} /\ (pc' = "catchup" => current' = top + 1)
        /\ (pc' = "phaseB" => current' = current)
        /\ UNCHANGED <<canon, top>>
    BY <1>5 DEF IngestLastChunk
  <2>2. /\ StoreFollows' /\ ~ TopStored' /\ Keeps /\ checkpoint'.height = top
        /\ top > checkpoint.height
    BY <2>1, WriteChunkSteady
  <2>3. current <= checkpoint.height + 1
    BY <2>1 DEF LoopsKeep
  <2>4. LoopsKeep'
    BY <1>a, <2>1, <2>2, <2>3 DEF LoopsKeep
  <2> QED
    BY <2>1, <2>2, <2>4 DEF BatchIsChain
<1>6. CASE ChunkRejected \/ MaxReachedInCatchup
  BY <1>6, FollowsSame, ExitSteady DEF ChunkRejected, MaxReachedInCatchup, Exit
<1>7. CASE LeaveCatchup
  BY <1>7, FollowsSame DEF LeaveCatchup, LoopsKeep, BatchIsChain
<1>8. CASE Connect
  BY <1>8, FollowsSame DEF Connect, LoopsKeep, BatchIsChain
<1> QED
  BY <1>1, <1>2, <1>3, <1>4, <1>5, <1>6, <1>7, <1>8 DEF CatchUp

\* Real time: only the block of the next height is written.
LEMMA RealTimeSteady ==
  ASSUME SteadyInv, IInv', RealTime
  PROVE  SteadyInv' /\ Keeps
<1> USE DEF SteadyInv
<1>a. current \in Nat /\ top \in Nat /\ checkpoint.height \in Nat \cup {-1}
  BY DEF IInv, TypeOK
<1>1. CASE StopOnSignal \/ StopAtMaxHeight \/ BlockRejected
  <2>1. Exit /\ UNCHANGED <<canon, graph, checkpoint>>
    BY <1>1 DEF StopOnSignal, StopAtMaxHeight, BlockRejected, Exit
  <2> QED
    BY <2>1, FollowsSame, ExitSteady
<1>2. CASE Receive
  BY <1>2, FollowsSame DEF Receive, LoopsKeep, BatchIsChain
<1>3. CASE Reconnect
  BY <1>3, FollowsSame DEF Reconnect, LoopsKeep, BatchIsChain
<1>4. CASE AskTip
  <2>1. pc = "tip" /\ pc' \in {"block", "check"} /\ (pc' = "block" => height' = current)
        /\ UNCHANGED <<canon, graph, checkpoint, current>>
    BY <1>4 DEF AskTip
  <2> QED
    BY <2>1, FollowsSame DEF LoopsKeep, BatchIsChain
<1>5. CASE IngestBlock
  <2>1. /\ pc = "block" /\ Insertable({NextBlock}) /\ WriteBlock /\ UNCHANGED <<canon, top>>
    BY <1>5 DEF IngestBlock
  <2>2. /\ StoreFollows' /\ ~ TopStored' /\ Keeps /\ checkpoint'.height = height
        /\ height = checkpoint.height + 1
    BY <2>1, WriteBlockSteady
  <2>3. current <= checkpoint.height + 1
    BY <2>1 DEF LoopsKeep
  <2>4. CASE height < top
    <3>1. pc' = "block" /\ height' = height + 1 /\ current' = current
      BY <1>5, <2>1, <2>4 DEF IngestBlock
    <3>2. LoopsKeep'
      BY <1>a, <2>2, <2>3, <3>1 DEF LoopsKeep
    <3> QED
      BY <2>2, <3>1, <3>2 DEF BatchIsChain
  <2>5. CASE ~(height < top)
    <3>1. pc' = "check" /\ current' = top + 1 /\ height = top
      BY <1>5, <1>a, <2>1, <2>5 DEF IngestBlock, IInv, Bounds
    <3>2. LoopsKeep'
      BY <1>a, <2>2, <3>1 DEF LoopsKeep
    <3> QED
      BY <2>2, <3>1, <3>2 DEF BatchIsChain
  <2> QED
    BY <2>4, <2>5
<1>6. CASE LoopAgain
  BY <1>6, FollowsSame DEF LoopAgain, LoopsKeep, BatchIsChain
<1> QED
  BY <1>1, <1>2, <1>3, <1>4, <1>5, <1>6 DEF RealTime

\* No block of the stream contradicts the stored one below it.
LEMMA NoReorgSteady ==
  ASSUME SteadyInv
  PROVE  ~Reorg
<1> USE DEF SteadyInv
<1>1. ~ReorgDetected
  <2> SUFFICES ASSUME pc = "block" PROVE ParentMatches(NextBlock)
    BY DEF ReorgDetected
  <2>1. height \in Nat /\ height <= top /\ top < Len(canon)
    BY DEF IInv, Bounds
  <2>2. /\ top \in Nat /\ Len(canon) \in Nat /\ checkpoint.height \in Nat \cup {-1}
        /\ height <= checkpoint.height + 1
    BY CanonBlocks DEF IInv, TypeOK, LoopsKeep
  <2>3. Height[NextBlock] = height
    BY <2>1, <2>2, NextBlockType
  <2>4. ASSUME height > 0, NEW p \in StoredAt(height - 1)
        PROVE  p = Parent[NextBlock]
    <3>1. p \in Block /\ Height[p] = height - 1 /\ Seen(p) # {}
      BY DEF StoredAt, Stored, Seen
    <3>2. InChain(p)
      BY <2>1, <2>2, <3>1 DEF StoreFollows, NextInChain
    <3>3. canon[height] = p
      BY <2>1, <3>1, <3>2 DEF InChain
    <3>4. Parent[canon[height + 1]] = canon[height]
      <4>1. \A j \in 1 .. Len(canon) - 1 : Parent[canon[j + 1]] = canon[j]
        BY CanonBlocks
      <4>2. height \in 1 .. Len(canon) - 1
        BY <2>1, <2>2, <2>4
      <4> QED
        BY <4>1, <4>2
    <3> QED
      BY <3>3, <3>4 DEF NextBlock
  <2> QED
    BY <2>3, <2>4 DEF ParentMatches
<1> QED
  BY <1>1 DEF Reorg, ChainsAgree, ChainsDisagree, RolledBackBlock, RolledBack, LoopsKeep

\* Every step keeps the invariant, and is a step of the contract or none.
LEMMA NextSteady == ASSUME Steady, SteadyInv, [Next]_vars PROVE SteadyInv' /\ Keeps
<1>0. IInv'
  BY NextIInv DEF SteadyInv
<1>1. CASE \E c \in Chains : NewTip(c)
  BY <1>0, <1>1, NewTipSteady
<1>2. CASE Launch \/ Fault
  BY <1>0, <1>2, FaultSteady
<1>3. CASE Process
  BY <1>0, <1>3, StartupSteady, RemoveSteady, CatchUpSteady, RealTimeSteady, NoReorgSteady
     DEF Process
<1>4. CASE UNCHANGED vars
  BY <1>0, <1>4, FollowsSame DEF SteadyInv, LoopsKeep, BatchIsChain, vars
<1> QED
  BY <1>1, <1>2, <1>3, <1>4 DEF Next

\* An empty store, or one that an ingest_block left.
LEMMA InitSteady == Init => SteadyInv /\ Contract!Init
<1> SUFFICES ASSUME Init PROVE SteadyInv /\ Contract!Init
  OBVIOUS
<1>1. IInv
  BY InitIInv
<1>2. StoreFollows
  <2>1. CASE EmptyStore
    <3>1. checkpoint.height = -1 /\ Len(canon) \in Nat \ {0}
      BY <1>1, <2>1, CanonBlocks DEF EmptyStore
    <3>2. ASSUME NEW b \in Block PROVE ~ InChain(b)
      <4>1. Height[b] \in Nat
        BY BlockAssumption
      <4> QED
        BY <3>1, <4>1 DEF InChain
    <3>3. ASSUME NEW b \in Block PROVE Seen(b) = {}
      BY <2>1 DEF EmptyStore, Seen
    <3>4. checkpoint.height < Len(canon)
      BY <3>1
    <3> QED
      BY <3>2, <3>3, <3>4 DEF StoreFollows
  <2>2. CASE PartialStore
    <3>1. PICK n \in 2 .. Len(canon) : \E p \in PartialBlocks :
            /\ graph = [b \in Block |-> IF \E i \in 1 .. n - 1 : canon[i] = b THEN Layers
                                        ELSE IF b = canon[n] THEN p ELSE {}]
            /\ checkpoint = [height |-> n - 2, hash |-> canon[n - 1]]
      BY <2>2 DEF PartialStore
    <3>2. PICK p \in PartialBlocks :
            /\ graph = [b \in Block |-> IF \E i \in 1 .. n - 1 : canon[i] = b THEN Layers
                                        ELSE IF b = canon[n] THEN p ELSE {}]
            /\ checkpoint = [height |-> n - 2, hash |-> canon[n - 1]]
      BY <3>1
    <3>3. /\ n \in Nat /\ Len(canon) \in Nat /\ 2 <= n /\ n <= Len(canon)
          /\ checkpoint.height = n - 2 /\ "block" \in p
          /\ \A i \in 1 .. Len(canon) : canon[i] \in Block /\ Height[canon[i]] = i - 1
      <4>1. Len(canon) \in Nat /\ \A i \in 1 .. Len(canon) : canon[i] \in Block /\ Height[canon[i]] = i - 1
        BY <1>1, ChainBlocks DEF IInv, TypeOK
      <4>2. n \in Nat /\ 2 <= n /\ n <= Len(canon)
        BY <3>1, <4>1
      <4>3. checkpoint.height = n - 2
        BY <3>2
      <4>4. "block" \in p
        BY <3>2 DEF PartialBlocks, Layers
      <4> QED
        BY <4>1, <4>2, <4>3, <4>4
    <3>4. ASSUME NEW b \in Block
          PROVE  InChain(b) <=> \E i \in 1 .. n - 1 : canon[i] = b
      <4>1. Height[b] \in Nat
        BY BlockAssumption
      <4>2. ASSUME InChain(b) PROVE \E i \in 1 .. n - 1 : canon[i] = b
        <5>1. Height[b] + 1 \in 1 .. n - 1
          BY <3>3, <4>1, <4>2 DEF InChain
        <5> QED
          BY <4>2, <5>1 DEF InChain
      <4>3. ASSUME NEW i \in 1 .. n - 1, canon[i] = b PROVE InChain(b)
        <5>1. Height[b] = i - 1 /\ i - 1 <= n - 2 /\ i - 1 + 1 = i
          BY <3>3, <4>3
        <5> QED
          BY <3>3, <4>3, <5>1 DEF InChain
      <4> QED
        BY <4>2, <4>3
    <3>5. \A b \in Block : InChain(b) => Seen(b) = {"block", "transactions"}
      BY <3>2, <3>4 DEF Seen, Layers
    <3>6. ASSUME NEW b \in Block, ~ InChain(b), Seen(b) # {}
          PROVE  NextInChain(b) /\ "block" \in graph[b]
      <4>1. b = canon[n] /\ graph[b] = p
        BY <3>2, <3>4, <3>6 DEF Seen
      <4>2. Height[b] = n - 1 /\ n - 1 + 1 = n /\ n - 2 + 1 = n - 1
        BY <3>3, <4>1
      <4> QED
        BY <3>3, <4>1, <4>2 DEF NextInChain
    <3>7. checkpoint.height < Len(canon)
      BY <3>3
    <3> QED
      BY <3>5, <3>6, <3>7 DEF StoreFollows
  <2> QED
    BY <2>1, <2>2 DEF Init
<1>3. Contract!Init
  <2>1. TopComplete => TopStored
    BY DEF TopComplete, TopStored
  <2>2. HeightsFollow /\ checkpoint.height \in Nat \cup {-1}
    BY <1>1, <1>2, HeightsOfStore DEF IInv, TypeOK
  <2> QED
    BY <2>1, <2>2 DEF HeightsFollow, Contract!Init, Contract!UpTo, Contract!Above
<1> QED
  BY <1>1, <1>2, <1>3 DEF SteadyInv, LoopsKeep, BatchIsChain, Init

\* As long as the node does not reorganise, the store keeps the contract that a
\* start relies on, from any store that an ingest_block left and through crashes
\* inside the startup walk.
THEOREM ImplementsContract == ASSUME Steady PROVE Spec => ImplementsBlockStore
<1>1. SteadyInv /\ [Next]_vars => SteadyInv' /\ [Contract!Next]_Contract!vars
  BY NextSteady DEF Keeps
<1> QED
  BY InitSteady, <1>1, PTL DEF Spec, ImplementsBlockStore, Contract!Spec

===============================================================================
