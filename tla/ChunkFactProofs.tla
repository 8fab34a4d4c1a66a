---------------------------- MODULE ChunkFactProofs ----------------------------
(***************************************************************************)
(* What ChunkWriter leaves in the graph, for every instance:               *)
(*                                                                         *)
(*   RetriesAddOne       a retried HAS_OUTPUT is there once;               *)
(*   ChunksAreAtomic     nothing of an uncommitted chunk is in the graph   *)
(*                       but what AtomicChunks allows;                     *)
(*   CheckpointIsWhole   blocks up to the checkpoint lack nothing;         *)
(*   CreatesNeverCollide no CREATE meets a node that is there;             *)
(*   WriterImplements    the store changes as BlockStore promises.         *)
(*                                                                         *)
(* They rest on ShapeInv, and on what a query can add: facts of its block, *)
(* in one order or another.  WriterImplements needs StoreInv: the store is *)
(* one that BlockStore allows, and a block of ingest_block whose queries   *)
(* are at work stands right above the checkpoint.                          *)
(***************************************************************************)
EXTENDS ChunkWriterProofs

-----------------------------------------------------------------------------
(* The queries *)

\* A fact that a query writes for block h.
Owned(f, h) == f \in FactsOf(h) \/ (f[1] = "hasOutput" /\ f[2] = TxOf[h])

\* A query writes facts of its block only.
LEMMA EffectOwned ==
  ASSUME NEW q \in Queries, NEW h \in Heights, NEW view, <<"block", -1>> \notin view,
         NEW f \in Effect(q, h, view)
  PROVE  Owned(f, h)
<1>1. CASE q = "blocks"
  <2>1. f = <<"block", h>> \/ (f = <<"next", h>> /\ <<"block", h - 1>> \in view)
    BY <1>1 DEF Effect, Linked
  <2>2. f = <<"next", h>> /\ <<"block", h - 1>> \in view => h # 0
    OBVIOUS
  <2> QED
    BY <2>1, <2>2 DEF Owned, FactsOf
<1>2. CASE q \in {"outputs", "lockedTo"}
  <2>1. f = <<"output", TxOf[h]>> \/ f \in LockedTo(h)
    BY <1>2 DEF Effect
  <2> QED
    BY <2>1 DEF Owned, FactsOf
<1>3. CASE q = "transactions"
  <2>1. f = <<"tx", TxOf[h]>> \/ f = <<"in", TxOf[h], h>>
    BY <1>3 DEF Effect, Linked
  <2> QED
    BY <2>1 DEF Owned, FactsOf
<1>4. CASE q = "hasOutput"
  <2>1. \E n : f = <<"hasOutput", TxOf[h], n>>
    BY <1>4 DEF Effect, HasOutput, Linked
  <2> QED
    BY <2>1 DEF Owned
<1>5. CASE q = "inputs"
  <2>1. \/ f = <<"input", TxOf[h]>> \/ f = <<"hasInput", TxOf[h]>>
        \/ Spends[h] # None /\ f = <<"spends", TxOf[h], Spends[h]>>
    BY <1>5 DEF Effect, Linked, SpendsOutput
  <2> QED
    BY <2>1 DEF Owned, FactsOf
<1>6. CASE q = "performs"
  <2>1. Payer[h] # None /\ (f = <<"address", Payer[h]>> \/ f = <<"performs", Payer[h], TxOf[h]>>)
    BY <1>6 DEF Effect, Linked
  <2> QED
    BY <2>1 DEF Owned, FactsOf
<1>7. CASE q = "benefits"
  <2>1. Payee[h] # None /\ (f = <<"address", Payee[h]>> \/ f = <<"benefits", TxOf[h], Payee[h]>>)
    BY <1>7 DEF Effect
  <2> QED
    BY <2>1 DEF Owned, FactsOf, LockedTo
<1> QED
  BY <1>1, <1>2, <1>3, <1>4, <1>5, <1>6, <1>7 DEF Queries, Creating

\* What write_outputs writes for a BIP30 chunk, on its own.
LEMMA EffectOutputs ==
  ASSUME NEW q \in {"outputs", "lockedTo"}, NEW h \in Heights, NEW view, NEW f \in Effect(q, h, view)
  PROVE  f \in FactsOf(h) /\ f[1] \in {"output", "lockedTo", "address"}
<1>1. f = <<"output", TxOf[h]>> \/ f \in LockedTo(h)
  BY DEF Effect
<1>2. f[1] \in {"output", "lockedTo", "address"}
  BY <1>1 DEF LockedTo
<1> QED
  BY <1>1, <1>2 DEF FactsOf

\* What a task writes: a fact of every block with the transaction, which is there.
LEMMA EffectSimplified ==
  ASSUME NEW q \in {"performs", "benefits"}, NEW h \in Heights, NEW view, NEW f \in Effect(q, h, view),
         f[1] # "address"
  PROVE  /\ <<"tx", TxOf[h]>> \in view
         /\ \A k \in Heights : TxOf[k] = TxOf[h] => f \in FactsOf(k)
<1>1. \A k \in Heights : TxOf[k] = TxOf[h] => Payer[k] = Payer[h] /\ Payee[k] = Payee[h]
  BY WriterAssumption
<1>2. CASE q = "performs"
  <2>1. /\ Payer[h] # None /\ f = <<"performs", Payer[h], TxOf[h]>>
        /\ <<"tx", TxOf[h]>> \in view
    BY <1>2 DEF Effect, Linked
  <2> QED
    BY <2>1, <1>1 DEF FactsOf
<1>3. CASE q = "benefits"
  <2>1. /\ Payee[h] # None /\ f = <<"benefits", TxOf[h], Payee[h]>>
        /\ <<"tx", TxOf[h]>> \in view
    BY <1>3 DEF Effect
  <2> QED
    BY <2>1, <1>1 DEF FactsOf
<1> QED
  BY <1>2, <1>3

\* The facts that name a block or a transaction are those of that block, or of
\* one with that transaction.
LEMMA OwnedBlock == ASSUME NEW n, NEW h \in Heights, Owned(<<"block", n>>, h) PROVE n = h
BY DEF Owned, FactsOf, LockedTo

\* The transaction of a fact is that of its block.
LEMMA OwnedTx == ASSUME NEW t, NEW h \in Heights, Owned(<<"tx", t>>, h) PROVE t = TxOf[h]
BY DEF Owned, FactsOf, LockedTo

-----------------------------------------------------------------------------
(* The steps, by what they do to the facts *)

\* No fact is added, and those of the transaction stay or are dropped.
Quiet ==
  /\ durable' \subseteq durable /\ (Launch \/ durable' = durable)
  /\ txn'.facts \in {txn.facts, {}}

Commits == pc = "commit" /\ mode = "batch" /\ durable' = durable \cup txn.facts
           /\ txn'.facts = {} /\ checkpoint' = Last

\* The facts F(view) are written, to the graph or to the transaction.
Adds(auto, F(_)) ==
  \/ auto /\ durable' = durable \cup F(durable) /\ txn'.facts = txn.facts
  \/ ~ auto /\ txn.open /\ durable' = durable /\ txn'.facts = txn.facts \cup F(durable \cup txn.facts)

WritesOne ==
  /\ pc \in Queries /\ at \in Chunk
  /\ Adds(AutoCommits(pc), LAMBDA view : Effect(pc, at, view))

WritesTask ==
  /\ pc \in {"await", "rollback", "exit"} /\ mode = "batch"
  /\ \E b \in 1 .. Buckets :
       /\ tasks[b].do \in {"performs", "benefits"}
       /\ tasks[b].via = "auto" => ~ txn.open
       /\ Adds(tasks[b].via = "auto", LAMBDA view : TaskEffect(b, view))

\* What the steps of a task add, and how.
LEMMA TaskSteps ==
  ASSUME ShapeInv, NEW b \in 1 .. Buckets, TaskWrites(b) \/ TaskFails(b)
  PROVE  Quiet \/ WritesTask
<1>1. /\ tasks[b] \in Task /\ TxnInv /\ None \notin {"txn", "auto"}
      /\ tasks[b].via # None => tasks[b].do # "end"
      /\ tasks[b].do # "end" => pc \in {"await", "rollback", "exit"} /\ mode = "batch"
      /\ tasks[b].via = "auto" => ~ txn.open
  BY WriterAssumption DEF ShapeInv, TypeInv, TaskInv
<1>2. tasks[b].do \in {"performs", "benefits"}
  BY <1>1 DEF TaskWrites, TaskFails, Task
<1> DEFINE auto == tasks[b].via = "auto"
<1>3. CASE TaskWrites(b)
  <2>1. Apply(auto, TaskEffect(b, View(auto))) /\ (~ auto => txn.open) /\ auto \in BOOLEAN
    BY <1>3 DEF TaskWrites
  <2> HIDE DEF auto
  <2>2. /\ auto => durable' = durable \cup TaskEffect(b, View(auto)) /\ txn' = txn
        /\ ~ auto => durable' = durable /\ txn'.facts = txn.facts \cup TaskEffect(b, View(auto))
    BY <2>1, <1>1, ApplyTxn
  <2>3. Adds(auto, LAMBDA view : TaskEffect(b, view))
    BY <2>1, <2>2 DEF Adds, View
  <2> QED
    BY <2>3, <1>1, <1>2, <1>3 DEF WritesTask, auto, TaskWrites
<1>4. CASE TaskFails(b)
  <2>1. CASE durable' = durable /\ txn' = txn
    BY <2>1 DEF Quiet
  <2>2. CASE tasks[b].via = "auto" /\ Apply(TRUE, TaskEffect(b, durable))
    <3>1. Adds(auto, LAMBDA view : TaskEffect(b, view))
      BY <2>2 DEF Adds, Apply
    <3> QED
      BY <3>1, <1>1, <1>2, <2>2 DEF WritesTask
  <2> QED
    BY <1>4, <2>1, <2>2 DEF TaskFails
<1> QED
  BY <1>3, <1>4

\* What the steps of a query add, and how.
LEMMA WriteSteps ==
  ASSUME ShapeInv, Write \/ AttemptFails
  PROVE  Quiet \/ WritesOne
<1>1. pc \in Queries /\ at \in Chunk /\ TxnInv
  BY DEF ShapeInv, PlaceInv, Write, AttemptFails
<1>2. CASE Write
  <2> DEFINE auto == AutoCommits(pc)
  <2>1. CASE Collides(pc, at, View(auto))
    BY <2>1, <1>2 DEF Write, Quiet
  <2>2. CASE ~ Collides(pc, at, View(auto))
    <3>1. Apply(auto, Effect(pc, at, View(auto))) /\ (~ auto => txn.open) /\ auto \in BOOLEAN
      BY <2>2, <1>2 DEF Write, AutoCommits
    <3> HIDE DEF auto
    <3>2. /\ auto => durable' = durable \cup Effect(pc, at, View(auto)) /\ txn' = txn
          /\ ~ auto => durable' = durable /\ txn'.facts = txn.facts \cup Effect(pc, at, View(auto))
      BY <3>1, <1>1, ApplyTxn
    <3>3. Adds(auto, LAMBDA view : Effect(pc, at, view))
      BY <3>1, <3>2 DEF Adds, View
    <3> QED
      BY <3>3, <1>1 DEF WritesOne, auto
  <2> QED
    BY <2>1, <2>2
<1>3. CASE AttemptFails
  <2>1. CASE durable' = durable /\ txn' = txn
    BY <2>1 DEF Quiet
  <2>2. CASE Apply(TRUE, Effect(pc, at, durable)) /\ AutoCommits(pc)
    <3>1. Adds(AutoCommits(pc), LAMBDA view : Effect(pc, at, view))
      BY <2>2 DEF Adds, Apply
    <3> QED
      BY <3>1, <1>1 DEF WritesOne
  <2> QED
    BY <1>3, <2>1, <2>2 DEF AttemptFails
<1> QED
  BY <1>2, <1>3

\* Every step is one of these; the checkpoint does not fall, and the chunk stays
\* while a transaction has facts.
LEMMA StepFacts ==
  ASSUME ShapeInv, [Next]_vars
  PROVE  /\ Quiet \/ Commits \/ WritesOne \/ WritesTask
         /\ checkpoint' \in Int /\ checkpoint' >= checkpoint
         /\ txn'.facts = {} \/ Chunk' = Chunk
         /\ mode' = mode
<1>0. /\ checkpoint \in Int
      /\ pc \in Phases => ChunkShape /\ First = checkpoint + 1 /\ Last \in Int /\ Last >= checkpoint
  <2>1. checkpoint \in Int
    BY WriterAssumption DEF ShapeInv, TypeInv
  <2>2. ASSUME pc \in Phases
        PROVE  ChunkShape /\ First = checkpoint + 1 /\ Last \in Int /\ Last >= checkpoint
    <3>1. ChunkShape /\ First = checkpoint + 1
      BY <2>2, Here DEF ShapeInv, PlaceInv
    <3>2. Last \in First .. Last
      BY <3>1 DEF ChunkShape
    <3> QED
      BY <3>1, <3>2, <2>1
  <2> QED
    BY <2>1, <2>2
<1>1. CASE Launch
  <2>1. PICK highest \in Kept : checkpoint' = highest
    BY <1>1 DEF Launch
  <2>2. checkpoint' \in Int /\ checkpoint' >= checkpoint
    BY <2>1, <1>0, WriterAssumption DEF Kept, StoredAbove, Heights
  <2>3. durable' \subseteq durable /\ txn' = txn
    BY <1>1 DEF Launch, RolledBack
  <2>4. txn = NoTxn
    BY <1>1 DEF Launch, ShapeInv, TxnInv, Phases, Queries, Creating
  <2>5. mode' = mode
    BY <1>1 DEF Launch, fixed
  <2> QED
    BY <1>1, <2>2, <2>3, <2>4, <2>5 DEF Quiet, NoTxn
<1>2. CASE NextBatch \/ Scan \/ ScanEnds \/ Begin \/ BeginFails \/ Rollback
  <2>1. txn'.facts = {}
    <3>1. pc \in {"next", "cut", "begin"} => txn = NoTxn
      BY DEF ShapeInv, TxnInv, Phases, Queries, Creating
    <3> QED
      BY <1>2, <3>1 DEF NextBatch, Scan, ScanEnds, Begin, BeginFails, Rollback, NoTxn, graphVars
  <2>2. durable' = durable /\ checkpoint' = checkpoint /\ mode' = mode
    BY <1>2 DEF NextBatch, Scan, ScanEnds, Begin, BeginFails, Rollback, graphVars, fixed
  <2> QED
    BY <2>1, <2>2, <1>0 DEF Quiet
<1>3. CASE Commit \/ CommitFails
  <2>1. /\ pc = "commit" /\ mode = "batch" /\ mode' = mode /\ txn' = NoTxn
        /\ txn.height = Last
    BY <1>3 DEF Commit, CommitFails, fixed, ShapeInv, TxnInv, PlaceInv
  <2>2. Commits \/ (Quiet /\ checkpoint' = checkpoint)
    BY <1>3, <2>1 DEF Commit, CommitFails, Committed, Commits, Quiet, NoTxn
  <2>3. checkpoint' \in Int /\ checkpoint' >= checkpoint
    BY <2>1, <2>2, <1>0 DEF Commits, Phases
  <2> QED
    BY <2>1, <2>2, <2>3 DEF NoTxn
<1>4. CASE Exit \/ Crash
  <2>1. /\ durable' = durable /\ checkpoint' = checkpoint /\ mode' = mode
        /\ txn'.facts = {}
    BY <1>4 DEF Exit, Crash, Gone, NoTxn, fixed
  <2> QED
    BY <2>1, <1>0 DEF Quiet
<1>5. CASE Write \/ AttemptFails
  <2>1. checkpoint' = checkpoint /\ UNCHANGED <<mode, batch, scan, chunk>>
    BY <1>5 DEF Write, AttemptFails, loopVars, fixed
  <2> QED
    BY <1>0, <1>5, <2>1, WriteSteps, SameChunk
<1>6. CASE \E b \in 1 .. Buckets : TaskWrites(b) \/ TaskFails(b)
  <2>1. PICK b \in 1 .. Buckets : TaskWrites(b) \/ TaskFails(b)
    BY <1>6
  <2>2. checkpoint' = checkpoint /\ UNCHANGED <<mode, batch, scan, chunk>>
    BY <2>1 DEF TaskWrites, TaskFails, loopVars, fixed
  <2> QED
    BY <1>0, <2>1, <2>2, TaskSteps, SameChunk
<1>7. CASE \/ WriteFails \/ Spawn \/ Await \/ UNCHANGED vars
           \/ \E b \in 1 .. Buckets : TaskLooks(b) \/ TaskFindsClosed(b)
  <2>1. UNCHANGED <<durable, txn, checkpoint, mode, batch, scan, chunk>>
    BY <1>7 DEF WriteFails, Spawn, Await, TaskLooks, TaskFindsClosed, vars, graphVars, loopVars, fixed
  <2> QED
    BY <1>0, <2>1, SameChunk DEF Quiet
<1>8. CASE UpdateCheckpoint \/ UpdateCheckpointFails
  <2>1. pc = "checkpoint" /\ UNCHANGED <<mode, batch, scan, chunk>> /\ durable' = durable
    BY <1>8 DEF UpdateCheckpoint, UpdateCheckpointFails, loopVars, fixed
  <2>2. checkpoint' \in {checkpoint, Last}
    BY <1>8 DEF UpdateCheckpoint, UpdateCheckpointFails
  <2>3. txn'.facts = txn.facts
    BY <1>8 DEF UpdateCheckpoint, UpdateCheckpointFails, ShapeInv, TxnInv
  <2> QED
    BY <1>0, <2>1, <2>2, <2>3, SameChunk DEF Quiet, Phases
<1> QED
  BY <1>1, <1>2, <1>3, <1>4, <1>5, <1>6, <1>7, <1>8 DEF Next, Process, Faults

-----------------------------------------------------------------------------
(* HAS_OUTPUT of ingest_block *)

\* Only the query for it writes HAS_OUTPUT.  It is the first, or one of several.
LEMMA EffectHasOutput ==
  ASSUME NEW q \in Queries, NEW h \in Heights, NEW view, NEW f \in Effect(q, h, view),
         f[1] = "hasOutput"
  PROVE  /\ q = "hasOutput"
         /\ \/ f = <<"hasOutput", TxOf[h], 1>>
            \/ /\ Fast(q)
               /\ f[2] = TxOf[h]
               /\ \E g \in view : g[1] = "hasOutput" /\ g[2] = TxOf[h]
<1>1. q = "hasOutput"
  BY DEF Effect, Linked, LockedTo, SpendsOutput, Queries, Creating
<1> DEFINE there == {g \in view : g[1] = "hasOutput" /\ g[2] = TxOf[h]}
<1>2. /\ f = <<"hasOutput", TxOf[h], Cardinality(there) + 1>>
      /\ Fast(q) \/ there = {}
  BY <1>1 DEF Effect, HasOutput, Linked
<1>3. there = {} => f = <<"hasOutput", TxOf[h], 1>>
  <2>1. Cardinality({}) + 1 = 1
    BY FS_EmptySet
  <2> QED
    BY <1>2, <2>1
<1>4. f[2] = TxOf[h]
  BY <1>2
<1>5. there # {} => \E g \in view : g[1] = "hasOutput" /\ g[2] = TxOf[h]
  OBVIOUS
<1> HIDE DEF there
<1> QED
  BY <1>1, <1>2, <1>3, <1>4, <1>5

\* No step adds a second HAS_OUTPUT in ingest_block.
LEMMA NextOnce == ShapeInv /\ RetriesAddNothing /\ [Next]_vars => RetriesAddNothing'
<1> SUFFICES ASSUME ShapeInv, RetriesAddNothing, [Next]_vars, mode' = "single",
                    NEW f \in durable', f[1] = "hasOutput"
             PROVE  f[3] = 1
  BY DEF RetriesAddNothing
<1>1. mode = "single"
  BY StepFacts
<1>2. CASE Quiet
  BY <1>1, <1>2 DEF Quiet, RetriesAddNothing
<1>3. CASE WritesOne
  <2>1. f \in durable \/ f \in Effect(pc, at, durable)
    BY <1>3 DEF WritesOne, Adds
  <2>2. at \in Heights
    BY <1>1, <1>3, Here DEF WritesOne, ChunkShape
  <2>3. f \in Effect(pc, at, durable) => f = <<"hasOutput", TxOf[at], 1>>
    BY <1>1, <1>3, <2>2, EffectHasOutput DEF WritesOne, Fast
  <2> QED
    BY <1>1, <2>1, <2>3 DEF RetriesAddNothing
<1> QED
  BY <1>1, <1>2, <1>3, StepFacts DEF Commits, WritesTask

\* However often a query of ingest_block is repeated, HAS_OUTPUT is there once.
THEOREM RetriesAddOne == Spec => []RetriesAddNothing
<1>1. Init => RetriesAddNothing
  BY DEF Init, RetriesAddNothing
<1> QED
  BY <1>1, NextOnce, ShapeInvariant, PTL DEF Spec

-----------------------------------------------------------------------------
(* Chunks are atomic *)

\* The transaction holds facts of the chunk's blocks.
AtomicInv ==
  mode = "batch" =>
    /\ \A f \in durable : Expected(f)
    /\ \A f \in txn.facts : \E h \in Chunk : Owned(f, h)

\* What is expected stays expected when the checkpoint rises.
LEMMA ExpectedKept ==
  ASSUME NEW f, Expected(f), checkpoint \in Int, checkpoint' \in Int, checkpoint' >= checkpoint
  PROVE  Expected(f)'
<1>1. 0 .. checkpoint \subseteq 0 .. checkpoint'
  OBVIOUS
<1> QED
  BY <1>1 DEF Expected

\* No fact is about a block before the first.
LEMMA NoBlockBelow ==
  ASSUME ShapeInv, AtomicInv, mode = "batch",
         txn.facts # {} => Chunk \subseteq Heights
  PROVE  <<"block", -1>> \notin durable \cup txn.facts
<1>0. MaxHeight \in Nat /\ checkpoint \in -1 .. MaxHeight
  BY WriterAssumption DEF ShapeInv, TypeInv
<1>1. ASSUME <<"block", -1>> \in durable PROVE FALSE
  <2>1. PICK h \in 0 .. checkpoint : Owned(<<"block", -1>>, h)
    BY <1>1 DEF AtomicInv, Expected, Owned
  <2> QED
    BY <1>0, <2>1, OwnedBlock DEF Heights
<1>2. ASSUME <<"block", -1>> \in txn.facts PROVE FALSE
  <2>1. PICK h \in Heights : Owned(<<"block", -1>>, h)
    BY <1>2 DEF AtomicInv
  <2> QED
    BY <2>1, OwnedBlock DEF Heights
<1> QED
  BY <1>1, <1>2

\* Facts that go to the graph without a commit: outputs of a BIP30 chunk.
LEMMA LeakExpected ==
  ASSUME ShapeInv, mode = "batch", pc \in Queries, AutoCommits(pc),
         NEW f \in Effect(pc, at, durable)
  PROVE  Expected(f)
<1>1. ChunkShape /\ at \in Chunk /\ txn.open
  BY Here DEF ShapeInv, PlaceInv, TxnInv, Phases
<1>2. pc \in {"outputs", "lockedTo"} /\ ~ Fast("outputs")
  BY <1>1 DEF AutoCommits
<1>3. at \in Heights
  BY <1>1 DEF ChunkShape
<1>4. f \in FactsOf(at) /\ f[1] \in {"output", "lockedTo", "address"}
  BY <1>2, <1>3, EffectOutputs
<1>5. PICK d \in Bip30 : d \in Chunk
  BY <1>2 DEF Fast, HasBip30
<1>6. at - d < BatchSize /\ d - at < BatchSize
  <2>1. at \in batch.first .. batch.last /\ d \in batch.first .. batch.last
    BY <1>1, <1>5 DEF ChunkShape
  <2>2. /\ batch.last - batch.first < BatchSize /\ BatchSize \in Int
        /\ batch.first \in Int /\ batch.last \in Int
    BY WriterAssumption DEF ShapeInv, TypeInv, Heights
  <2> QED
    BY <2>1, <2>2
<1> QED
  BY <1>3, <1>4, <1>5, <1>6 DEF Expected

\* A task that outlives its transaction writes nothing but addresses for a
\* transaction that is not in the graph, and nothing new for one that is.
LEMMA LateTaskExpected ==
  ASSUME ShapeInv, AtomicInv, mode = "batch",
         NEW b \in 1 .. Buckets, tasks[b].do \in {"performs", "benefits"},
         Chunk \subseteq Heights,
         NEW f \in TaskEffect(b, durable)
  PROVE  Expected(f)
<1>1. PICK h \in Chunk : f \in Effect(tasks[b].do, h, durable)
  BY DEF TaskEffect, Work
<1>2. CASE f[1] = "address"
  BY <1>2 DEF Expected
<1>3. CASE f[1] # "address"
  <2>1. /\ <<"tx", TxOf[h]>> \in durable
        /\ \A k \in Heights : TxOf[k] = TxOf[h] => f \in FactsOf(k)
    BY <1>1, <1>3, EffectSimplified
  <2>2. PICK k \in 0 .. checkpoint : Owned(<<"tx", TxOf[h]>>, k)
    BY <2>1 DEF AtomicInv, Expected, Owned
  <2>3. k \in Heights
    BY WriterAssumption DEF ShapeInv, TypeInv, Heights
  <2>4. TxOf[k] = TxOf[h]
    BY <2>2, <2>3, OwnedTx
  <2> QED
    BY <2>1, <2>3, <2>4 DEF Expected
<1> QED
  BY <1>2, <1>3

\* Every step keeps AtomicInv.
LEMMA NextAtomic == ShapeInv /\ AtomicInv /\ [Next]_vars => AtomicInv'
<1> SUFFICES ASSUME ShapeInv, AtomicInv, [Next]_vars, mode' = "batch"
             PROVE  /\ \A f \in durable' : Expected(f)'
                    /\ \A f \in txn'.facts : \E h \in Chunk' : Owned(f, h)
  BY DEF AtomicInv, Owned, FactsOf, LockedTo
<1>1. mode = "batch" /\ checkpoint \in Int /\ checkpoint' \in Int /\ checkpoint' >= checkpoint
  BY StepFacts, WriterAssumption DEF ShapeInv, TypeInv
<1>2. \A f \in durable : Expected(f)'
  BY <1>1, ExpectedKept DEF AtomicInv
<1>3. CASE Quiet
  <2>1. \A f \in txn'.facts : f \in txn.facts /\ Chunk' = Chunk
    BY <1>3, StepFacts DEF Quiet
  <2> QED
    BY <1>1, <1>2, <1>3, <2>1 DEF Quiet, AtomicInv
<1>4. CASE Commits
  <2>1. Chunk = First .. Last /\ Chunk \subseteq Heights /\ Last = checkpoint'
    BY <1>4, Here DEF Commits, ChunkShape, Phases
  <2>2. \A h \in Chunk : h \in 0 .. checkpoint'
    BY <1>1, <2>1 DEF Heights
  <2>3. \A f \in txn.facts : Expected(f)'
    BY <1>1, <2>2 DEF AtomicInv, Expected, Owned
  <2> QED
    BY <1>2, <1>4, <2>3 DEF Commits
<1>5. CASE WritesOne
  <2>1. ChunkShape /\ pc \in Queries /\ at \in Heights /\ at \in Chunk
    BY <1>5, Here DEF WritesOne, ChunkShape, Phases
  <2>2. CASE AutoCommits(pc)
    <3>1. durable' = durable \cup Effect(pc, at, durable) /\ txn'.facts = txn.facts
      BY <1>5, <2>2 DEF WritesOne, Adds
    <3>2. \A f \in Effect(pc, at, durable) : Expected(f)'
      BY <1>1, <2>1, <2>2, LeakExpected, ExpectedKept
    <3>3. \A f \in txn'.facts : f \in txn.facts /\ Chunk' = Chunk
      BY <3>1, StepFacts
    <3> QED
      BY <1>1, <1>2, <3>1, <3>2, <3>3 DEF AtomicInv
  <2>3. CASE ~ AutoCommits(pc)
    <3>1. /\ durable' = durable
          /\ txn'.facts = txn.facts \cup Effect(pc, at, durable \cup txn.facts)
      BY <1>5, <2>3 DEF WritesOne, Adds
    <3>2. <<"block", -1>> \notin durable \cup txn.facts
      BY <1>1, <2>1, NoBlockBelow DEF ChunkShape
    <3>3. \A f \in Effect(pc, at, durable \cup txn.facts) : Owned(f, at)
      BY <2>1, <3>2, EffectOwned
    <3>4. \A f \in txn'.facts : Chunk' = Chunk
      BY StepFacts
    <3> QED
      BY <1>1, <1>2, <2>1, <3>1, <3>3, <3>4 DEF AtomicInv
  <2> QED
    BY <2>2, <2>3
<1>6. CASE WritesTask
  <2>1. PICK b \in 1 .. Buckets :
          /\ tasks[b].do \in {"performs", "benefits"}
          /\ Adds(tasks[b].via = "auto", LAMBDA view : TaskEffect(b, view))
    BY <1>6 DEF WritesTask
  <2>2. Chunk \subseteq Heights
    BY <1>6, Here DEF WritesTask, ChunkShape, Phases
  <2>3. CASE tasks[b].via = "auto"
    <3>1. durable' = durable \cup TaskEffect(b, durable) /\ txn'.facts = txn.facts
      BY <2>1, <2>3 DEF Adds
    <3>2. \A f \in TaskEffect(b, durable) : Expected(f)'
      BY <1>1, <2>1, <2>2, LateTaskExpected, ExpectedKept
    <3>3. \A f \in txn'.facts : f \in txn.facts /\ Chunk' = Chunk
      BY <3>1, StepFacts
    <3> QED
      BY <1>1, <1>2, <3>1, <3>2, <3>3 DEF AtomicInv
  <2>4. CASE tasks[b].via # "auto"
    <3> DEFINE V == durable \cup txn.facts
    <3>1. durable' = durable /\ txn'.facts = txn.facts \cup TaskEffect(b, V)
      BY <2>1, <2>4 DEF Adds
    <3>2. <<"block", -1>> \notin V
      BY <1>1, <2>2, NoBlockBelow
    <3> HIDE DEF V
    <3>3. \A f \in TaskEffect(b, V) : \E h \in Chunk : Owned(f, h)
      <4> SUFFICES ASSUME NEW f \in TaskEffect(b, V) PROVE \E h \in Chunk : Owned(f, h)
        OBVIOUS
      <4>1. PICK h \in Chunk : f \in Effect(tasks[b].do, h, V)
        BY DEF TaskEffect, Work
      <4> QED
        BY <2>1, <2>2, <3>2, <4>1, EffectOwned DEF Queries
    <3>4. \A f \in txn'.facts : Chunk' = Chunk
      BY StepFacts
    <3> QED
      BY <1>1, <1>2, <3>1, <3>3, <3>4 DEF AtomicInv
  <2> QED
    BY <2>3, <2>4
<1> QED
  BY <1>3, <1>4, <1>5, <1>6, StepFacts

\* A chunk of ingest_blocks_batch is all or nothing, whatever fails and whichever
\* task runs on, but for what AtomicChunks excepts.
THEOREM ChunksAreAtomic == Spec => []AtomicChunks
<1>1. Init => AtomicInv
  BY DEF Init, AtomicInv, NoTxn
<1>2. AtomicInv => AtomicChunks
  BY DEF AtomicInv, AtomicChunks
<1> QED
  BY <1>1, <1>2, NextAtomic, ShapeInvariant, PTL DEF Spec

-----------------------------------------------------------------------------
(* Blocks up to the checkpoint are whole *)

\* What a phase has to write for block h.
Layer(q, h) ==
  LET t == TxOf[h] IN
  CASE q = "blocks" -> {<<"block", h>>} \cup (IF h = 0 THEN {} ELSE {<<"next", h>>})
    [] q = "outputs" -> {<<"output", t>>} \cup LockedTo(h)
    [] q = "transactions" -> {<<"tx", t>>, <<"in", t, h>>}
    [] q = "hasOutput" -> {<<"hasOutput", t, 1>>}
    [] q = "inputs" -> {<<"input", t>>, <<"hasInput", t>>}
                       \cup (IF Spends[h] = None THEN {} ELSE {<<"spends", t, Spends[h]>>})
    [] q = "performs" -> IF Payer[h] = None THEN {}
                         ELSE {<<"address", Payer[h]>>, <<"performs", Payer[h], t>>}
    [] q = "benefits" -> IF Payee[h] = None THEN {}
                         ELSE {<<"address", Payee[h]>>, <<"benefits", t, Payee[h]>>}

Nodes == {"blocks", "outputs", "transactions", "hasOutput", "inputs"}
Layers == Nodes \cup {"performs", "benefits"}

\* The layers that are written for the whole chunk when the writer is at p.
Before(p) ==
  CASE p = "blocks" -> {}
    [] p \in {"outputs", "lockedTo"} -> {"blocks"}
    [] p = "transactions" -> {"blocks", "outputs"}
    [] p = "hasOutput" -> {"blocks", "outputs", "transactions"}
    [] p = "inputs" -> {"blocks", "outputs", "transactions", "hasOutput"}
    [] p \in {"performs", "spawn", "await"} -> Nodes
    [] p = "benefits" -> Nodes \cup {"performs"}
    [] p \in {"checkpoint", "commit"} -> Layers

LayerOf(p) == IF p = "lockedTo" THEN "outputs" ELSE p

Written == durable \cup txn.facts

Progress ==
  pc \in Phases \ {"rollback"} =>
    /\ \A q \in Before(pc) : \A h \in Chunk : Layer(q, h) \subseteq Written
    /\ pc \in Queries => \A h \in Chunk : h < at => Layer(LayerOf(pc), h) \subseteq Written
    /\ pc = "lockedTo" => <<"output", TxOf[at]>> \in Written
    /\ pc = "await" =>
         \A b \in 1 .. Buckets : tasks[b].ok =>
           /\ tasks[b].do # "performs" => \A h \in Work("performs", b) : Layer("performs", h) \subseteq Written
           /\ tasks[b].do = "end" => \A h \in Work("benefits", b) : Layer("benefits", h) \subseteq Written

\* The outputs of the blocks up to h.
OutputsTo(h, V) == \A k \in Heights : k <= h => <<"output", TxOf[k]>> \in V

\* A transaction is included in a block that is there, and the outputs up to this
\* block are; of several HAS_OUTPUT the first is there.
Sound(V) ==
  /\ \A h \in Heights : <<"in", TxOf[h], h>> \in V => <<"block", h>> \in V /\ OutputsTo(h, V)
  /\ \A f \in V : f[1] = "hasOutput" => <<"hasOutput", f[2], 1>> \in V

\* What the next chunk is linked to: the last block, and every output up to it,
\* those of adopted blocks too.
CheckpointThere ==
  /\ checkpoint \in Heights => <<"block", checkpoint>> \in durable
  /\ OutputsTo(checkpoint, durable)

WholeInv ==
  /\ Sound(durable) /\ Sound(Written)
  /\ Progress
  /\ CheckpointedWhole
  /\ CheckpointThere

\* The layers of a block are its facts.
LEMMA LayersAreFacts ==
  ASSUME NEW h \in Heights, NEW V, \A q \in Layers : Layer(q, h) \subseteq V
  PROVE  FactsOf(h) \subseteq V
<1>1. Layer("blocks", h) \subseteq V /\ Layer("outputs", h) \subseteq V
      /\ Layer("transactions", h) \subseteq V /\ Layer("hasOutput", h) \subseteq V
      /\ Layer("inputs", h) \subseteq V /\ Layer("performs", h) \subseteq V
      /\ Layer("benefits", h) \subseteq V
  BY DEF Layers, Nodes
<1>2. /\ {<<"block", h>>} \cup (IF h = 0 THEN {} ELSE {<<"next", h>>}) \subseteq V
      /\ {<<"output", TxOf[h]>>} \cup LockedTo(h) \subseteq V
      /\ {<<"tx", TxOf[h]>>, <<"in", TxOf[h], h>>, <<"hasOutput", TxOf[h], 1>>} \subseteq V
      /\ {<<"input", TxOf[h]>>, <<"hasInput", TxOf[h]>>} \subseteq V
      /\ Spends[h] # None => <<"spends", TxOf[h], Spends[h]>> \in V
  BY <1>1 DEF Layer
<1>3. /\ Payer[h] # None => {<<"address", Payer[h]>>, <<"performs", Payer[h], TxOf[h]>>} \subseteq V
      /\ Payee[h] # None => {<<"address", Payee[h]>>, <<"benefits", TxOf[h], Payee[h]>>} \subseteq V
  BY <1>1 DEF Layer
<1> QED
  BY <1>2, <1>3 DEF FactsOf

\* A query writes its layer when the nodes it starts from are there.
LEMMA EffectGivesLayer ==
  ASSUME NEW q \in Queries, NEW h \in Heights, NEW V, NEW view, view \subseteq V,
         q \in {"outputs", "lockedTo"} \/ view = V,
         q = "blocks" => h = 0 \/ <<"block", h - 1>> \in V,
         q = "outputs" => Fast(q) \/ Payee[h] = None,
         q = "lockedTo" => <<"output", TxOf[h]>> \in V,
         q = "transactions" => <<"block", h>> \in V,
         q = "hasOutput" => <<"tx", TxOf[h]>> \in V /\ <<"output", TxOf[h]>> \in V /\ Sound(V),
         q \in {"inputs", "performs", "benefits"} => <<"tx", TxOf[h]>> \in V,
         q = "inputs" /\ Spends[h] # None => <<"output", Spends[h]>> \in V
  PROVE  Layer(LayerOf(q), h) \subseteq V \cup Effect(q, h, view)
<1>1. CASE q = "blocks"
  BY <1>1 DEF Layer, LayerOf, Effect, Linked
<1>2. CASE q = "outputs"
  BY <1>2 DEF Layer, LayerOf, Effect, LockedTo
<1>3. CASE q = "lockedTo"
  BY <1>3 DEF Layer, LayerOf, Effect
<1>4. CASE q = "transactions"
  BY <1>4 DEF Layer, LayerOf, Effect, Linked
<1>5. CASE q = "hasOutput"
  <2> DEFINE there == {g \in V : g[1] = "hasOutput" /\ g[2] = TxOf[h]}
  <2>1. CASE there = {}
    <3>1. HasOutput(TxOf[h], V) = {<<"hasOutput", TxOf[h], 0 + 1>>}
      BY <2>1, <1>5, FS_EmptySet DEF HasOutput, Linked
    <3> QED
      BY <3>1, <1>5 DEF Layer, LayerOf, Effect
  <2>2. CASE there # {}
    <3>1. PICK g \in V : g[1] = "hasOutput" /\ g[2] = TxOf[h]
      BY <2>2
    <3>2. <<"hasOutput", TxOf[h], 1>> \in V
      BY <3>1, <1>5 DEF Sound
    <3> QED
      BY <3>2, <1>5 DEF Layer, LayerOf
  <2> QED
    BY <2>1, <2>2
<1>6. CASE q = "inputs"
  BY <1>6 DEF Layer, LayerOf, Effect, Linked, SpendsOutput
<1>7. CASE q = "performs"
  BY <1>7 DEF Layer, LayerOf, Effect, Linked
<1>8. CASE q = "benefits"
  BY <1>8 DEF Layer, LayerOf, Effect
<1> QED
  BY <1>1, <1>2, <1>3, <1>4, <1>5, <1>6, <1>7, <1>8 DEF Queries, Creating

\* A query leaves no fact whose nodes are missing.
LEMMA EffectSound ==
  ASSUME NEW q \in Queries, NEW h \in Heights, NEW V, NEW view, view \subseteq V, Sound(view), Sound(V),
         q = "transactions" => OutputsTo(h, V)
  PROVE  Sound(V \cup Effect(q, h, view))
<1> DEFINE W == V \cup Effect(q, h, view)
<1>1. ASSUME NEW k \in Heights, <<"in", TxOf[k], k>> \in W
      PROVE  <<"block", k>> \in W /\ OutputsTo(k, W)
  <2>1. CASE <<"in", TxOf[k], k>> \in V
    BY <2>1 DEF Sound, OutputsTo
  <2>2. CASE <<"in", TxOf[k], k>> \in Effect(q, h, view)
    <3>1. q = "transactions"
      <4>1. q # "hasOutput"
        BY <2>2 DEF Effect, HasOutput, Linked
      <4> QED
        BY <2>2, <4>1 DEF Effect, Linked, LockedTo, SpendsOutput, Queries, Creating
    <3>2. <<"in", TxOf[k], k>> = <<"in", TxOf[h], h>> /\ <<"block", h>> \in view
      BY <2>2, <3>1 DEF Effect, Linked
    <3>3. k = h /\ OutputsTo(h, V)
      BY <3>1, <3>2
    <3> QED
      BY <3>2, <3>3 DEF OutputsTo
  <2> QED
    BY <1>1, <2>1, <2>2
<1>2. ASSUME NEW f \in W, f[1] = "hasOutput"
      PROVE  <<"hasOutput", f[2], 1>> \in W
  <2>1. CASE f \in V
    BY <1>2, <2>1 DEF Sound
  <2>2. CASE f \in Effect(q, h, view)
    <3>1. CASE f = <<"hasOutput", TxOf[h], 1>>
      BY <2>2, <3>1
    <3>2. CASE \E g \in view : g[1] = "hasOutput" /\ g[2] = TxOf[h] /\ f[2] = TxOf[h]
      BY <3>2 DEF Sound
    <3> QED
      BY <1>2, <2>2, <3>1, <3>2, EffectHasOutput
  <2> QED
    BY <2>1, <2>2
<1> QED
  BY <1>1, <1>2 DEF Sound

\* No task writes an inclusion or HAS_OUTPUT.
LEMMA TaskSound ==
  ASSUME ShapeInv, NEW b \in 1 .. Buckets, tasks[b].do \in {"performs", "benefits"},
         NEW V, NEW view, Sound(V)
  PROVE  Sound(V \cup TaskEffect(b, view))
<1>1. ASSUME NEW f \in TaskEffect(b, view)
      PROVE  f[1] \in {"address", "performs", "benefits"}
  <2>1. PICK h : f \in Effect(tasks[b].do, h, view)
    BY DEF TaskEffect
  <2>2. CASE tasks[b].do = "performs"
    BY <2>1, <2>2 DEF Effect, Linked
  <2>3. CASE tasks[b].do = "benefits"
    BY <2>1, <2>3 DEF Effect
  <2> QED
    BY <2>2, <2>3
<1>2. \A h : <<"in", TxOf[h], h>> \notin TaskEffect(b, view)
  <2> SUFFICES ASSUME NEW h, <<"in", TxOf[h], h>> \in TaskEffect(b, view) PROVE FALSE
    OBVIOUS
  <2>1. <<"in", TxOf[h], h>>[1] = "in"
    OBVIOUS
  <2> QED
    BY <2>1, <1>1
<1> QED
  BY <1>1, <1>2 DEF Sound, OutputsTo

\* After a restart: what was rolled back had no transaction included.
LEMMA LaunchSound ==
  ASSUME ShapeInv, Launch, Sound(durable)
  PROVE  Sound(durable')
<1>1. PICK highest \in Kept :
        /\ \A h \in Kept : h <= highest
        /\ durable' = RolledBack({h \in StoredAbove : h > highest})
  BY DEF Launch
<1> DEFINE H == {h \in StoredAbove : h > highest}
<1>2. /\ highest \in Int
      /\ \A h \in H : h \in Int /\ h \in Heights /\ h > highest
  BY WriterAssumption DEF Kept, StoredAbove, Heights, ShapeInv, TypeInv
<1>3. \A h \in H : <<"in", TxOf[h], h>> \notin durable
  <2> SUFFICES ASSUME NEW h \in H, <<"in", TxOf[h], h>> \in durable PROVE FALSE
    OBVIOUS
  <2>1. h \in Kept
    BY DEF Kept, BlockComplete
  <2> QED
    BY <2>1, <1>1, <1>2
<1>4. \A f \in durable' : f \in durable
  BY <1>1 DEF RolledBack
<1>5. \A f \in durable : f[1] # "block" /\ f[1] # "next" => f \in durable'
  BY <1>1 DEF RolledBack
<1>6. ASSUME NEW h \in Heights, <<"in", TxOf[h], h>> \in durable'
      PROVE  <<"block", h>> \in durable' /\ OutputsTo(h, durable')
  <2>1. <<"block", h>> \in durable /\ h \notin H /\ OutputsTo(h, durable)
    BY <1>3, <1>4, <1>6 DEF Sound
  <2>2. <<"block", h>>[1] = "block" /\ <<"block", h>>[2] = h
    OBVIOUS
  <2>3. <<"block", h>> \in durable'
    BY <1>1, <2>1, <2>2 DEF RolledBack
  <2>4. \A k : <<"output", TxOf[k]>>[1] = "output"
    OBVIOUS
  <2>5. OutputsTo(h, durable')
    BY <1>5, <2>1, <2>4 DEF OutputsTo
  <2> QED
    BY <2>3, <2>5
<1>7. ASSUME NEW f \in durable', f[1] = "hasOutput"
      PROVE  <<"hasOutput", f[2], 1>> \in durable'
  <2>1. <<"hasOutput", f[2], 1>> \in durable
    BY <1>4, <1>7 DEF Sound
  <2>2. <<"hasOutput", f[2], 1>>[1] = "hasOutput"
    OBVIOUS
  <2> QED
    BY <2>1, <2>2, <1>5
<1> QED
  BY <1>6, <1>7 DEF Sound

\* When the transactions or the inputs of a block are written, the outputs up to
\* that block are there: in this chunk, or below it.
LEMMA OutputsThere ==
  ASSUME ShapeInv, Progress, CheckpointThere, pc \in {"transactions", "inputs"}, at \in Chunk
  PROVE  OutputsTo(at, Written)
<1>1. /\ ChunkShape /\ First = checkpoint + 1 /\ at \in Heights /\ checkpoint \in -1 .. MaxHeight
      /\ MaxHeight \in Nat
  BY Here, WriterAssumption DEF ShapeInv, TypeInv, PlaceInv, ChunkShape, Phases, Queries, Creating
<1>2. ASSUME NEW k \in Heights, k <= at
      PROVE  <<"output", TxOf[k]>> \in Written
  <2>1. CASE k \in Chunk
    <3>1. Layer("outputs", k) \subseteq Written
      BY <2>1 DEF Progress, Phases, Queries, Creating, Before
    <3> QED
      BY <3>1 DEF Layer
  <2>2. CASE k \notin Chunk
    <3>1. k <= checkpoint
      BY <1>1, <1>2, <2>2 DEF ChunkShape, Heights
    <3> QED
      BY <3>1 DEF CheckpointThere, OutputsTo, Written
  <2> QED
    BY <2>1, <2>2
<1> QED
  BY <1>2 DEF OutputsTo

\* Every step keeps the graph and the transaction free of such facts.
LEMMA NextSound ==
  ASSUME ShapeInv, Sound(durable), Sound(Written), Progress, CheckpointThere, [Next]_vars
  PROVE  Sound(durable') /\ Sound(Written')
<1>1. CASE Quiet
  <2>1. Sound(durable')
    BY <1>1, LaunchSound DEF Quiet
  <2>2. CASE txn'.facts = {}
    BY <2>1, <2>2 DEF Written
  <2>3. CASE durable' = durable
    BY <1>1, <2>2, <2>3 DEF Quiet, Written
  <2>4. CASE Launch
    <3>1. txn = NoTxn /\ txn' = txn
      BY <2>4 DEF Launch, ShapeInv, TxnInv, Phases, Queries, Creating
    <3> QED
      BY <3>1, <2>2 DEF NoTxn
  <2> QED
    BY <1>1, <2>1, <2>3, <2>4 DEF Quiet
<1>2. CASE Commits
  BY <1>2 DEF Commits, Written
<1>3. CASE WritesOne
  <2>1. pc \in Queries /\ at \in Heights
    BY <1>3, Here DEF WritesOne, ChunkShape, Phases
  <2>0. pc = "transactions" => OutputsTo(at, Written)
    BY <1>3, OutputsThere DEF WritesOne
  <2>2. CASE AutoCommits(pc)
    <3> DEFINE F == Effect(pc, at, durable)
    <3>1. durable' = durable \cup F /\ Written' = Written \cup F
      BY <1>3, <2>2 DEF WritesOne, Adds, Written
    <3>3. pc = "transactions" => Written = durable
      BY <2>2 DEF AutoCommits, ShapeInv, TxnInv, NoTxn, Written
    <3>2. Sound(durable \cup F) /\ Sound(Written \cup F)
      BY <2>0, <2>1, <3>3, EffectSound DEF Written
    <3> QED
      BY <3>1, <3>2
  <2>3. CASE ~ AutoCommits(pc)
    <3> DEFINE F == Effect(pc, at, Written)
    <3>1. durable' = durable /\ Written' = Written \cup F
      BY <1>3, <2>3 DEF WritesOne, Adds, Written
    <3>2. Sound(Written \cup F)
      BY <2>0, <2>1, EffectSound
    <3> QED
      BY <3>1, <3>2
  <2> QED
    BY <2>2, <2>3
<1>4. CASE WritesTask
  <2>1. PICK b \in 1 .. Buckets :
          /\ tasks[b].do \in {"performs", "benefits"}
          /\ Adds(tasks[b].via = "auto", LAMBDA view : TaskEffect(b, view))
    BY <1>4 DEF WritesTask
  <2>2. CASE tasks[b].via = "auto"
    <3> DEFINE F == TaskEffect(b, durable)
    <3>1. durable' = durable \cup F /\ Written' = Written \cup F
      BY <2>1, <2>2 DEF Adds, Written
    <3>2. Sound(durable \cup F) /\ Sound(Written \cup F)
      BY <2>1, TaskSound
    <3> QED
      BY <3>1, <3>2
  <2>3. CASE tasks[b].via # "auto"
    <3> DEFINE F == TaskEffect(b, Written)
    <3>1. durable' = durable /\ Written' = Written \cup F
      BY <2>1, <2>3 DEF Adds, Written
    <3>2. Sound(Written \cup F)
      BY <2>1, TaskSound
    <3> QED
      BY <3>1, <3>2
  <2> QED
    BY <2>2, <2>3
<1> QED
  BY <1>1, <1>2, <1>3, <1>4, StepFacts

\* The nodes that the query of this phase starts from are there.
LEMMA NodesThere ==
  ASSUME ShapeInv, Sound(Written), Progress, CheckpointThere, pc \in Queries, at \in Chunk
  PROVE  /\ pc = "blocks" => at = 0 \/ <<"block", at - 1>> \in Written
         /\ pc = "lockedTo" => <<"output", TxOf[at]>> \in Written
         /\ pc = "transactions" => <<"block", at>> \in Written
         /\ pc = "hasOutput" => <<"tx", TxOf[at]>> \in Written /\ <<"output", TxOf[at]>> \in Written
         /\ pc \in {"inputs", "performs", "benefits"} => <<"tx", TxOf[at]>> \in Written
         /\ pc = "inputs" /\ Spends[at] # None => <<"output", Spends[at]>> \in Written
<1>1. /\ ChunkShape /\ First = checkpoint + 1 /\ at \in Heights /\ checkpoint \in -1 .. MaxHeight
      /\ MaxHeight \in Nat
  BY Here, WriterAssumption DEF ShapeInv, TypeInv, PlaceInv, ChunkShape, Phases
<1>2. \A q \in Before(pc) : Layer(q, at) \subseteq Written
  BY DEF Progress, Phases, Queries, Creating
<1>3. ASSUME pc = "blocks" PROVE at = 0 \/ <<"block", at - 1>> \in Written
  <2>1. CASE at = First
    BY <2>1, <1>1 DEF CheckpointThere, Written, Heights
  <2>2. CASE at # First
    <3>1. at - 1 \in Chunk /\ at - 1 < at
      BY <2>2, <1>1 DEF ChunkShape, Heights
    <3>2. Layer("blocks", at - 1) \subseteq Written
      BY <3>1, <1>3 DEF Progress, Phases, Queries, Creating, LayerOf
    <3> QED
      BY <3>2 DEF Layer
  <2> QED
    BY <2>1, <2>2
<1>4. pc = "lockedTo" => <<"output", TxOf[at]>> \in Written
  BY DEF Progress, Phases, Queries, Creating
<1>5. ASSUME pc = "transactions" PROVE <<"block", at>> \in Written
  <2>1. Layer("blocks", at) \subseteq Written
    BY <1>2, <1>5 DEF Before
  <2> QED
    BY <2>1 DEF Layer
<1>6. ASSUME pc \in {"hasOutput", "inputs", "performs", "benefits"}
      PROVE  <<"tx", TxOf[at]>> \in Written /\ <<"output", TxOf[at]>> \in Written
  <2>1. Layer("transactions", at) \subseteq Written /\ Layer("outputs", at) \subseteq Written
    BY <1>2, <1>6 DEF Before, Nodes
  <2> QED
    BY <2>1 DEF Layer
<1>7. ASSUME pc = "inputs", Spends[at] # None
      PROVE  <<"output", Spends[at]>> \in Written
  <2>1. PICK k \in Heights : k < at /\ TxOf[k] = Spends[at]
    BY <1>1, <1>7, WriterAssumption
  <2>2. k <= at
    BY <1>1, <2>1 DEF Heights
  <2> QED
    BY <1>7, <2>1, <2>2, OutputsThere DEF OutputsTo
<1> QED
  BY <1>3, <1>4, <1>5, <1>6, <1>7

\* The next phase, when the last block of this one is written.
LEMMA AfterPhase ==
  ASSUME ShapeInv, Progress, pc \in Queries, Chunk \subseteq Heights,
         NEW W, Written \subseteq W,
         \A h \in Chunk : Layer(LayerOf(pc), h) \subseteq W,
         mode = "single" => Chunk = {at}
  PROVE  \A q \in Before(After[pc]) : \A h \in Chunk : Layer(q, h) \subseteq W
<1>1. \A q \in Before(pc) : \A h \in Chunk : Layer(q, h) \subseteq W
  BY DEF Progress, Phases, Queries, Creating
<1>2. ASSUME mode = "single", Payer[at] = None
      PROVE  \A h \in Chunk : Layer("performs", h) \subseteq W
  BY <1>2 DEF Layer
<1>3. ASSUME mode = "single", Payee[at] = None
      PROVE  \A h \in Chunk : Layer("benefits", h) \subseteq W
  BY <1>3 DEF Layer
<1>4. mode = "batch" => pc \notin {"performs", "benefits"}
  BY DEF ShapeInv, PlaceInv
<1>5. CASE pc = "blocks"
  BY <1>1, <1>5 DEF After, Before, LayerOf
<1>6. CASE pc \in {"outputs", "lockedTo"}
  BY <1>1, <1>6 DEF After, Before, LayerOf
<1>7. CASE pc = "transactions"
  BY <1>1, <1>7 DEF After, Before, LayerOf
<1>8. CASE pc = "hasOutput"
  BY <1>1, <1>8 DEF After, Before, LayerOf
<1>9. CASE pc = "inputs"
  <2>1. \A q \in Nodes : \A h \in Chunk : Layer(q, h) \subseteq W
    BY <1>1, <1>9 DEF Before, LayerOf, Nodes
  <2>2. CASE mode = "batch"
    BY <2>1, <2>2, <1>9 DEF After, Before
  <2>3. CASE mode = "single"
    <3>1. CASE Payer[at] # None
      BY <2>1, <2>3, <3>1, <1>9 DEF After, Before, Simplified
    <3>2. CASE Payer[at] = None /\ Payee[at] # None
      BY <2>1, <2>3, <3>2, <1>2, <1>9 DEF After, Before, Simplified
    <3>3. CASE Payer[at] = None /\ Payee[at] = None
      BY <2>1, <2>3, <3>3, <1>2, <1>3, <1>9 DEF After, Before, Simplified, Layers
    <3> QED
      BY <3>1, <3>2, <3>3
  <2> QED
    BY <2>2, <2>3 DEF ShapeInv, TypeInv
<1>10. CASE pc = "performs"
  <2>1. \A q \in Nodes \cup {"performs"} : \A h \in Chunk : Layer(q, h) \subseteq W
    BY <1>1, <1>10 DEF Before, LayerOf
  <2>2. mode = "single"
    BY <1>4, <1>10 DEF ShapeInv, TypeInv
  <2>3. CASE Payee[at] # None
    BY <2>1, <2>3, <1>10 DEF After, Before, Simplified
  <2>4. CASE Payee[at] = None
    BY <2>1, <2>2, <2>4, <1>3, <1>10 DEF After, Before, Simplified, Layers
  <2> QED
    BY <2>3, <2>4
<1>11. CASE pc = "benefits"
  BY <1>1, <1>11 DEF After, Before, LayerOf, Layers
<1> QED
  BY <1>5, <1>6, <1>7, <1>8, <1>9, <1>10, <1>11 DEF Queries, Creating

\* A query completes its layer of its block, and the last one its phase.
LEMMA WriteProgress ==
  ASSUME ShapeInv, Sound(Written), Progress, CheckpointThere, Write
  PROVE  Progress'
<1> DEFINE auto == AutoCommits(pc)
           F == Effect(pc, at, View(auto))
<1>1. /\ pc \in Queries /\ at \in Chunk /\ ChunkShape /\ at \in Heights
      /\ Chunk' = Chunk /\ First' = First
      /\ auto \in BOOLEAN /\ (~ auto => txn.open) /\ TxnInv
      /\ mode \in {"batch", "single"}
  BY Here, SameChunk
     DEF Write, AutoCommits, ShapeInv, TypeInv, PlaceInv, ChunkShape, Phases, loopVars, fixed
<1>2. CASE Collides(pc, at, View(auto))
  <2>1. pc' \in {"rollback", "exit"}
    BY <1>2 DEF Write, Failed
  <2> QED
    BY <2>1 DEF Progress, Phases, Queries, Creating
<1>3. CASE ~ Collides(pc, at, View(auto))
  <2>1. Apply(auto, F) /\ Advance
    BY <1>3 DEF Write
  <2>2. /\ View(auto) \subseteq Written
        /\ pc \in {"outputs", "lockedTo"} \/ View(auto) = Written
    BY <1>1 DEF AutoCommits, View, Written, TxnInv, NoTxn
  <2>3. Written' = Written \cup F
    <3> HIDE DEF auto, F
    <3>1. /\ auto => durable' = durable \cup F /\ txn' = txn
          /\ ~ auto => durable' = durable /\ txn'.facts = txn.facts \cup F
      BY <1>1, <2>1, ApplyTxn
    <3> QED
      BY <1>1, <3>1 DEF Written
  <2>4. /\ pc = "blocks" => at = 0 \/ <<"block", at - 1>> \in Written
        /\ pc = "lockedTo" => <<"output", TxOf[at]>> \in Written
        /\ pc = "transactions" => <<"block", at>> \in Written
        /\ pc = "hasOutput" => <<"tx", TxOf[at]>> \in Written /\ <<"output", TxOf[at]>> \in Written
        /\ pc \in {"inputs", "performs", "benefits"} => <<"tx", TxOf[at]>> \in Written
        /\ pc = "inputs" /\ Spends[at] # None => <<"output", Spends[at]>> \in Written
    <3>1. pc \in Queries /\ at \in Chunk
      BY <1>1
    <3> HIDE DEF auto, F
    <3> QED
      BY <3>1, NodesThere, Zenon
  <2>5. ~ (pc = "outputs" /\ ~ Fast("outputs") /\ Payee[at] # None)
          => Layer(LayerOf(pc), at) \subseteq Written'
    BY <1>1, <2>2, <2>3, <2>4, EffectGivesLayer
  <2>6. /\ \A h \in Chunk : h < at => Layer(LayerOf(pc), h) \subseteq Written'
        /\ \A q \in Before(pc) : \A h \in Chunk : Layer(q, h) \subseteq Written'
    BY <1>1, <2>3 DEF Progress, Phases, Queries, Creating
  <2>7. CASE pc = "outputs" /\ ~ Fast("outputs") /\ Payee[at] # None
    <3>1. pc' = "lockedTo" /\ at' = at
      BY <2>1, <2>7 DEF Advance
    <3>2. <<"output", TxOf[at]>> \in Written'
      BY <2>3, <2>7 DEF Effect
    <3> QED
      BY <1>1, <2>6, <2>7, <3>1, <3>2 DEF Progress, Before, LayerOf
  <2>8. CASE ~ (pc = "outputs" /\ ~ Fast("outputs") /\ Payee[at] # None) /\ at < Last
    <3>1. pc' = (IF pc = "lockedTo" THEN "outputs" ELSE pc) /\ at' = at + 1
      BY <2>1, <2>8 DEF Advance
    <3>2. /\ Before(pc') = Before(pc) /\ LayerOf(pc') = LayerOf(pc)
          /\ pc' # "lockedTo" /\ pc' # "await"
      BY <1>1, <3>1 DEF Before, LayerOf, Queries, Creating
    <3>3. \A h \in Chunk : h < at' => h < at \/ h = at
      BY <1>1, <3>1 DEF Heights
    <3> QED
      BY <1>1, <2>5, <2>6, <2>8, <3>2, <3>3 DEF Progress
  <2>9. CASE ~ (pc = "outputs" /\ ~ Fast("outputs") /\ Payee[at] # None) /\ ~ at < Last
    <3>1. pc' = After[pc] /\ at' = First
      BY <2>1, <2>9 DEF Advance
    <3>2. \A h \in Chunk : h < at \/ h = at
      BY <1>1, <2>9 DEF ChunkShape, Heights
    <3>3. \A h \in Chunk : Layer(LayerOf(pc), h) \subseteq Written'
      BY <2>5, <2>6, <2>9, <3>2
    <3>4. mode = "single" => Chunk = {at}
      BY <1>1 DEF ChunkShape
    <3>5. Written \subseteq Written' /\ Chunk \subseteq Heights
      BY <1>1, <2>3 DEF ChunkShape
    <3>6. \A q \in Before(pc') : \A h \in Chunk : Layer(q, h) \subseteq Written'
      BY <1>1, <3>1, <3>3, <3>4, <3>5, AfterPhase
    <3>7. \A h \in Chunk : ~ h < at'
      BY <1>1, <3>1 DEF ChunkShape, Heights
    <3>8. pc' # "lockedTo" /\ pc' # "await"
      BY <1>1, <3>1 DEF After, Queries, Creating
    <3> QED
      BY <1>1, <3>6, <3>7, <3>8 DEF Progress
  <2> QED
    BY <2>7, <2>8, <2>9
<1> QED
  BY <1>2, <1>3

\* A step within a phase that adds facts at most.
LEMMA SameProgress ==
  ASSUME Progress, UNCHANGED <<pc, at, tasks>>, Chunk' = Chunk, Written \subseteq Written'
  PROVE  Progress'
<1>1. \A q, b : Work(q, b)' = Work(q, b)
  BY DEF Work
<1> QED
  BY <1>1 DEF Progress

\* A task's layers, when its step leaves it with t.
LEMMA TaskProgress ==
  ASSUME ShapeInv, Progress, NEW b \in 1 .. Buckets, NEW t,
         tasks' = [tasks EXCEPT ![b] = t],
         UNCHANGED <<pc, at>>, Chunk' = Chunk, Written \subseteq Written',
         pc = "await" /\ t.ok =>
           /\ t.do # "performs" => \A h \in Work("performs", b) : Layer("performs", h) \subseteq Written'
           /\ t.do = "end" => \A h \in Work("benefits", b) : Layer("benefits", h) \subseteq Written'
  PROVE  Progress'
<1>1. \A q, c : Work(q, c)' = Work(q, c)
  BY DEF Work
<1>2. \A c \in 1 .. Buckets : tasks'[c] = IF c = b THEN t ELSE tasks[c]
  BY DEF ShapeInv, TypeInv
<1> QED
  BY <1>1, <1>2 DEF Progress

\* A write of a task completes its layer of the bucket.
LEMMA TaskWritesProgress ==
  ASSUME ShapeInv, Progress, NEW b \in 1 .. Buckets, TaskWrites(b)
  PROVE  Progress'
<1>1. /\ TxnInv /\ tasks[b] \in Task /\ None \notin {"txn", "auto"}
      /\ tasks[b].via # None => tasks[b].do # "end"
      /\ tasks[b].via = "auto" => ~ txn.open
      /\ pc = "await" => txn.open /\ ChunkShape
  BY Here, WriterAssumption DEF ShapeInv, TypeInv, TaskInv, TxnInv, PlaceInv, Phases
<1>2. /\ UNCHANGED <<pc, at>> /\ Chunk' = Chunk
      /\ tasks' = [tasks EXCEPT ![b] = TaskAfter(b)]
      /\ tasks[b].do \in {"performs", "benefits"}
  BY <1>1, SameChunk DEF TaskWrites, Task, loopVars, queryVars, fixed
<1> DEFINE auto == tasks[b].via = "auto"
           F == TaskEffect(b, View(auto))
<1>3. /\ Written' = Written \cup F
      /\ pc = "await" => View(auto) = Written
  <2>1. Apply(auto, F) /\ (~ auto => txn.open) /\ auto \in BOOLEAN
    BY DEF TaskWrites
  <2>2. pc = "await" => View(auto) = Written
    BY <1>1 DEF View, Written
  <2> HIDE DEF auto, F
  <2>3. /\ auto => durable' = durable \cup F /\ txn' = txn
        /\ ~ auto => durable' = durable /\ txn'.facts = txn.facts \cup F
    BY <2>1, <1>1, ApplyTxn
  <2> QED
    BY <2>1, <2>2, <2>3 DEF Written
<1>4. ASSUME pc = "await", NEW h \in Work(tasks[b].do, b)
      PROVE  Layer(tasks[b].do, h) \subseteq Written'
  <2> DEFINE q == tasks[b].do
  <2>1. h \in Chunk /\ h \in Heights
    BY <1>1, <1>4 DEF Work, ChunkShape
  <2>2. <<"tx", TxOf[h]>> \in Written
    <3>1. Layer("transactions", h) \subseteq Written
      BY <1>4, <2>1 DEF Progress, Phases, Before, Nodes
    <3> QED
      BY <3>1 DEF Layer
  <2>3. Layer(LayerOf(q), h) \subseteq Written \cup Effect(q, h, Written)
    BY <1>2, <2>1, <2>2, EffectGivesLayer DEF Queries
  <2>4. Effect(q, h, Written) \subseteq F
    BY <1>3, <1>4 DEF TaskEffect
  <2>5. LayerOf(q) = q
    BY <1>2 DEF LayerOf
  <2> QED
    BY <1>3, <2>3, <2>4, <2>5
<1>5. ASSUME pc = "await", TaskAfter(b).ok
      PROVE  /\ \A h \in Work("performs", b) : Layer("performs", h) \subseteq Written'
             /\ TaskAfter(b).do = "end" => \A h \in Work("benefits", b) : Layer("benefits", h) \subseteq Written'
  <2>1. CASE tasks[b].do = "performs"
    <3>1. TaskAfter(b).do = "end" => Work("benefits", b) = {}
      BY <2>1 DEF TaskAfter, TaskAt
    <3> QED
      BY <1>4, <1>5, <2>1, <3>1
  <2>2. CASE tasks[b].do = "benefits"
    <3>1. tasks[b].ok
      BY <2>2 DEF ShapeInv, TaskInv
    <3>2. \A h \in Work("performs", b) : Layer("performs", h) \subseteq Written
      BY <3>1, <1>5, <2>2 DEF Progress, Phases
    <3> QED
      BY <1>3, <1>4, <1>5, <2>2, <3>2
  <2> QED
    BY <1>2, <2>1, <2>2
<1> HIDE DEF F
<1> QED
  BY <1>2, <1>3, <1>5, TaskProgress

\* All tasks have ended well, so every block of the chunk has its PERFORMS and
\* BENEFITS_TO.
LEMMA AwaitProgress ==
  ASSUME ShapeInv, Progress, Await
  PROVE  Progress'
<1>1. /\ pc = "await" /\ awaiting \in 1 .. Buckets /\ tasks[awaiting].do = "end"
      /\ UNCHANGED <<durable, txn, at, tasks>> /\ Chunk' = Chunk /\ Written' = Written
      /\ ChunkShape
  BY Here, SameChunk
     DEF Await, ShapeInv, TaskInv, Phases, Written, graphVars, loopVars, queryVars, fixed
<1>2. CASE pc' = "rollback"
  BY <1>2 DEF Progress, Phases, Queries, Creating
<1>3. CASE pc' = pc
  BY <1>1, <1>3, SameProgress
<1>4. CASE pc' = "checkpoint"
  <2>1. tasks[awaiting].ok /\ awaiting = Buckets
    BY <1>1, <1>4, WriterAssumption DEF Await
  <2>2. \A b \in 1 .. Buckets : tasks[b].do = "end" /\ tasks[b].ok
    <3>1. \A b \in 1 .. Buckets : b \in 1 .. awaiting - 1 \/ b = awaiting
      BY <2>1, WriterAssumption
    <3> QED
      BY <3>1, <2>1, <1>1 DEF ShapeInv, TaskInv
  <2>3. ASSUME NEW h \in Chunk
        PROVE  Layer("performs", h) \subseteq Written /\ Layer("benefits", h) \subseteq Written
    <3>1. h \in Heights
      BY <1>1 DEF ChunkShape
    <3>2. ASSUME Payer[h] # None
          PROVE  Layer("performs", h) \subseteq Written
      <4>1. BucketOf[Payer[h]] \in 1 .. Buckets /\ h \in Work("performs", BucketOf[Payer[h]])
        BY <3>1, <3>2, WriterAssumption DEF Work
      <4> QED
        BY <4>1, <2>2, <1>1 DEF Progress, Phases
    <3>3. ASSUME Payee[h] # None
          PROVE  Layer("benefits", h) \subseteq Written
      <4>1. BucketOf[Payee[h]] \in 1 .. Buckets /\ h \in Work("benefits", BucketOf[Payee[h]])
        BY <3>1, <3>3, WriterAssumption DEF Work
      <4> QED
        BY <4>1, <2>2, <1>1 DEF Progress, Phases
    <3>4. /\ Payer[h] = None => Layer("performs", h) = {}
          /\ Payee[h] = None => Layer("benefits", h) = {}
      BY DEF Layer
    <3>5. Layer("performs", h) \subseteq Written
      BY <3>2, <3>4
    <3>6. Layer("benefits", h) \subseteq Written
      BY <3>3, <3>4
    <3> QED
      BY <3>5, <3>6
  <2>4. \A q \in Nodes : \A h \in Chunk : Layer(q, h) \subseteq Written
    BY <1>1 DEF Progress, Phases, Before
  <2>5. \A q \in Before(pc') : \A h \in Chunk : Layer(q, h) \subseteq Written
    BY <1>4, <2>3, <2>4 DEF Before, Layers
  <2> QED
    BY <1>1, <1>4, <2>5 DEF Progress, Queries, Creating
<1> QED
  BY <1>2, <1>3, <1>4, <1>1 DEF Await

\* Every step keeps what is complete of the chunk.
LEMMA NextProgress ==
  ASSUME ShapeInv, ShapeInv', Sound(Written), Progress, CheckpointThere, [Next]_vars
  PROVE  Progress'
<1>1. CASE Launch \/ ScanEnds \/ BeginFails \/ Commit \/ CommitFails \/ Rollback \/ WriteFails
           \/ UpdateCheckpointFails \/ Exit \/ Crash \/ Scan
  <2>1. pc' \notin Phases \ {"rollback"}
    BY <1>1 DEF Launch, ScanEnds, BeginFails, Commit, CommitFails, Rollback, WriteFails, Failed,
                UpdateCheckpointFails, Exit, Crash, Gone, Scan, Phases, Queries, Creating
  <2> QED
    BY <2>1 DEF Progress
<1>2. CASE NextBatch \/ Begin
  <2>1. CASE pc' = "blocks"
    <3>1. at' = First' /\ Chunk' = First' .. Last' /\ Chunk' \subseteq Heights /\ First' \in Chunk'
      <4>1. ChunkShape'
        <5>1. InChunk'
          BY <2>1 DEF ShapeInv, ChunkInv, InChunk, TypeInv, Phases, Queries, Creating
        <5> QED
          BY <5>1, ChunkFactsNext DEF ShapeInv
      <4>2. CASE Begin
        <5>1. First' = First
          BY <4>2, SameChunk DEF Begin, loopVars, fixed
        <5> QED
          BY <4>1, <4>2, <5>1 DEF Begin, ChunkShape
      <4>3. CASE NextBatch
        BY <4>1, <4>3, <2>1 DEF NextBatch, ChunkShape, fixed
      <4> QED
        BY <1>2, <4>2, <4>3
    <3>2. \A h \in Chunk' : ~ h < at'
      <4>1. ASSUME NEW h \in Chunk'
            PROVE  ~ h < at'
        <5>1. h \in First' .. Last' /\ at' = First'
          BY <3>1
        <5>2. First' \in Int
          BY <3>1, WriterAssumption DEF Heights
        <5> QED
          BY <5>1, <5>2
      <4> QED
        BY <4>1
    <3> QED
      BY <2>1, <3>2 DEF Progress, Before
  <2>2. CASE pc' = "cut"
    BY <2>2 DEF Progress, Phases, Queries, Creating
  <2> QED
    BY <1>2, <2>1, <2>2 DEF NextBatch, Begin
<1>3. CASE Write
  BY <1>3, WriteProgress
<1>4. CASE AttemptFails
  <2>1. Chunk' = Chunk /\ Written \subseteq Written' /\ UNCHANGED <<at, tasks>>
    BY <1>4, SameChunk DEF AttemptFails, Apply, Written, loopVars, taskVars, fixed
  <2>2. CASE pc' = pc
    BY <2>1, <2>2, SameProgress
  <2>3. CASE pc' \in {"rollback", "exit"}
    BY <2>3 DEF Progress, Phases, Queries, Creating
  <2> QED
    BY <1>4, <2>2, <2>3 DEF AttemptFails, Failed
<1>5. CASE Spawn
  <2>1. /\ pc = "spawn" /\ pc' = "await" /\ Chunk' = Chunk /\ Written' = Written
        /\ tasks' = [b \in 1 .. Buckets |-> TaskAt("performs", b)]
    BY <1>5, SameChunk DEF Spawn, Written, graphVars, loopVars, fixed
  <2>2. \A q, b : Work(q, b)' = Work(q, b)
    BY <2>1 DEF Work
  <2>3. \A b \in 1 .. Buckets :
          /\ tasks'[b].do # "performs" => Work("performs", b) = {}
          /\ tasks'[b].do = "end" => Work("benefits", b) = {}
    BY <2>1 DEF TaskAt
  <2>4. \A q \in Before(pc') : \A h \in Chunk : Layer(q, h) \subseteq Written
    BY <2>1 DEF Progress, Phases, Before
  <2> QED
    BY <2>1, <2>2, <2>3, <2>4 DEF Progress, Queries, Creating
<1>6. CASE Await
  BY <1>6, AwaitProgress
<1>7. CASE UpdateCheckpoint
  <2>1. /\ pc = "checkpoint" /\ pc' \in {"commit", "next"} /\ Chunk' = Chunk /\ Written' = Written
    BY <1>7, SameChunk DEF UpdateCheckpoint, Written, fixed, ShapeInv, TxnInv
  <2>2. Before("commit") = Before("checkpoint")
    BY DEF Before
  <2> QED
    BY <2>1, <2>2 DEF Progress, Phases, Queries, Creating
<1>8. ASSUME NEW b \in 1 .. Buckets, TaskLooks(b)
      PROVE  Progress'
  <2> DEFINE t == [tasks[b] EXCEPT !.via = IF txn.open THEN "txn" ELSE "auto"]
  <2>1. tasks' = [tasks EXCEPT ![b] = t] /\ tasks[b] \in Task
    BY <1>8 DEF TaskLooks, ShapeInv, TypeInv
  <2>2. t.do = tasks[b].do /\ t.ok = tasks[b].ok
    BY <2>1 DEF Task
  <2> HIDE DEF t
  <2>3. UNCHANGED <<pc, at>> /\ Chunk' = Chunk /\ Written' = Written
    BY <1>8, SameChunk DEF TaskLooks, Written, graphVars, loopVars, queryVars, fixed
  <2>4. pc = "await" /\ t.ok =>
          /\ t.do # "performs" => \A h \in Work("performs", b) : Layer("performs", h) \subseteq Written'
          /\ t.do = "end" => \A h \in Work("benefits", b) : Layer("benefits", h) \subseteq Written'
    BY <2>2, <2>3 DEF Progress, Phases
  <2> QED
    BY <2>1, <2>3, <2>4, TaskProgress
<1>9. ASSUME NEW b \in 1 .. Buckets, TaskFindsClosed(b) \/ TaskFails(b)
      PROVE  Progress'
  <2> DEFINE t == [Idle EXCEPT !.ok = FALSE]
  <2>1. tasks' = [tasks EXCEPT ![b] = t] /\ ~ t.ok
    BY <1>9 DEF TaskFindsClosed, TaskFails, TaskEndsFailed, Idle
  <2> HIDE DEF t
  <2>2. UNCHANGED <<pc, at>> /\ Chunk' = Chunk
    BY <1>9, SameChunk DEF TaskFindsClosed, TaskFails, loopVars, queryVars, fixed
  <2>3. Written \subseteq Written'
    BY <1>9 DEF TaskFindsClosed, TaskFails, Apply, Written, graphVars
  <2> QED
    BY <2>1, <2>2, <2>3, TaskProgress
<1>10. CASE UNCHANGED vars
  <2>1. UNCHANGED <<pc, at, tasks>> /\ Chunk' = Chunk /\ Written' = Written
    BY <1>10, SameChunk DEF vars, graphVars, loopVars, queryVars, taskVars, fixed, Written
  <2> QED
    BY <2>1, SameProgress
<1> QED
  BY <1>1, <1>2, <1>3, <1>4, <1>5, <1>6, <1>7, <1>8, <1>9, <1>10, TaskWritesProgress
     DEF Next, Process, Faults

\* The chunk that is being completed, and with it all blocks up to its last.
LEMMA ChunkWhole ==
  ASSUME ShapeInv, Progress, CheckpointedWhole, CheckpointThere, pc \in {"checkpoint", "commit"},
         durable' = Written, checkpoint' = Last, adopted' = adopted
  PROVE  CheckpointedWhole' /\ CheckpointThere'
<1>1. ChunkShape /\ First = checkpoint + 1 /\ checkpoint \in Int
  BY Here, WriterAssumption DEF ShapeInv, TypeInv, PlaceInv, Phases
<1>2. \A h \in Chunk : \A q \in Layers : Layer(q, h) \subseteq Written
  BY DEF Progress, Phases, Before
<1>3. \A h \in Chunk : FactsOf(h) \subseteq Written
  BY <1>1, <1>2, LayersAreFacts DEF ChunkShape
<1>4. \A h \in Heights : h <= Last => h <= checkpoint \/ h \in Chunk
  BY <1>1 DEF ChunkShape, Heights
<1>5. CheckpointedWhole'
  BY <1>3, <1>4 DEF CheckpointedWhole, Written
<1>6. <<"block", Last>> \in Written
  BY <1>1, <1>3 DEF ChunkShape, FactsOf
<1>7. ASSUME NEW h \in Heights, h <= Last
      PROVE  <<"output", TxOf[h]>> \in Written
  <2>1. CASE h \in Chunk
    BY <1>3, <2>1 DEF FactsOf
  <2>2. CASE h <= checkpoint
    BY <2>2 DEF CheckpointThere, OutputsTo, Written
  <2> QED
    BY <1>4, <1>7, <2>1, <2>2
<1>8. OutputsTo(Last, Written)
  BY <1>7 DEF OutputsTo
<1> QED
  BY <1>5, <1>6, <1>8 DEF CheckpointThere

\* The sync removes nothing of the blocks up to the checkpoint it leaves, and
\* raises it over none that it does not adopt.
LEMMA LaunchWhole ==
  ASSUME ShapeInv, Sound(durable), CheckpointedWhole, CheckpointThere, Launch
  PROVE  CheckpointedWhole' /\ CheckpointThere'
<1>1. PICK highest \in Kept :
        /\ \A h \in Kept : h <= highest
        /\ durable' = RolledBack({h \in StoredAbove : h > highest})
        /\ checkpoint' = highest
        /\ adopted' = adopted \cup (checkpoint + 1 .. highest)
  BY DEF Launch
<1>2. /\ highest \in Int /\ checkpoint \in Int /\ checkpoint <= highest
      /\ \A h \in StoredAbove : h \in Int
  BY <1>1, WriterAssumption DEF Kept, StoredAbove, Heights, ShapeInv, TypeInv
<1>3. ASSUME NEW h \in Heights, h <= highest, NEW f \in FactsOf(h) \cap durable
      PROVE  f \in durable'
  <2>1. CASE f[1] # "block" /\ f[1] # "next"
    BY <1>1, <1>3, <2>1 DEF RolledBack
  <2>2. CASE f[1] \in {"block", "next"}
    <3>1. f = <<"block", h>> \/ f = <<"next", h>>
      BY <1>3, <2>2 DEF FactsOf, LockedTo
    <3>2. f[2] = h
      BY <3>1
    <3>3. \A k \in StoredAbove : k > highest => h # k /\ h - 1 # k
      BY <1>2, <1>3 DEF Heights
    <3> QED
      BY <1>1, <1>3, <3>2, <3>3 DEF RolledBack
  <2> QED
    BY <2>1, <2>2
<1>4. CheckpointedWhole'
  <2> SUFFICES ASSUME NEW h \in Heights, h <= highest, h \notin adopted' PROVE FactsOf(h) \subseteq durable'
    BY <1>1 DEF CheckpointedWhole
  <2>1. h <= checkpoint /\ h \notin adopted
    BY <1>1, <1>2 DEF Heights
  <2>2. FactsOf(h) \subseteq durable
    BY <2>1 DEF CheckpointedWhole
  <2> QED
    BY <2>2, <1>3
<1>5. OutputsTo(highest, durable')
  <2>1. highest = checkpoint \/ (highest \in Heights /\ BlockComplete(highest))
    BY <1>1 DEF Kept, StoredAbove
  <2>2. OutputsTo(highest, durable)
    BY <2>1 DEF CheckpointThere, Sound, BlockComplete
  <2>3. \A k : <<"output", TxOf[k]>>[1] = "output"
    OBVIOUS
  <2> QED
    BY <1>1, <2>2, <2>3 DEF OutputsTo, RolledBack
<1>6. highest \in Heights => <<"block", highest>> \in durable'
  <2> SUFFICES ASSUME highest \in Heights PROVE <<"block", highest>> \in durable'
    OBVIOUS
  <2>1. <<"block", highest>> \in durable
    BY <1>1 DEF Kept, StoredAbove, CheckpointThere
  <2>2. <<"block", highest>> \in FactsOf(highest)
    BY DEF FactsOf
  <2> QED
    BY <2>1, <2>2, <1>2, <1>3
<1>7. CheckpointThere'
  BY <1>1, <1>5, <1>6 DEF CheckpointThere
<1> QED
  BY <1>4, <1>7

\* Every step keeps WholeInv.
LEMMA NextWhole ==
  ASSUME ShapeInv, Sound(durable), Progress, CheckpointedWhole, CheckpointThere, [Next]_vars
  PROVE  CheckpointedWhole' /\ CheckpointThere'
<1>1. CASE Launch
  BY <1>1, LaunchWhole
<1>2. CASE durable \subseteq durable' /\ checkpoint' = checkpoint /\ adopted' = adopted
  BY <1>2 DEF CheckpointedWhole, CheckpointThere, OutputsTo
<1>3. CASE Commit \/ CommitFails
  <2>1. txn.height = Last /\ pc = "commit" /\ adopted' = adopted
    BY <1>3 DEF Commit, CommitFails, ShapeInv, TxnInv, seen
  <2>2. CASE Committed
    BY <2>1, <2>2, ChunkWhole DEF Committed, Written
  <2>3. CASE UNCHANGED <<durable, checkpoint>>
    BY <2>1, <2>3, <1>2
  <2> QED
    BY <1>3, <2>2, <2>3 DEF Commit, CommitFails
<1>4. CASE UpdateCheckpoint \/ UpdateCheckpointFails
  <2>1. pc = "checkpoint" /\ durable' = durable /\ adopted' = adopted
    BY <1>4 DEF UpdateCheckpoint, UpdateCheckpointFails, seen
  <2>2. CASE checkpoint' = Last /\ mode = "single"
    <3>1. Written = durable
      BY <2>2 DEF Written, ShapeInv, TxnInv, NoTxn
    <3> QED
      BY <2>1, <2>2, <3>1, ChunkWhole
  <2>3. CASE checkpoint' = checkpoint
    BY <2>1, <2>3, <1>2
  <2> QED
    BY <1>4, <2>2, <2>3 DEF UpdateCheckpoint, UpdateCheckpointFails, ShapeInv, TypeInv
<1>5. CASE Exit \/ Crash \/ NextBatch \/ Scan \/ ScanEnds \/ Begin \/ BeginFails \/ Rollback
           \/ WriteFails \/ Spawn \/ Await \/ UNCHANGED vars
           \/ \E b \in 1 .. Buckets : TaskLooks(b) \/ TaskFindsClosed(b)
  <2>1. durable' = durable /\ checkpoint' = checkpoint /\ adopted' = adopted
    BY <1>5 DEF Exit, Crash, NextBatch, Scan, ScanEnds, Begin, BeginFails, Rollback, WriteFails, Spawn,
                Await, TaskLooks, TaskFindsClosed, vars, graphVars, seen
  <2> QED
    BY <2>1, <1>2
<1>6. CASE Write \/ AttemptFails \/ \E b \in 1 .. Buckets : TaskWrites(b) \/ TaskFails(b)
  <2>1. durable \subseteq durable' /\ checkpoint' = checkpoint /\ adopted' = adopted
    BY <1>6 DEF Write, AttemptFails, TaskWrites, TaskFails, Apply, seen
  <2> QED
    BY <2>1, <1>2
<1> QED
  BY <1>1, <1>3, <1>4, <1>5, <1>6 DEF Next, Process, Faults

\* WholeInv holds at first.
LEMMA InitWhole == Init => WholeInv
<1> SUFFICES ASSUME Init PROVE WholeInv
  OBVIOUS
<1>1. durable = {} /\ txn.facts = {} /\ checkpoint = -1 /\ pc = "down"
  BY DEF Init, NoTxn
<1>2. Sound(durable) /\ Sound(Written)
  BY <1>1 DEF Sound, Written
<1>3. Progress
  BY <1>1 DEF Progress, Phases, Queries, Creating
<1>4. CheckpointedWhole /\ CheckpointThere
  BY <1>1 DEF CheckpointedWhole, CheckpointThere, OutputsTo, Heights
<1> QED
  BY <1>2, <1>3, <1>4 DEF WholeInv

\* Whatever fails and however often, a block up to the checkpoint that was not
\* adopted has all of its nodes and relationships.
THEOREM CheckpointIsWhole == Spec => []CheckpointedWhole
<1>1. ShapeInv /\ ShapeInv' /\ WholeInv /\ [Next]_vars => WholeInv'
  BY NextSound, NextProgress, NextWhole DEF WholeInv
<1>2. WholeInv => CheckpointedWhole
  BY DEF WholeInv
<1> QED
  BY <1>1, <1>2, InitWhole, ShapeInvariant, PTL DEF Spec

-----------------------------------------------------------------------------
(* No CREATE meets its node *)

\* The label of the node that a query creates.
Node == [blocks |-> "block", outputs |-> "output", transactions |-> "tx", inputs |-> "input"]

\* The transaction holds the nodes of the phases before, and those of this phase
\* for the blocks before.
OrderInv ==
  mode = "batch" /\ pc \in Queries =>
    \A q \in Creating, f \in txn.facts : f[1] = Node[q] =>
      \/ q \in Before(pc)
      \/ q = LayerOf(pc) /\ \E h \in Chunk : h < at /\ f = Key(q, h)

Busy == Phases \cup {"cut", "begin"}

\* Blocks from c to e that compute_adaptive_chunks would put into one chunk.
Reaches(c, e) ==
  /\ e \in Heights /\ e < c + BatchSize
  /\ e = c \/ SumFunctionOnSet(memory, c .. e) <= Budget

\* The output of transaction t was left by a chunk up to e that did not commit:
\* the chunk began above the checkpoint and has a BIP30 block.
LeftBy(t, e) ==
  /\ \E h \in checkpoint + 1 .. e : t = TxOf[h]
  /\ \E d \in checkpoint + 1 .. e : d \in Bip30
  /\ Reaches(checkpoint + 1, e)
  /\ pc \in Busy => e <= batch.last

LeakInv ==
  mode = "batch" =>
    \A f \in durable : f[1] = "output" =>
      \/ \E k \in 0 .. checkpoint : f[2] = TxOf[k]
      \/ \E e \in Heights : LeftBy(f[2], e)

\* A query creates no nodes but those of its block.
LEMMA EffectNode ==
  ASSUME NEW q \in Queries, NEW h \in Heights, NEW view, NEW f \in Effect(q, h, view),
         NEW p \in Creating, f[1] = Node[p]
  PROVE  p = q /\ f = Key(p, h)
<1>1. CASE q = "blocks"
  <2>1. f = <<"block", h>> \/ f = <<"next", h>>
    BY <1>1 DEF Effect, Linked
  <2> QED
    BY <1>1, <2>1 DEF Node, Key, Creating
<1>2. CASE q = "outputs"
  <2>1. f = <<"output", TxOf[h]>> \/ f \in LockedTo(h)
    BY <1>2 DEF Effect
  <2>2. f \in LockedTo(h) => f[1] \in {"address", "lockedTo"}
    BY DEF LockedTo
  <2> QED
    BY <1>2, <2>1, <2>2 DEF Node, Key, Creating
<1>3. CASE q = "lockedTo"
  <2>1. f[1] \in {"address", "lockedTo"}
    BY <1>3 DEF Effect, LockedTo
  <2> QED
    BY <2>1 DEF Node, Creating
<1>4. CASE q = "transactions"
  <2>1. f = <<"tx", TxOf[h]>> \/ f = <<"in", TxOf[h], h>>
    BY <1>4 DEF Effect, Linked
  <2> QED
    BY <1>4, <2>1 DEF Node, Key, Creating
<1>5. CASE q = "hasOutput"
  <2>1. f[1] = "hasOutput"
    BY <1>5 DEF Effect, HasOutput, Linked
  <2> QED
    BY <2>1 DEF Node, Creating
<1>6. CASE q = "inputs"
  <2>1. f = <<"input", TxOf[h]>> \/ f[1] \in {"hasInput", "spends"}
    BY <1>6 DEF Effect, Linked, SpendsOutput
  <2> QED
    BY <1>6, <2>1 DEF Node, Key, Creating
<1>7. CASE q = "performs"
  <2>1. f[1] \in {"address", "performs"}
    BY <1>7 DEF Effect, Linked
  <2> QED
    BY <2>1 DEF Node, Creating
<1>8. CASE q = "benefits"
  <2>1. f[1] \in {"address", "benefits"}
    BY <1>8 DEF Effect
  <2> QED
    BY <2>1 DEF Node, Creating
<1> QED
  BY <1>1, <1>2, <1>3, <1>4, <1>5, <1>6, <1>7, <1>8 DEF Queries, Creating

\* The node of a query is that of a block with the same transaction.
LEMMA OwnedNode ==
  ASSUME NEW q \in Creating, NEW h \in Heights, NEW k \in Heights, Owned(Key(q, h), k)
  PROVE  IF q = "blocks" THEN h = k ELSE TxOf[h] = TxOf[k]
<1>1. CASE q = "blocks"
  BY <1>1, OwnedBlock DEF Key
<1>2. CASE q = "outputs"
  BY <1>2 DEF Key, Owned, FactsOf, LockedTo
<1>3. CASE q = "transactions"
  BY <1>3, OwnedTx DEF Key
<1>4. CASE q = "inputs"
  BY <1>4 DEF Key, Owned, FactsOf, LockedTo
<1> QED
  BY <1>1, <1>2, <1>3, <1>4 DEF Creating

\* The chunk that is written could be cut the same way again, and no longer.
LEMMA ChunkIsMaximal ==
  ASSUME ShapeInv, FitInv, mode = "batch", pc \in Phases
  PROVE  /\ Reaches(First, Last) /\ Last <= batch.last
         /\ \A e \in Heights : Reaches(First, e) /\ e <= batch.last => e <= Last
<1> DEFINE r == scan.ranges[chunk]
           f == batch.first
           Sum(s) == SumFunctionOnSet(memory, s)
<1>1. /\ ChunkShape /\ scan.i = Blocks /\ chunk \in 1 .. Len(scan.ranges)
      /\ scan.ranges \in Seq(Nat \X Nat)
  BY Here DEF FitInv, ShapeInv, ChunkInv, TypeInv
<1>2. /\ r \in Nat \X Nat /\ r[1] \in Nat /\ r[2] \in Nat
      /\ r[1] < r[2] /\ r[2] <= Blocks
  <2>1. r \in Nat \X Nat
    BY <1>1
  <2>2. r[1] < r[2] /\ r[2] <= Blocks
    BY <1>1 DEF ShapeInv, ScanInv, InRow
  <2> QED
    BY <2>1, <2>2
<1>3. First = f + r[1] /\ Last = f + r[2] - 1
  BY <1>1 DEF ChunkShape
<1>4. /\ f \in Int /\ batch.last \in Int /\ f <= batch.last /\ batch.last - f < BatchSize
      /\ 0 <= f /\ batch.last <= MaxHeight /\ MaxHeight \in Nat /\ BatchSize \in Int /\ Budget \in Int
      /\ Blocks = batch.last - f + 1
      /\ memory \in [Heights -> Nat \ {0}] /\ Heights = 0 .. MaxHeight
  BY WriterAssumption DEF ShapeInv, TypeInv, Heights, Blocks
<1>5. /\ Total(r) = Sum(f + r[1] .. f + r[2] - 1)
      /\ Total(<<r[1], r[2] + 1>>) = Sum(f + r[1] .. f + (r[2] + 1) - 1)
  BY DEF Total
<1>6. /\ Total(r) <= Budget \/ r[2] = r[1] + 1
      /\ r[2] < Blocks => Total(<<r[1], r[2] + 1>>) > Budget
  BY <1>1 DEF FitInv, Fitting
<1> DEFINE a == r[1]
           b == r[2]
<1> HIDE DEF r, f, Sum
<1>10. /\ f \in Int /\ batch.last \in Int /\ 0 <= f /\ BatchSize \in Int
       /\ Blocks = batch.last - f + 1 /\ batch.last - f < BatchSize
  BY <1>4
<1>7. /\ First \in Int /\ Last \in Int /\ First <= Last /\ Last <= batch.last
      /\ Last < First + BatchSize /\ Last \in Heights /\ 0 <= First
      /\ b = a + 1 => Last = First
  <2> HIDE DEF a, b
  <2>1. First = f + a /\ Last = f + b - 1 /\ a \in Nat /\ b \in Nat /\ a < b /\ b <= Blocks
    BY <1>2, <1>3 DEF a, b
  <2>2. First \in Int /\ Last \in Int /\ First <= Last /\ 0 <= First /\ (b = a + 1 => Last = First)
    BY <1>10, <2>1
  <2>3. Last <= batch.last /\ Last < First + BatchSize
    BY <1>10, <2>1
  <2>4. Last \in Heights
    BY <1>4, <2>2, <2>3
  <2> QED
    BY <2>2, <2>3, <2>4
<1>8. Reaches(First, Last)
  <2>1. Last = First \/ Sum(First .. Last) <= Budget
    BY <1>3, <1>5, <1>6, <1>7
  <2> QED
    BY <1>7, <2>1 DEF Reaches, Sum
<1>9. ASSUME NEW e \in Heights, Reaches(First, e), e <= batch.last, ~ e <= Last
      PROVE  FALSE
  <2>1. e \in Int /\ Last + 1 <= e /\ e # First
    BY <1>4, <1>7, <1>9
  <2>2. b < Blocks /\ f + (b + 1) - 1 = Last + 1
    <3> HIDE DEF a, b
    <3>1. Last = f + b - 1 /\ b \in Nat
      BY <1>2, <1>3 DEF b
    <3>2. Last + 1 <= batch.last
      BY <1>7, <1>9, <1>10, <2>1
    <3> QED
      BY <1>10, <3>1, <3>2
  <2>3. Sum(First .. Last + 1) > Budget
    BY <1>3, <1>5, <1>6, <2>2
  <2>4. Sum(First .. e) <= Budget
    BY <1>9, <2>1 DEF Reaches, Sum
  <2>5. Last + 1 \in First .. e /\ First .. e \subseteq Heights
    <3>1. e \in 0 .. MaxHeight /\ MaxHeight \in Nat
      BY <1>4, <1>9
    <3> QED
      BY <1>7, <2>1, <3>1 DEF Heights
  <2>6. \A x \in First .. e : memory[x] \in Nat
    BY <1>4, <2>5
  <2>7. \A x \in First .. Last + 1 : memory[x] \in Nat
    <3>1. First .. Last + 1 \subseteq First .. e
      BY <1>7, <2>1, <2>5
    <3> QED
      BY <2>6, <3>1
  <2>8. Sum(First .. Last + 1) <= Sum(First .. e) /\ Sum(First .. e) \in Nat
    BY <1>7, <2>1, <2>5, <2>6, SumOfInterval DEF Sum
  <2>9. Sum(First .. Last + 1) \in Nat
    BY <1>7, <2>7, SumOfInterval DEF Sum
  <2> QED
    BY <1>4, <2>3, <2>4, <2>8, <2>9
<1> QED
  BY <1>7, <1>8, <1>9


\* What a chunk left above the checkpoint is within the chunk that is written.
LEMMA LeftHere ==
  ASSUME ShapeInv, FitInv, mode = "batch", pc \in Phases, NEW t, NEW e \in Heights, LeftBy(t, e)
  PROVE  e <= Last /\ (\E h \in Chunk : t = TxOf[h]) /\ HasBip30
<1>1. First = checkpoint + 1 /\ ChunkShape /\ First \in Int /\ Last \in Int
  <2>1. First = checkpoint + 1 /\ ChunkShape
    BY Here DEF ShapeInv, PlaceInv
  <2> QED
    BY <2>1, WriterAssumption DEF ChunkShape, Heights
<1>2. e <= Last
  BY <1>1, ChunkIsMaximal DEF LeftBy, Busy
<1>3. checkpoint + 1 .. e \subseteq Chunk
  <2>1. Chunk = First .. Last /\ e \in Int
    BY <1>1, WriterAssumption DEF ChunkShape, Heights
  <2> QED
    BY <1>1, <1>2, <2>1
<1> QED
  BY <1>2, <1>3 DEF LeftBy, HasBip30

\* A CREATE of the chunk finds no node of its block, neither in the graph nor in
\* the transaction.
LEMMA NoneThere ==
  ASSUME ShapeInv, FitInv, AtomicInv, OrderInv, LeakInv,
         mode = "batch", pc \in Creating, Fast(pc)
  PROVE  Key(pc, at) \notin durable \cup txn.facts
<1>1. /\ pc \in Queries /\ pc \in Phases /\ at \in Chunk /\ at \in Heights /\ ChunkShape
      /\ First = checkpoint + 1 /\ checkpoint \in -1 .. MaxHeight /\ MaxHeight \in Nat
      /\ LayerOf(pc) = pc /\ pc \notin Before(pc)
  <2>1. pc \in Queries /\ pc \in Phases
    BY DEF Queries, Phases
  <2>2. at \in Chunk /\ ChunkShape /\ First = checkpoint + 1
    BY <2>1, Here DEF ShapeInv, PlaceInv
  <2>3. LayerOf(pc) = pc /\ pc \notin Before(pc)
    BY DEF LayerOf, Before, Creating
  <2> QED
    BY <2>1, <2>2, <2>3, WriterAssumption DEF ChunkShape, ShapeInv, TypeInv
<1>2. ASSUME NEW k \in Heights, k < at, pc # "blocks", TxOf[at] = TxOf[k]
      PROVE  FALSE
  <2>1. at \in Bip30
    BY <1>1, <1>2, WriterAssumption
  <2> QED
    BY <1>1, <1>2, <2>1 DEF Fast, HasBip30, Creating
<1>3. \A k \in 0 .. checkpoint : k \in Heights /\ k < at
  <2>1. at \in Int /\ checkpoint < at
    BY <1>1 DEF ChunkShape, Heights
  <2> QED
    BY <1>1, <2>1 DEF Heights
<1>4. Key(pc, at)[1] = Node[pc] /\ Key(pc, at)[1] # "address" /\ Key(pc, at)[1] # "lockedTo"
      /\ (Key(pc, at)[1] = "output" => pc = "outputs" /\ Key(pc, at)[2] = TxOf[at])
  BY DEF Key, Node, Creating
<1>5. ASSUME Key(pc, at) \in txn.facts PROVE FALSE
  <2>1. PICK h \in Chunk : h < at /\ Key(pc, at) = Key(pc, h)
    BY <1>1, <1>4, <1>5 DEF OrderInv
  <2>2. h \in Heights
    BY <1>1 DEF ChunkShape
  <2>3. IF pc = "blocks" THEN at = h ELSE TxOf[at] = TxOf[h]
    BY <2>1 DEF Key, Creating
  <2> QED
    BY <1>1, <1>2, <2>1, <2>2, <2>3 DEF Heights
<1>6. ASSUME Key(pc, at) \in durable PROVE FALSE
  <2>1. ASSUME NEW k \in 0 .. checkpoint, Owned(Key(pc, at), k) PROVE FALSE
    <3>1. IF pc = "blocks" THEN at = k ELSE TxOf[at] = TxOf[k]
      BY <1>1, <1>3, <2>1, OwnedNode
    <3> QED
      BY <1>1, <1>2, <1>3, <3>1 DEF Heights
  <2>2. Key(pc, at)[1] = "output"
    BY <1>4, <1>6, <2>1 DEF AtomicInv, Expected, Owned
  <2>3. pc = "outputs" /\ Key(pc, at)[2] = TxOf[at]
    BY <1>4, <2>2
  <2>4. CASE \E k \in 0 .. checkpoint : TxOf[at] = TxOf[k]
    BY <1>2, <1>3, <2>3, <2>4
  <2>5. CASE \E e \in Heights : LeftBy(TxOf[at], e)
    <3>1. HasBip30
      BY <1>1, <2>5, LeftHere
    <3> QED
      BY <2>3, <3>1 DEF Fast
  <2> QED
    BY <1>6, <2>2, <2>3, <2>4, <2>5 DEF LeakInv
<1> QED
  BY <1>5, <1>6

\* A step of the process goes on with the batch, or takes the next one.
LEMMA BatchKept ==
  ASSUME ShapeInv, [Next]_vars, mode = "batch"
  PROVE  /\ memory' = memory
         /\ NextBatch \/ (batch' = batch /\ (pc' \in Busy => pc \in Busy))
<1>1. CASE NextBatch
  BY <1>1 DEF NextBatch, fixed
<1>2. CASE Scan \/ ScanEnds \/ Begin \/ Write \/ Spawn \/ Await \/ UpdateCheckpoint \/ Commit
           \/ Rollback \/ BeginFails \/ WriteFails \/ AttemptFails \/ UpdateCheckpointFails \/ CommitFails
  BY <1>2 DEF Scan, ScanEnds, Begin, Write, Spawn, Await, UpdateCheckpoint, Commit, Rollback,
              BeginFails, WriteFails, AttemptFails, UpdateCheckpointFails, CommitFails,
              Busy, Phases, Queries, Creating, loopVars, fixed
<1>3. CASE Exit \/ Crash \/ Launch
  BY <1>3 DEF Exit, Crash, Gone, Launch, Busy, Phases, Queries, Creating, fixed
<1>4. CASE \E b \in 1 .. Buckets : TaskLooks(b) \/ TaskWrites(b) \/ TaskFindsClosed(b) \/ TaskFails(b)
  BY <1>4 DEF TaskLooks, TaskWrites, TaskFindsClosed, TaskFails, loopVars, fixed
<1>5. CASE UNCHANGED vars
  BY <1>5 DEF vars, loopVars, fixed
<1> QED
  BY <1>1, <1>2, <1>3, <1>4, <1>5 DEF Next, Process, Faults

\* In a batch the checkpoint moves by a commit only: launched again, the process
\* finds no block above it.
LEMMA CheckpointKept ==
  ASSUME ShapeInv, AtomicInv, [Next]_vars, mode = "batch"
  PROVE  checkpoint' = checkpoint \/ (pc = "commit" /\ checkpoint' = Last)
<1>1. CASE Launch
  <2>1. StoredAbove = {}
    <3> SUFFICES ASSUME NEW h \in Heights, h > checkpoint, <<"block", h>> \in durable PROVE FALSE
      BY DEF StoredAbove
    <3>1. PICK k \in 0 .. checkpoint : Owned(<<"block", h>>, k)
      BY DEF AtomicInv, Expected, Owned
    <3>2. k \in Heights /\ checkpoint \in Int
      BY <3>1, WriterAssumption DEF ShapeInv, TypeInv, Heights
    <3>3. h = k
      BY <3>1, <3>2, OwnedBlock
    <3> QED
      BY <3>2, <3>3, WriterAssumption DEF Heights
  <2> QED
    BY <1>1, <2>1 DEF Launch, Kept
<1>2. CASE NextBatch \/ Scan \/ ScanEnds \/ Begin \/ Write \/ Spawn \/ Await \/ UpdateCheckpoint
           \/ Rollback \/ BeginFails \/ WriteFails \/ AttemptFails \/ UpdateCheckpointFails
           \/ Exit \/ Crash
  BY <1>2 DEF NextBatch, Scan, ScanEnds, Begin, Write, Spawn, Await, UpdateCheckpoint, Rollback,
              BeginFails, WriteFails, AttemptFails, UpdateCheckpointFails, Exit, Crash, graphVars
<1>3. CASE Commit \/ CommitFails
  BY <1>3 DEF Commit, CommitFails, Committed, ShapeInv, TxnInv
<1>4. CASE \E b \in 1 .. Buckets : TaskLooks(b) \/ TaskWrites(b) \/ TaskFindsClosed(b) \/ TaskFails(b)
  BY <1>4 DEF TaskLooks, TaskWrites, TaskFindsClosed, TaskFails, graphVars
<1>5. CASE UNCHANGED vars
  BY <1>5 DEF vars, graphVars
<1> QED
  BY <1>1, <1>2, <1>3, <1>4, <1>5 DEF Next, Process, Faults


\* A query adds the node of its block; the last one ends its phase.
LEMMA WriteOrder == ASSUME ShapeInv, OrderInv, Write PROVE OrderInv'
<1> SUFFICES ASSUME mode = "batch", pc' \in Queries,
                    NEW q \in Creating, NEW f \in txn'.facts, f[1] = Node[q]
             PROVE  \/ q \in Before(pc')
                    \/ q = LayerOf(pc') /\ \E h \in Chunk : h < at' /\ f = Key(q, h)
  <2>1. mode' = mode /\ Chunk' = Chunk
    BY SameChunk DEF Write, loopVars, fixed
  <2>2. \A p \in Creating, h \in Chunk : Key(p, h)' = Key(p, h)
    BY DEF Key, Creating
  <2> QED
    BY <2>1, <2>2 DEF OrderInv
<1> DEFINE auto == AutoCommits(pc)
           F == Effect(pc, at, View(auto))
<1>1. /\ pc \in Queries /\ at \in Chunk /\ ChunkShape /\ at \in Heights /\ TxnInv
      /\ auto \in BOOLEAN /\ (~ auto => txn.open) /\ txn.open
      /\ pc \notin {"performs", "benefits"}
  BY Here
     DEF Write, AutoCommits, ShapeInv, TypeInv, PlaceInv, TxnInv, ChunkShape, Phases
<1>2. ~ Collides(pc, at, View(auto))
  BY DEF Write, Failed, Queries, Creating
<1>3. Apply(auto, F) /\ Advance
  BY <1>2 DEF Write
<1>4. /\ auto => txn' = txn
      /\ ~ auto => txn'.facts = txn.facts \cup F
  <2> HIDE DEF auto, F
  <2> QED
    BY <1>1, <1>3, ApplyTxn
<1>5. \/ f \in txn.facts /\ (q \in Before(pc) \/ (q = LayerOf(pc) /\ \E h \in Chunk : h < at /\ f = Key(q, h)))
      \/ ~ auto /\ q = pc /\ f = Key(q, at)
  <2>1. f \in txn.facts \/ (~ auto /\ f \in F)
    BY <1>1, <1>4
  <2>2. f \in F => q = pc /\ f = Key(q, at)
    BY <1>1, EffectNode
  <2> QED
    BY <1>1, <2>1, <2>2 DEF OrderInv
<1>6. q = pc => q = LayerOf(pc)
  BY DEF LayerOf, Creating
<1> HIDE DEF auto, F
<1>7. CASE pc = "outputs" /\ ~ Fast("outputs") /\ Payee[at] # None
  <2>1. pc' = "lockedTo" /\ at' = at
    BY <1>3, <1>7 DEF Advance
  <2>2. auto
    BY <1>7 DEF AutoCommits, auto
  <2>3. Before(pc') = Before(pc) /\ LayerOf(pc') = LayerOf(pc)
    BY <1>7, <2>1 DEF Before, LayerOf
  <2> QED
    BY <1>5, <2>1, <2>2, <2>3
<1>8. CASE ~ (pc = "outputs" /\ ~ Fast("outputs") /\ Payee[at] # None) /\ at < Last
  <2>1. pc' = (IF pc = "lockedTo" THEN "outputs" ELSE pc) /\ at' = at + 1
    BY <1>3, <1>8 DEF Advance
  <2>2. Before(pc') = Before(pc) /\ LayerOf(pc') = LayerOf(pc)
    BY <1>1, <2>1 DEF Before, LayerOf, Queries, Creating
  <2>3. at < at' /\ \A h \in Chunk : h < at => h < at'
    BY <1>1, <2>1 DEF ChunkShape, Heights
  <2> QED
    BY <1>1, <1>5, <1>6, <2>2, <2>3
<1>9. CASE ~ (pc = "outputs" /\ ~ Fast("outputs") /\ Payee[at] # None) /\ ~ at < Last
  <2>1. pc' = After[pc]
    BY <1>3, <1>9 DEF Advance
  <2>2. q \in Before(pc) \/ q = LayerOf(pc)
    BY <1>5, <1>6
  <2>3. q \in Before(pc')
    BY <1>1, <2>1, <2>2 DEF Before, LayerOf, After, Queries, Creating
  <2> QED
    BY <2>3
<1> QED
  BY <1>7, <1>8, <1>9

\* Every step keeps the order of the phases.
LEMMA NextOrder == ASSUME ShapeInv, OrderInv, [Next]_vars PROVE OrderInv'
<1>1. CASE Write
  BY <1>1, WriteOrder
<1>2. CASE NextBatch \/ Scan \/ ScanEnds \/ Spawn \/ Await \/ UpdateCheckpoint \/ Commit \/ Rollback
           \/ BeginFails \/ WriteFails \/ UpdateCheckpointFails \/ CommitFails \/ Exit \/ Crash \/ Launch
  <2>1. mode' = "batch" => pc' \notin Queries
    BY <1>2 DEF NextBatch, Scan, ScanEnds, Spawn, Await, UpdateCheckpoint, Commit, Rollback,
                BeginFails, WriteFails, UpdateCheckpointFails, CommitFails, Failed, Exit, Crash, Gone,
                Launch, Queries, Creating, fixed
  <2> QED
    BY <2>1 DEF OrderInv
<1>3. CASE Begin
  BY <1>3 DEF Begin, NoTxn, OrderInv, ShapeInv, TxnInv, Phases, Queries, Creating
<1>4. ASSUME UNCHANGED <<pc, at, mode>>, txn'.facts = txn.facts, Chunk' = Chunk
      PROVE  OrderInv'
  <2>1. \A p \in Creating, h \in Chunk : Key(p, h)' = Key(p, h)
    BY DEF Key, Creating
  <2> QED
    BY <1>4, <2>1 DEF OrderInv
<1>5. CASE AttemptFails
  <2>1. txn' = txn /\ at' = at /\ Chunk' = Chunk /\ mode' = mode
    BY <1>5, SameChunk DEF AttemptFails, Apply, loopVars, fixed
  <2>2. pc' = pc \/ (mode = "batch" => pc' = "rollback")
    BY <1>5 DEF AttemptFails, Failed
  <2>3. mode' = "batch" /\ pc' = "rollback" => OrderInv'
    BY DEF OrderInv, Queries, Creating
  <2>4. mode' # "batch" => OrderInv'
    BY DEF OrderInv
  <2> QED
    BY <1>4, <2>1, <2>2, <2>3, <2>4
<1>6. CASE \E b \in 1 .. Buckets : TaskLooks(b) \/ TaskWrites(b) \/ TaskFindsClosed(b) \/ TaskFails(b)
  <2>1. PICK b \in 1 .. Buckets : TaskLooks(b) \/ TaskWrites(b) \/ TaskFindsClosed(b) \/ TaskFails(b)
    BY <1>6
  <2>2. tasks[b].do # "end" /\ pc' = pc
    <3>1. tasks[b].via # None => tasks[b].do # "end"
      BY DEF ShapeInv, TaskInv
    <3> QED
      BY <2>1, <3>1, WriterAssumption DEF TaskLooks, TaskWrites, TaskFindsClosed, TaskFails
  <2>3. pc' \notin Queries
    BY <2>2 DEF ShapeInv, TaskInv, Queries, Creating
  <2> QED
    BY <2>3 DEF OrderInv
<1>7. CASE UNCHANGED vars
  BY <1>4, <1>7, SameChunk DEF vars, graphVars, loopVars, queryVars, fixed
<1> QED
  BY <1>1, <1>2, <1>3, <1>5, <1>6, <1>7 DEF Next, Process, Faults

\* An output that is left is left still, unless the checkpoint moves past it.
LEMMA StillLeft ==
  ASSUME ShapeInv, FitInv, AtomicInv, [Next]_vars, mode = "batch",
         NEW t, NEW e \in Heights, LeftBy(t, e)
  PROVE  (\E k \in 0 .. checkpoint' : t = TxOf[k]) \/ LeftBy(t, e)'
<1>1. CASE checkpoint' = checkpoint
  <2>1. Reaches(checkpoint + 1, e)'
    BY <1>1, BatchKept DEF LeftBy, Reaches
  <2>2. pc' \in Busy => e <= batch'.last
    <3>1. CASE batch' = batch /\ (pc' \in Busy => pc \in Busy)
      BY <3>1 DEF LeftBy
    <3>2. CASE NextBatch
      <4>1. batch'.last = Least(next + BatchSize - 1, MaxHeight) /\ next = checkpoint + 1
        BY <3>2 DEF NextBatch, ShapeInv, PlaceInv
      <4>2. e \in 0 .. MaxHeight /\ e < checkpoint + 1 + BatchSize
            /\ checkpoint \in Int /\ BatchSize \in Int /\ MaxHeight \in Int
        BY WriterAssumption DEF LeftBy, Reaches, Heights, ShapeInv, TypeInv
      <4> QED
        BY <4>1, <4>2 DEF Least
    <3> QED
      BY <3>1, <3>2, BatchKept
  <2> QED
    BY <1>1, <2>1, <2>2 DEF LeftBy
<1>2. CASE pc = "commit" /\ checkpoint' = Last
  <2>1. (\E h \in Chunk : t = TxOf[h]) /\ ChunkShape
    BY <1>2, LeftHere, Here DEF Phases
  <2>2. \A h \in Chunk : h \in 0 .. Last
    BY <2>1, WriterAssumption DEF ChunkShape, Heights
  <2> QED
    BY <1>2, <2>1, <2>2
<1> QED
  BY <1>1, <1>2, CheckpointKept

\* Every step keeps what is known of the outputs in the graph.
LEMMA NextLeak == ASSUME ShapeInv, FitInv, AtomicInv, LeakInv, [Next]_vars PROVE LeakInv'
<1> SUFFICES ASSUME mode = "batch", NEW f \in durable', f[1] = "output"
             PROVE  \/ \E k \in 0 .. checkpoint' : f[2] = TxOf[k]
                    \/ \E e \in Heights : LeftBy(f[2], e)'
  BY StepFacts DEF LeakInv
<1>1. checkpoint \in Int /\ checkpoint' \in Int /\ checkpoint' >= checkpoint
  BY StepFacts, WriterAssumption DEF ShapeInv, TypeInv
<1>2. CASE f \in durable
  <2>1. CASE \E k \in 0 .. checkpoint : f[2] = TxOf[k]
    <3>1. 0 .. checkpoint \subseteq 0 .. checkpoint'
      BY <1>1
    <3> QED
      BY <2>1, <3>1
  <2>2. CASE \E e \in Heights : LeftBy(f[2], e)
    BY <2>2, StillLeft
  <2> QED
    BY <1>2, <2>1, <2>2 DEF LeakInv
<1>3. CASE f \notin durable
  <2>1. CASE Quiet
    BY <1>3, <2>1 DEF Quiet
  <2>2. CASE Commits
    <3>1. ChunkShape /\ checkpoint' = Last /\ f \in txn.facts
      BY <1>3, <2>2, Here DEF Commits, Phases
    <3>2. PICK h \in Chunk : Owned(f, h)
      BY <3>1 DEF AtomicInv
    <3>3. f[2] = TxOf[h]
      BY <3>2 DEF Owned, FactsOf, LockedTo
    <3>4. h \in 0 .. checkpoint'
      BY <3>1, WriterAssumption DEF ChunkShape, Heights
    <3> QED
      BY <3>3, <3>4
  <2>3. CASE WritesOne
    <3>1. AutoCommits(pc) /\ f \in Effect(pc, at, durable) /\ pc \in Queries /\ at \in Chunk
      BY <1>3, <2>3 DEF WritesOne, Adds
    <3>2. /\ ChunkShape /\ txn.open /\ pc \in Phases /\ First = checkpoint + 1
          /\ at \in Heights /\ Last \in Heights
      BY <3>1, Here DEF ShapeInv, PlaceInv, TxnInv, Phases, ChunkShape
    <3>3. pc \in {"outputs", "lockedTo"} /\ ~ Fast("outputs")
      BY <3>1, <3>2 DEF AutoCommits
    <3>4. f[2] = TxOf[at]
      <4>1. f = <<"output", TxOf[at]>> \/ f \in LockedTo(at)
        BY <3>1, <3>3 DEF Effect
      <4> QED
        BY <4>1 DEF LockedTo
    <3>5. PICK d \in Bip30 : d \in Chunk
      BY <3>3 DEF Fast, HasBip30
    <3>6. checkpoint' = checkpoint \/ pc = "commit"
      BY CheckpointKept
    <3>7. checkpoint' = checkpoint
      BY <3>1, <3>6 DEF Queries, Creating
    <3>8. LeftBy(f[2], Last)
      <4>1. at \in checkpoint + 1 .. Last /\ d \in checkpoint + 1 .. Last
        BY <3>1, <3>2, <3>5 DEF ChunkShape
      <4>2. Reaches(checkpoint + 1, Last) /\ Last <= batch.last
        BY <3>2, ChunkIsMaximal
      <4> QED
        BY <3>4, <4>1, <4>2 DEF LeftBy
    <3> QED
      BY <3>2, <3>8, StillLeft
  <2>4. CASE WritesTask
    <3>1. PICK b \in 1 .. Buckets :
            /\ tasks[b].do \in {"performs", "benefits"}
            /\ Adds(tasks[b].via = "auto", LAMBDA view : TaskEffect(b, view))
      BY <2>4 DEF WritesTask
    <3>2. f \in TaskEffect(b, durable)
      BY <1>3, <3>1 DEF Adds
    <3>3. PICK h \in Chunk : f \in Effect(tasks[b].do, h, durable)
      BY <3>2 DEF TaskEffect, Work
    <3>4. f[1] \in {"address", "performs", "benefits"}
      BY <3>1, <3>3 DEF Effect, Linked
    <3> QED
      BY <3>4
  <2> QED
    BY <2>1, <2>2, <2>3, <2>4, StepFacts
<1> QED
  BY <1>2, <1>3

\* No CREATE of a batch meets a node that is already there: neither the second
\* transaction of a BIP30 pair, nor an output that an attempt left behind when
\* its chunk did not commit.
THEOREM CreatesNeverCollide == Spec => []NeverCollides
<1> DEFINE Inv == FitInv /\ AtomicInv /\ OrderInv /\ LeakInv /\ NeverCollides
<1>1. Init => Inv
  <2> SUFFICES ASSUME Init PROVE Inv
    OBVIOUS
  <2>1. scan.ranges = <<>> /\ pc = "down" /\ durable = {} /\ txn = NoTxn /\ collided = FALSE
    BY DEF Init, NoScan
  <2> QED
    BY <2>1 DEF FitInv, Fitting, AtomicInv, OrderInv, LeakInv, NeverCollides, NoTxn,
                Phases, Queries, Creating
<1>2. ShapeInv /\ Inv /\ [Next]_vars => Inv'
  <2> SUFFICES ASSUME ShapeInv, Inv, [Next]_vars PROVE Inv'
    OBVIOUS
  <2>1. FitInv' /\ AtomicInv' /\ OrderInv' /\ LeakInv'
    BY NextFits, NextAtomic, NextOrder, NextLeak
  <2>2. CASE Write
    <3>1. pc \in Creating /\ Fast(pc) => Key(pc, at) \notin View(AutoCommits(pc))
      <4> SUFFICES ASSUME pc \in Creating, Fast(pc) PROVE Key(pc, at) \notin View(AutoCommits(pc))
        OBVIOUS
      <4>1. mode = "batch"
        BY DEF Fast
      <4> QED
        BY <4>1, NoneThere DEF View
    <3>2. ~ Collides(pc, at, View(AutoCommits(pc)))
      BY <3>1 DEF Collides
    <3> QED
      BY <2>1, <2>2, <3>2 DEF Write, NeverCollides
  <2>3. CASE ~ Write
    <3>1. collided' = collided
      BY <2>3 DEF Next, Process, Faults, NextBatch, Scan, ScanEnds, Begin, Spawn, Await,
                  UpdateCheckpoint, Commit, Rollback, Exit, TaskLooks, TaskWrites, TaskFindsClosed,
                  BeginFails, WriteFails, AttemptFails, UpdateCheckpointFails, CommitFails, Crash,
                  TaskFails, Launch, seen, vars
    <3> QED
      BY <2>1, <3>1 DEF NeverCollides
  <2> QED
    BY <2>2, <2>3
<1>3. Inv => NeverCollides
  OBVIOUS
<1> QED
  BY <1>1, <1>2, <1>3, ShapeInvariant, PTL DEF Spec

-----------------------------------------------------------------------------
(* The contract of BlockStore *)

\* Nodes and transactions reach to the checkpoint or, in single mode, to the
\* block above it, nodes first.
StoreInv ==
  /\ BlockNodes \in {0 .. checkpoint, 0 .. checkpoint + 1}
  /\ LinkedNodes \in {0 .. checkpoint, BlockNodes}
  /\ mode = "batch" => BlockNodes = 0 .. checkpoint

\* A step of the contract, or none.
Keeps == StoreInv' /\ (Contract!Next \/ UNCHANGED Contract!vars)

\* Nothing that the contract speaks of changes.
LEMMA KeepsSame ==
  ASSUME StoreInv, BlockNodes' = BlockNodes, LinkedNodes' = LinkedNodes,
         checkpoint' = checkpoint, mode' = mode
  PROVE  Keeps
<1>1. StoreInv'
  BY DEF StoreInv
<1>2. UNCHANGED Contract!vars
  BY DEF Contract!vars
<1> QED
  BY <1>1, <1>2 DEF Keeps

\* An interval without its successor, and with it.
LEMMA Intervals ==
  ASSUME NEW k \in Int, k >= -1
  PROVE  /\ 0 .. k + 1 = (0 .. k) \cup {k + 1}
         /\ k + 1 \notin 0 .. k
         /\ 0 .. k = (0 .. k + 1) \ {k + 1}
         /\ 0 .. k # 0 .. k + 1
OBVIOUS

\* write_blocks of ingest_block.
LEMMA KeepsBlock ==
  ASSUME StoreInv, checkpoint \in Int, checkpoint >= -1, mode = "single",
         BlockNodes' = BlockNodes \cup {checkpoint + 1}, LinkedNodes' = LinkedNodes,
         checkpoint' = checkpoint, mode' = mode
  PROVE  Keeps
<1>1. CASE BlockNodes = 0 .. checkpoint
  <2>1. BlockNodes' = 0 .. checkpoint + 1
    BY <1>1, Intervals
  <2>2. LinkedNodes = 0 .. checkpoint
    BY <1>1 DEF StoreInv
  <2>3. StoreInv'
    BY <2>1, <2>2 DEF StoreInv
  <2>4. Contract!WriteBlock
    BY <1>1, <2>1 DEF Contract!WriteBlock, Contract!UpTo, Contract!Above
  <2> QED
    BY <2>3, <2>4 DEF Keeps, Contract!Next
<1>2. CASE BlockNodes = 0 .. checkpoint + 1
  <2>1. BlockNodes' = BlockNodes
    BY <1>2, Intervals
  <2> QED
    BY <2>1, KeepsSame
<1> QED
  BY <1>1, <1>2 DEF StoreInv

\* write_transactions of ingest_block, which finds the block or nothing.
LEMMA KeepsLink ==
  ASSUME StoreInv, checkpoint \in Int, checkpoint >= -1, mode = "single",
         checkpoint + 1 \in BlockNodes,
         BlockNodes' = BlockNodes, LinkedNodes' = LinkedNodes \cup {checkpoint + 1},
         checkpoint' = checkpoint, mode' = mode
  PROVE  Keeps
<1>1. BlockNodes = 0 .. checkpoint + 1
  BY Intervals DEF StoreInv
<1>2. CASE LinkedNodes = 0 .. checkpoint
  <2>1. LinkedNodes' = 0 .. checkpoint + 1
    BY <1>2, Intervals
  <2>2. StoreInv'
    BY <1>1, <2>1 DEF StoreInv
  <2>3. Contract!LinkTransactions
    BY <1>1, <1>2, <2>1 DEF Contract!LinkTransactions, Contract!UpTo, Contract!Above
  <2> QED
    BY <2>2, <2>3 DEF Keeps, Contract!Next
<1>3. CASE LinkedNodes = BlockNodes
  <2>1. LinkedNodes' = LinkedNodes
    BY <1>1, <1>3, Intervals
  <2> QED
    BY <2>1, KeepsSame
<1> QED
  BY <1>2, <1>3 DEF StoreInv

\* The checkpoint takes in the block above it.
LEMMA KeepsEnd ==
  ASSUME StoreInv, checkpoint \in Int, checkpoint >= -1,
         checkpoint + 1 \in BlockNodes, checkpoint + 1 \in LinkedNodes,
         BlockNodes' = BlockNodes, LinkedNodes' = LinkedNodes,
         checkpoint' = checkpoint + 1, mode' = mode
  PROVE  Keeps
<1>1. BlockNodes = 0 .. checkpoint + 1
  BY Intervals DEF StoreInv
<1>2. LinkedNodes = 0 .. checkpoint + 1
  BY <1>1, Intervals DEF StoreInv
<1>3. StoreInv'
  BY <1>1, <1>2 DEF StoreInv
<1>4. Contract!EndBlock
  BY <1>1, <1>2 DEF Contract!EndBlock, Contract!UpTo, Contract!Above
<1> QED
  BY <1>3, <1>4 DEF Keeps, Contract!Next

\* The block above the checkpoint, without transactions, is removed.
LEMMA KeepsRemoved ==
  ASSUME StoreInv, checkpoint \in Int, checkpoint >= -1,
         checkpoint + 1 \in BlockNodes, checkpoint + 1 \notin LinkedNodes,
         BlockNodes' = BlockNodes \ {checkpoint + 1}, LinkedNodes' = LinkedNodes,
         checkpoint' = checkpoint, mode' = mode
  PROVE  Keeps
<1>1. BlockNodes = 0 .. checkpoint + 1
  BY Intervals DEF StoreInv
<1>2. LinkedNodes = 0 .. checkpoint
  BY <1>1, Intervals DEF StoreInv
<1>3. BlockNodes' = 0 .. checkpoint
  BY <1>1, Intervals
<1>4. StoreInv'
  BY <1>2, <1>3 DEF StoreInv
<1>5. Contract!RemoveBlock
  BY <1>1, <1>2, <1>3 DEF Contract!RemoveBlock, Contract!UpTo, Contract!Above
<1> QED
  BY <1>4, <1>5 DEF Keeps, Contract!Next

\* A chunk is committed.
LEMMA KeepsChunk ==
  ASSUME StoreInv, checkpoint \in Int, checkpoint >= -1, mode = "batch",
         NEW l \in Int, checkpoint < l, checkpoint' = l,
         BlockNodes' = 0 .. l, LinkedNodes' = 0 .. l, mode' = mode
  PROVE  Keeps
<1>1. BlockNodes = 0 .. checkpoint /\ LinkedNodes = 0 .. checkpoint
  BY DEF StoreInv
<1>2. StoreInv'
  BY DEF StoreInv
<1>3. Contract!CommitChunk
  BY <1>1 DEF Contract!CommitChunk, Contract!UpTo
<1> QED
  BY <1>2, <1>3 DEF Keeps, Contract!Next

\* Only the first query writes block nodes, and only that of the transactions
\* links them, to a block that is there.
LEMMA EffectStore ==
  ASSUME NEW q \in Queries, NEW h \in Heights, NEW view, NEW n \in Heights
  PROVE  /\ <<"block", n>> \in Effect(q, h, view) <=> q = "blocks" /\ n = h
         /\ <<"in", TxOf[n], n>> \in Effect(q, h, view)
              <=> q = "transactions" /\ n = h /\ <<"block", h>> \in view
<1>1. CASE q = "blocks"
  BY <1>1 DEF Effect, Linked
<1>2. CASE q \in {"outputs", "lockedTo"}
  BY <1>2 DEF Effect, LockedTo
<1>3. CASE q = "transactions"
  BY <1>3 DEF Effect, Linked
<1>4. CASE q = "hasOutput"
  BY <1>4 DEF Effect, HasOutput, Linked
<1>5. CASE q = "inputs"
  BY <1>5 DEF Effect, Linked, SpendsOutput
<1>6. CASE q = "performs"
  BY <1>6 DEF Effect, Linked
<1>7. CASE q = "benefits"
  BY <1>7 DEF Effect
<1> QED
  BY <1>1, <1>2, <1>3, <1>4, <1>5, <1>6, <1>7 DEF Queries, Creating

\* Where the chunk begins.
LEMMA WriteFrom ==
  ASSUME ShapeInv
  PROVE  /\ checkpoint \in Int /\ checkpoint >= -1 /\ mode \in {"batch", "single"}
         /\ pc \in Phases => ChunkShape /\ First = checkpoint + 1
<1>1. checkpoint \in Int /\ checkpoint >= -1 /\ mode \in {"batch", "single"}
  BY WriterAssumption DEF ShapeInv, TypeInv
<1>2. pc \in Phases => ChunkShape
  BY Here
<1>3. pc \in Phases => First = checkpoint + 1
  BY DEF ShapeInv, PlaceInv
<1> QED
  BY <1>1, <1>2, <1>3

\* What a query does to the graph that the contract speaks of.
LEMMA QueryKeeps ==
  ASSUME ShapeInv, StoreInv, WritesOne, checkpoint' = checkpoint, mode' = mode
  PROVE  Keeps
<1>1. /\ pc \in Queries /\ at \in Chunk /\ ChunkShape /\ First = checkpoint + 1
      /\ checkpoint \in Int /\ checkpoint >= -1 /\ mode \in {"batch", "single"}
  BY WriteFrom DEF WritesOne, Phases
<1>2. at \in Heights /\ (mode = "single" => at = checkpoint + 1)
  BY <1>1 DEF ChunkShape
<1>3. CASE durable' = durable
  BY <1>1, <1>3, KeepsSame DEF BlockNodes, LinkedNodes, BlockComplete
<1>4. CASE durable' = durable \cup Effect(pc, at, durable) /\ AutoCommits(pc)
  <2>1. ASSUME NEW n \in Heights
        PROVE  /\ n \in BlockNodes' <=> n \in BlockNodes \/ (pc = "blocks" /\ n = at)
               /\ n \in LinkedNodes' <=> n \in LinkedNodes
                    \/ (pc = "transactions" /\ n = at /\ at \in BlockNodes)
    BY <1>1, <1>2, <1>4, EffectStore DEF BlockNodes, LinkedNodes, BlockComplete
  <2>2. BlockNodes' \subseteq Heights /\ LinkedNodes' \subseteq Heights
        /\ BlockNodes \subseteq Heights /\ LinkedNodes \subseteq Heights
    BY DEF BlockNodes, LinkedNodes
  <2>3. CASE pc = "blocks"
    <3>1. mode = "single"
      BY <1>1, <1>4, <2>3 DEF AutoCommits, ShapeInv, TxnInv, Phases
    <3>2. BlockNodes' = BlockNodes \cup {checkpoint + 1} /\ LinkedNodes' = LinkedNodes
      BY <1>2, <2>1, <2>2, <2>3, <3>1
    <3> QED
      BY <1>1, <3>1, <3>2, KeepsBlock
  <2>4. CASE pc = "transactions" /\ at \in BlockNodes
    <3>1. mode = "single"
      BY <1>1, <1>4, <2>4 DEF AutoCommits, ShapeInv, TxnInv, Phases
    <3>2. BlockNodes' = BlockNodes /\ LinkedNodes' = LinkedNodes \cup {checkpoint + 1}
      BY <1>2, <2>1, <2>2, <2>4, <3>1
    <3> QED
      BY <1>1, <1>2, <2>4, <3>1, <3>2, KeepsLink
  <2>5. CASE ~ (pc = "blocks") /\ ~ (pc = "transactions" /\ at \in BlockNodes)
    <3>1. BlockNodes' = BlockNodes /\ LinkedNodes' = LinkedNodes
      BY <2>1, <2>2, <2>5
    <3> QED
      BY <3>1, KeepsSame
  <2> QED
    BY <2>3, <2>4, <2>5
<1> QED
  BY <1>3, <1>4 DEF WritesOne, Adds

\* A task of Phase 6 writes no block and links no transaction to one.
LEMMA TaskKeeps ==
  ASSUME ShapeInv, StoreInv, WritesTask, checkpoint' = checkpoint, mode' = mode
  PROVE  Keeps
<1>1. PICK b \in 1 .. Buckets :
        /\ tasks[b].do \in {"performs", "benefits"}
        /\ Adds(tasks[b].via = "auto", LAMBDA view : TaskEffect(b, view))
  BY DEF WritesTask
<1>2. Chunk \subseteq Heights
  BY Here DEF WritesTask, ChunkShape, Phases
<1>3. ASSUME NEW n \in Heights
      PROVE  /\ <<"block", n>> \notin TaskEffect(b, durable)
             /\ <<"in", TxOf[n], n>> \notin TaskEffect(b, durable)
  <2>1. ASSUME NEW f \in TaskEffect(b, durable)
        PROVE  \E h \in Heights : f \in Effect(tasks[b].do, h, durable)
    BY <1>2 DEF TaskEffect, Work
  <2>2. tasks[b].do \in Queries /\ tasks[b].do # "blocks" /\ tasks[b].do # "transactions"
    BY <1>1 DEF Queries
  <2> QED
    BY <2>1, <2>2, EffectStore
<1>4. durable' = durable \/ durable' = durable \cup TaskEffect(b, durable)
  BY <1>1 DEF Adds
<1>5. BlockNodes' = BlockNodes /\ LinkedNodes' = LinkedNodes
  BY <1>3, <1>4 DEF BlockNodes, LinkedNodes, BlockComplete
<1> QED
  BY <1>5, KeepsSame

\* The blocks of the chunk, written up to its end.
LEMMA ChunkWritten ==
  ASSUME ShapeInv, Progress, pc \in {"checkpoint", "commit"}, NEW h \in Chunk
  PROVE  <<"block", h>> \in Written /\ <<"in", TxOf[h], h>> \in Written
<1>1. Layer("blocks", h) \subseteq Written /\ Layer("transactions", h) \subseteq Written
  BY DEF Progress, Phases, Before, Layers, Nodes
<1> QED
  BY <1>1 DEF Layer

\* The transaction has the blocks of the chunk and no others.
LEMMA CommitKeeps ==
  ASSUME ShapeInv, AtomicInv, Sound(Written), Progress, StoreInv, Commits, mode' = mode
  PROVE  Keeps
<1>1. /\ pc = "commit" /\ mode = "batch" /\ ChunkShape /\ First = checkpoint + 1
      /\ checkpoint \in Int /\ checkpoint >= -1 /\ checkpoint' = Last /\ durable' = Written
  BY WriteFrom DEF Commits, Phases, Written
<1>2. /\ Last \in Int /\ checkpoint < Last /\ Chunk = checkpoint + 1 .. Last
      /\ Chunk \subseteq Heights
  BY <1>1 DEF ChunkShape
<1>3. BlockNodes = 0 .. checkpoint /\ LinkedNodes = 0 .. checkpoint
  BY <1>1 DEF StoreInv
<1>4. 0 .. Last = (0 .. checkpoint) \cup Chunk
  BY <1>1, <1>2
<1>5. ASSUME NEW n \in Heights, <<"block", n>> \in Written
      PROVE  n \in 0 .. Last
  <2>1. CASE <<"block", n>> \in durable
    BY <2>1, <1>3, <1>4 DEF BlockNodes
  <2>2. CASE <<"block", n>> \in txn.facts
    <3>1. PICK h \in Chunk : Owned(<<"block", n>>, h)
      BY <2>2, <1>1 DEF AtomicInv
    <3> QED
      BY <3>1, <1>2, <1>4, OwnedBlock
  <2> QED
    BY <1>5, <2>1, <2>2 DEF Written
<1>6. BlockNodes' = {n \in Heights : <<"block", n>> \in Written}
      /\ LinkedNodes' = {n \in Heights : <<"in", TxOf[n], n>> \in Written}
  BY <1>1 DEF BlockNodes, LinkedNodes, BlockComplete
<1>7. ASSUME NEW n \in 0 .. Last
      PROVE  n \in Heights /\ <<"block", n>> \in Written /\ <<"in", TxOf[n], n>> \in Written
  <2>1. CASE n \in Chunk
    BY <2>1, <1>1, <1>2, ChunkWritten
  <2>2. CASE n \in 0 .. checkpoint
    BY <2>2, <1>3 DEF BlockNodes, LinkedNodes, BlockComplete, Written
  <2> QED
    BY <1>4, <2>1, <2>2
<1>8. LinkedNodes' \subseteq BlockNodes'
  BY <1>6 DEF Sound
<1>9. BlockNodes' = 0 .. Last /\ LinkedNodes' = 0 .. Last
  BY <1>5, <1>6, <1>7, <1>8
<1> QED
  BY <1>1, <1>2, <1>9, KeepsChunk

\* update_checkpoint of ingest_block, reported or not.
LEMMA CheckpointKeeps ==
  ASSUME ShapeInv, Progress, StoreInv, pc = "checkpoint", mode = "single", checkpoint' = Last,
         durable' = durable, mode' = mode
  PROVE  Keeps
<1>0. Written = durable
  BY DEF ShapeInv, TxnInv, NoTxn, Written
<1>1. /\ ChunkShape /\ First = checkpoint + 1 /\ checkpoint \in Int /\ checkpoint >= -1
      /\ Written = durable
  BY <1>0, WriteFrom DEF Phases
<1>2. Last = checkpoint + 1 /\ Last \in Chunk /\ Last \in Heights
  BY <1>1 DEF ChunkShape
<1>3. <<"block", Last>> \in durable /\ <<"in", TxOf[Last], Last>> \in durable
  BY <1>1, <1>2, ChunkWritten
<1>4. Last \in BlockNodes /\ Last \in LinkedNodes
  BY <1>2, <1>3 DEF BlockNodes, LinkedNodes, BlockComplete
<1>5. BlockNodes' = BlockNodes /\ LinkedNodes' = LinkedNodes
  BY DEF BlockNodes, LinkedNodes, BlockComplete
<1> QED
  BY <1>1, <1>2, <1>4, <1>5, KeepsEnd

\* sync_checkpoint_with_db: there is one block above the checkpoint at most.
LEMMA LaunchKeeps ==
  ASSUME ShapeInv, StoreInv, Launch, mode' = mode
  PROVE  Keeps
<1> DEFINE top == checkpoint + 1
<1>1. PICK highest \in Kept :
        /\ \A h \in Kept : h <= highest
        /\ durable' = RolledBack({h \in StoredAbove : h > highest})
        /\ checkpoint' = highest
  BY DEF Launch
<1>2. checkpoint \in Int /\ checkpoint >= -1 /\ \A h \in Heights : h \in Int
  BY WriterAssumption DEF ShapeInv, TypeInv, Heights
<1>3. StoredAbove = BlockNodes \cap {top}
  <2>1. StoredAbove = {h \in BlockNodes : h > checkpoint}
    BY DEF StoredAbove, BlockNodes
  <2>2. \A h \in BlockNodes : h > checkpoint <=> h = top
    BY <1>2 DEF StoreInv
  <2> QED
    BY <2>1, <2>2
<1>4. CASE top \notin BlockNodes
  <2>1. StoredAbove = {}
    BY <1>3, <1>4
  <2>2. highest = checkpoint /\ durable' = durable
    BY <1>1, <2>1 DEF Kept, RolledBack
  <2> QED
    BY <1>1, <2>2, KeepsSame DEF BlockNodes, LinkedNodes, BlockComplete
<1>5. CASE top \in BlockNodes /\ top \in LinkedNodes
  <2>1. StoredAbove = {top} /\ BlockComplete(top)
    BY <1>3, <1>5 DEF LinkedNodes
  <2>2. Kept = {checkpoint, top}
    BY <2>1 DEF Kept
  <2>3. highest = top
    BY <1>1, <1>2, <2>2
  <2>4. {h \in StoredAbove : h > highest} = {}
    BY <1>2, <2>1, <2>3
  <2>5. durable' = durable
    BY <1>1, <2>4 DEF RolledBack
  <2> QED
    BY <1>1, <1>2, <1>5, <2>3, <2>5, KeepsEnd DEF BlockNodes, LinkedNodes, BlockComplete
<1>6. CASE top \in BlockNodes /\ top \notin LinkedNodes
  <2>1. StoredAbove = {top} /\ ~ BlockComplete(top)
    BY <1>3, <1>6 DEF LinkedNodes, BlockNodes
  <2>2. Kept = {checkpoint}
    BY <2>1 DEF Kept
  <2>3. highest = checkpoint
    BY <1>1, <2>2
  <2>4. {h \in StoredAbove : h > highest} = {top}
    BY <1>2, <2>1, <2>3
  <2>5. durable' = RolledBack({top})
    BY <1>1, <2>4
  <2>6. ASSUME NEW n \in Heights
        PROVE  /\ <<"block", n>> \in durable' <=> <<"block", n>> \in durable /\ n # top
               /\ <<"in", TxOf[n], n>> \in durable' <=> <<"in", TxOf[n], n>> \in durable
    <3>1. /\ <<"block", n>>[1] = "block" /\ <<"block", n>>[2] = n
          /\ <<"in", TxOf[n], n>>[1] = "in"
      OBVIOUS
    <3> QED
      BY <2>5, <3>1 DEF RolledBack
  <2>7. BlockNodes' = BlockNodes \ {top} /\ LinkedNodes' = LinkedNodes
    BY <2>6 DEF BlockNodes, LinkedNodes, BlockComplete
  <2> QED
    BY <1>1, <1>2, <1>6, <2>3, <2>7, KeepsRemoved
<1> QED
  BY <1>4, <1>5, <1>6

\* Every step of the writer is a step of the contract, or none.
LEMMA NextKeeps ==
  ASSUME ShapeInv, AtomicInv, WholeInv, StoreInv, [Next]_vars
  PROVE  Keeps
<1>1. mode' = mode /\ (Quiet \/ Commits \/ WritesOne \/ WritesTask)
  BY StepFacts
<1>2. CASE Launch
  BY <1>1, <1>2, LaunchKeeps
<1>3. CASE Commit \/ CommitFails
  <2>1. /\ pc = "commit" /\ mode = "batch" /\ txn.height = Last /\ txn' = NoTxn
    BY <1>3 DEF Commit, CommitFails, ShapeInv, TxnInv, PlaceInv
  <2>2. CASE Committed
    <3>1. Commits
      BY <2>1, <2>2 DEF Committed, Commits, NoTxn
    <3> QED
      BY <1>1, <3>1, CommitKeeps DEF WholeInv
  <2>3. CASE UNCHANGED <<durable, checkpoint>>
    BY <1>1, <2>3, KeepsSame DEF BlockNodes, LinkedNodes, BlockComplete
  <2> QED
    BY <1>3, <2>2, <2>3 DEF Commit, CommitFails
<1>4. CASE UpdateCheckpoint \/ UpdateCheckpointFails
  <2>1. pc = "checkpoint" /\ durable' = durable
    BY <1>4 DEF UpdateCheckpoint, UpdateCheckpointFails
  <2>2. checkpoint' = checkpoint \/ (mode = "single" /\ checkpoint' = Last)
    BY <1>4 DEF UpdateCheckpoint, UpdateCheckpointFails, ShapeInv, TypeInv
  <2>3. CASE checkpoint' = checkpoint
    BY <1>1, <2>1, <2>3, KeepsSame DEF BlockNodes, LinkedNodes, BlockComplete
  <2>4. CASE mode = "single" /\ checkpoint' = Last
    BY <1>1, <2>1, <2>4, CheckpointKeeps DEF WholeInv
  <2> QED
    BY <2>2, <2>3, <2>4
<1>5. CASE Write \/ AttemptFails
  <2>1. checkpoint' = checkpoint
    BY <1>5 DEF Write, AttemptFails
  <2>2. CASE Quiet
    <3>1. ~ Launch
      BY <1>5 DEF Write, AttemptFails, Launch, Queries, Creating
    <3> QED
      BY <1>1, <2>1, <2>2, <3>1, KeepsSame DEF Quiet, BlockNodes, LinkedNodes, BlockComplete
  <2> QED
    BY <1>1, <1>5, <2>1, <2>2, WriteSteps, QueryKeeps
<1>6. CASE \E b \in 1 .. Buckets : TaskWrites(b) \/ TaskFails(b)
  <2>1. PICK b \in 1 .. Buckets : TaskWrites(b) \/ TaskFails(b)
    BY <1>6
  <2>2. checkpoint' = checkpoint
    BY <2>1 DEF TaskWrites, TaskFails
  <2>3. CASE Quiet
    <3>1. ~ Launch
      BY <2>1 DEF TaskWrites, TaskFails, Launch
    <3>2. durable' = durable
      BY <2>3, <3>1 DEF Quiet
    <3> QED
      BY <1>1, <2>2, <3>2, KeepsSame DEF BlockNodes, LinkedNodes, BlockComplete
  <2> QED
    BY <1>1, <2>1, <2>2, <2>3, TaskSteps, TaskKeeps
<1>7. CASE Exit \/ Crash \/ NextBatch \/ Scan \/ ScanEnds \/ Begin \/ BeginFails \/ Rollback
           \/ WriteFails \/ Spawn \/ Await \/ UNCHANGED vars
           \/ \E b \in 1 .. Buckets : TaskLooks(b) \/ TaskFindsClosed(b)
  <2>1. durable' = durable /\ checkpoint' = checkpoint
    BY <1>7 DEF Exit, Crash, NextBatch, Scan, ScanEnds, Begin, BeginFails, Rollback, WriteFails, Spawn,
                Await, TaskLooks, TaskFindsClosed, vars, graphVars
  <2> QED
    BY <1>1, <2>1, KeepsSame DEF BlockNodes, LinkedNodes, BlockComplete
<1> QED
  BY <1>2, <1>3, <1>4, <1>5, <1>6, <1>7 DEF Next, Process, Faults

\* Query by query, in both ways and with all failures, retries and restarts, the
\* writer keeps the contract that a start relies on.
THEOREM WriterImplements == Spec => ImplementsBlockStore
<1>1. Init => StoreInv /\ Contract!Init
  <2> SUFFICES ASSUME Init PROVE StoreInv /\ Contract!Init
    OBVIOUS
  <2>1. durable = {} /\ checkpoint = -1 /\ mode \in {"batch", "single"}
    BY WriterAssumption DEF Init
  <2>2. BlockNodes = {} /\ LinkedNodes = {} /\ 0 .. -1 = {}
    BY <2>1 DEF BlockNodes, LinkedNodes, BlockComplete
  <2>3. StoreInv
    BY <2>1, <2>2 DEF StoreInv
  <2>4. Contract!Init
    BY <2>1, <2>2 DEF Contract!Init, Contract!UpTo
  <2> QED
    BY <2>3, <2>4
<1>2. Init => AtomicInv /\ WholeInv
  BY InitWhole DEF Init, AtomicInv, NoTxn
<1>3. ShapeInv /\ AtomicInv /\ [Next]_vars => AtomicInv'
  BY NextAtomic
<1>4. ShapeInv /\ ShapeInv' /\ WholeInv /\ [Next]_vars => WholeInv'
  BY NextSound, NextProgress, NextWhole DEF WholeInv
<1>5. ShapeInv /\ AtomicInv /\ WholeInv /\ StoreInv /\ [Next]_vars
        => StoreInv' /\ [Contract!Next]_Contract!vars
  BY NextKeeps DEF Keeps
<1> QED
  BY <1>1, <1>2, <1>3, <1>4, <1>5, ShapeInvariant, PTL DEF Spec, ImplementsBlockStore, Contract!Spec

===============================================================================
