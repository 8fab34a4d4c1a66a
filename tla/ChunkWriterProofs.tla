--------------------------- MODULE ChunkWriterProofs ---------------------------
(***************************************************************************)
(* ChunkWriter for every chain, every set of BIP30 duplicates, every batch *)
(* size, memory budget, number of buckets and number of failures:          *)
(* WriterTypeCorrect, and the ShapeInv it rests on, which says where the   *)
(* writer is: the ranges of a batch follow each other without a gap, the   *)
(* chunk that is written begins one above the checkpoint, and tasks run    *)
(* only while their chunk is written or given up.  ChunksFitBudget follows *)
(* the running memory of compute_adaptive_chunks, a sum of DataLemmas.     *)
(* ChunkFactProofs says what is in the graph.                              *)
(***************************************************************************)
EXTENDS ChunkWriter, DataLemmas

Phases == Queries \cup {"spawn", "await", "checkpoint", "commit", "rollback"}
Places == Phases \cup {"down", "next", "cut", "begin", "exit"}

Task == [do : {"performs", "benefits", "end"}, via : {None, "txn", "auto"}, ok : BOOLEAN]

TypeInv ==
  /\ mode \in {"batch", "single"}
  /\ pc \in Places
  /\ checkpoint \in -1 .. MaxHeight
  /\ next \in 0 .. MaxHeight + 1
  /\ batch \in [first : Heights, last : Heights]
  /\ batch.first <= batch.last /\ batch.last - batch.first < BatchSize
  /\ scan \in [ranges : Seq(Nat \X Nat), start : Nat, memory : Nat, i : Nat]
  /\ memory \in [Heights -> Nat \ {0}]
  /\ chunk \in Nat
  /\ attempt \in 0 .. MaxRetries
  /\ tasks \in [1 .. Buckets -> Task]
  /\ awaiting \in 0 .. Buckets

\* The ranges R begin with the batch, follow each other, and end at e, which
\* is at most n.
InRow(R, e, n) ==
  /\ R \in Seq(Nat \X Nat)
  /\ \A k \in 1 .. Len(R) : R[k][1] < R[k][2] /\ R[k][2] <= n
  /\ \A k \in 1 .. Len(R) - 1 : R[k + 1][1] = R[k][2]
  /\ Len(R) > 0 => R[1][1] = 0
  /\ e = IF Len(R) = 0 THEN 0 ELSE R[Len(R)][2]

ScanInv ==
  /\ scan.start <= scan.i /\ scan.i <= Blocks
  /\ \E e \in 0 .. Blocks : InRow(scan.ranges, e, Blocks) /\ (pc = "cut" => e = scan.start)

ChunkInv ==
  /\ mode = "single" => batch.first = batch.last
  /\ mode = "batch" /\ pc \in Phases \cup {"begin"} => scan.ranges[Len(scan.ranges)][2] = Blocks
  /\ mode = "batch" /\ pc \in Phases \cup {"begin", "exit"} => chunk \in 1 .. Len(scan.ranges)

TxnInv ==
  /\ txn = [open |-> txn.open, facts |-> txn.facts, height |-> txn.height]
  /\ txn.open \in BOOLEAN
  /\ txn.height \in Heights \cup {None}
  /\ txn.open => mode = "batch" /\ pc \in Phases
  /\ ~ txn.open => txn = NoTxn
  /\ pc \in Phases /\ mode = "batch" => txn.open
  /\ pc = "commit" => txn.height = Last

PlaceInv ==
  /\ pc \in {"cut", "begin", "spawn", "await", "commit", "rollback"} => mode = "batch"
  /\ pc \in {"performs", "benefits"} => mode = "single"
  /\ pc \in Queries => at \in Chunk
  /\ pc = "next" => next = checkpoint + 1
  /\ pc = "cut" => batch.first = checkpoint + 1
  /\ pc \in Phases \cup {"begin"} => First = checkpoint + 1

TaskInv ==
  /\ \A b \in 1 .. Buckets :
       /\ tasks[b].do # "end" => pc \in {"await", "rollback", "exit"} /\ mode = "batch" /\ tasks[b].ok
       /\ tasks[b].via # None => tasks[b].do # "end"
       /\ tasks[b].via = "auto" => ~ txn.open
  /\ pc = "await" => /\ awaiting \in 1 .. Buckets
                     /\ \A b \in 1 .. awaiting - 1 : tasks[b].do = "end" /\ tasks[b].ok

ShapeInv == TypeInv /\ ScanInv /\ ChunkInv /\ TxnInv /\ PlaceInv /\ TaskInv

-----------------------------------------------------------------------------
(* The chunk *)

InChunk == mode = "batch" => chunk \in 1 .. Len(scan.ranges)

ChunkShape ==
  /\ Chunk \subseteq batch.first .. batch.last
  /\ Chunk \subseteq Heights
  /\ First \in Chunk /\ Last \in Chunk
  /\ Chunk = First .. Last
  /\ mode = "single" => First = batch.first /\ Last = batch.first
  /\ mode = "batch" => /\ First = batch.first + scan.ranges[chunk][1]
                       /\ Last = batch.first + scan.ranges[chunk][2] - 1

\* The blocks that are written are an interval within the batch.
LEMMA ChunkFacts == TypeInv /\ ScanInv /\ ChunkInv /\ InChunk => ChunkShape
<1> SUFFICES ASSUME TypeInv, ScanInv, ChunkInv, InChunk PROVE ChunkShape
  OBVIOUS
<1> DEFINE lo == IF mode = "single" THEN batch.first ELSE batch.first + scan.ranges[chunk][1]
           hi == IF mode = "single" THEN batch.last ELSE batch.first + scan.ranges[chunk][2] - 1
<1>1. MaxHeight \in Nat /\ BatchSize \in Nat
  BY WriterAssumption
<1>2. batch.first \in Heights /\ batch.last \in Heights /\ batch.first <= batch.last
  BY DEF TypeInv
<1>3. lo \in Int /\ hi \in Int /\ batch.first <= lo /\ lo <= hi /\ hi <= batch.last
  <2>1. CASE mode = "single"
    BY <2>1, <1>1, <1>2 DEF Heights
  <2>2. CASE mode = "batch"
    <3>1. scan.ranges \in Seq(Nat \X Nat) /\ chunk \in 1 .. Len(scan.ranges)
      BY <2>2 DEF TypeInv, InChunk
    <3>2. scan.ranges[chunk] \in Nat \X Nat
      BY <3>1
    <3>3. scan.ranges[chunk][1] \in Nat /\ scan.ranges[chunk][2] \in Nat
      BY <3>2
    <3>4. scan.ranges[chunk][1] < scan.ranges[chunk][2] /\ scan.ranges[chunk][2] <= Blocks
      BY <3>1 DEF ScanInv, InRow
    <3>5. batch.first \in Int /\ batch.last \in Int
      BY <1>1, <1>2 DEF Heights
    <3>6. scan.ranges[chunk][2] <= batch.last - batch.first + 1
      BY <3>4 DEF Blocks
    <3>7. lo = batch.first + scan.ranges[chunk][1] /\ hi = batch.first + scan.ranges[chunk][2] - 1
      BY <2>2
    <3> HIDE DEF lo, hi
    <3>8. ASSUME NEW f \in Int, NEW l \in Int, NEW a \in Nat, NEW c \in Nat,
                 a < c, c <= l - f + 1, lo = f + a, hi = f + c - 1
          PROVE  lo \in Int /\ hi \in Int /\ f <= lo /\ lo <= hi /\ hi <= l
      BY <3>8
    <3> QED
      BY <3>3, <3>4, <3>5, <3>6, <3>7, <3>8
  <2> QED
    BY <2>1, <2>2 DEF TypeInv
<1>4. Chunk = lo .. hi
  BY DEF Chunk
<1> HIDE DEF lo, hi
<1>5. First = lo
  <2>1. lo \in Chunk /\ \A k \in Chunk : lo <= k
    BY <1>3, <1>4
  <2>2. \A h \in Chunk : (\A k \in Chunk : h <= k) => h = lo
    BY <1>3, <1>4, <2>1
  <2> QED
    BY <2>1, <2>2 DEF First
<1>6. Last = hi
  <2>1. hi \in Chunk /\ \A k \in Chunk : k <= hi
    BY <1>3, <1>4
  <2>2. \A h \in Chunk : (\A k \in Chunk : k <= h) => h = hi
    BY <1>3, <1>4, <2>1
  <2> QED
    BY <2>1, <2>2 DEF Last
<1>7. Chunk \subseteq batch.first .. batch.last
  BY <1>2, <1>3, <1>4 DEF Heights
<1>8. Chunk \subseteq Heights
  BY <1>1, <1>2, <1>7 DEF Heights
<1>9. mode = "single" => lo = batch.first /\ hi = batch.first
  BY DEF lo, hi, ChunkInv
<1>10. mode = "batch" => /\ lo = batch.first + scan.ranges[chunk][1]
                         /\ hi = batch.first + scan.ranges[chunk][2] - 1
  BY DEF lo, hi
<1> QED
  BY <1>3, <1>4, <1>5, <1>6, <1>7, <1>8, <1>9, <1>10 DEF ChunkShape

\* The same in the next state.
LEMMA ChunkFactsNext == TypeInv' /\ ScanInv' /\ ChunkInv' /\ InChunk' => ChunkShape'
BY ChunkFacts, PTL

\* Nothing that decides on the chunk has changed.
LEMMA SameChunk ==
  ASSUME UNCHANGED <<mode, batch, scan, chunk>>
  PROVE  Chunk' = Chunk /\ First' = First /\ Last' = Last /\ Blocks' = Blocks
<1>1. Chunk' = Chunk
  BY DEF Chunk
<1> QED
  BY <1>1 DEF First, Last, Blocks

\* No ranges yet.
LEMMA EmptyInRow == ASSUME NEW n PROVE InRow(<<>>, 0, n)
BY DEF InRow

\* ShapeInv holds at first.
LEMMA InitShape == Init => ShapeInv
<1> SUFFICES ASSUME Init PROVE ShapeInv
  OBVIOUS
<1>1. /\ MaxHeight \in Nat /\ Buckets \in Nat \ {0} /\ BatchSize \in Nat \ {0} /\ MaxRetries \in Nat
      /\ Memories \subseteq [Heights -> Nat \ {0}] /\ Modes \subseteq {"batch", "single"}
  BY WriterAssumption
<1>2. TypeInv
  <2>1. tasks \in [1 .. Buckets -> Task]
    BY DEF Init, Idle, Task
  <2>2. scan \in [ranges : Seq(Nat \X Nat), start : Nat, memory : Nat, i : Nat]
    BY DEF Init, NoScan
  <2>3. batch \in [first : Heights, last : Heights] /\ batch.first = 0 /\ batch.last = 0
    BY <1>1 DEF Init, Heights
  <2>4. memory \in [Heights -> Nat \ {0}] /\ mode \in {"batch", "single"}
    BY <1>1 DEF Init
  <2>5. 0 \in 0 .. MaxRetries /\ 0 \in 0 .. Buckets /\ 0 \in 0 .. MaxHeight + 1 /\ -1 \in -1 .. MaxHeight
    BY <1>1
  <2> QED
    <3>1. /\ pc = "down" /\ checkpoint = -1 /\ next = 0 /\ batch.first <= batch.last
          /\ batch.last - batch.first < BatchSize /\ chunk = 0 /\ attempt = 0 /\ awaiting = 0
      BY <1>1, <2>3 DEF Init
    <3>2. pc \in Places /\ chunk \in Nat
      BY <3>1 DEF Places
    <3> QED
      BY <2>1, <2>2, <2>3, <2>4, <2>5, <3>1, <3>2 DEF TypeInv
<1>3. ScanInv
  <2>1. scan = NoScan /\ batch.first = 0 /\ batch.last = 0 /\ pc = "down"
    BY DEF Init
  <2>2. Blocks \in Nat
    BY <2>1 DEF Blocks
  <2>3. scan.ranges = <<>> /\ scan.i = 0 /\ scan.start = 0 /\ scan.memory = 0
    BY <2>1 DEF NoScan
  <2> QED
    BY <2>1, <2>2, <2>3, EmptyInRow DEF ScanInv
<1>4. ChunkInv /\ TxnInv /\ PlaceInv /\ TaskInv
  BY <1>1 DEF Init, ChunkInv, TxnInv, PlaceInv, TaskInv, NoTxn, Idle, Phases, Queries, Creating
<1> QED
  BY <1>2, <1>3, <1>4 DEF ShapeInv

\* A step within a batch leaves ScanInv and ChunkInv, wherever it goes among
\* the phases or out of them.
LEMMA KeepsRanges ==
  ASSUME ShapeInv, UNCHANGED <<batch, scan, chunk, mode>>,
         pc' # "cut",
         pc' \in Phases \cup {"begin", "exit"} => pc \in Phases \cup {"begin", "exit"},
         pc' \in Phases \cup {"begin"} => pc \in Phases \cup {"begin"}
  PROVE  ScanInv' /\ ChunkInv'
<1>1. Blocks' = Blocks
  BY SameChunk
<1>2. ScanInv'
  BY <1>1 DEF ShapeInv, ScanInv
<1>3. ChunkInv'
  BY <1>1 DEF ShapeInv, ChunkInv
<1> QED
  BY <1>2, <1>3

\* A process that has ended has no chunk, no transaction and no tasks.
LEMMA GoneShape ==
  ASSUME ShapeInv, Gone, UNCHANGED <<checkpoint, next, batch, fixed>>
  PROVE  ShapeInv'
<1>1. MaxHeight \in Nat /\ Buckets \in Nat \ {0} /\ BatchSize \in Nat \ {0} /\ MaxRetries \in Nat
  BY WriterAssumption
<1>2. TypeInv'
  <2>1. tasks' \in [1 .. Buckets -> Task]
    BY DEF Gone, Idle, Task
  <2>2. scan' \in [ranges : Seq(Nat \X Nat), start : Nat, memory : Nat, i : Nat]
    BY DEF Gone, NoScan
  <2>3. attempt' \in 0 .. MaxRetries /\ awaiting' \in 0 .. Buckets /\ chunk' \in Nat
    BY <1>1 DEF Gone
  <2>4. pc' \in Places
    BY DEF Gone, Places
  <2> QED
    BY <2>1, <2>2, <2>3, <2>4 DEF ShapeInv, TypeInv, fixed
<1>3. ScanInv'
  BY <1>1, EmptyInRow DEF ShapeInv, TypeInv, Gone, ScanInv, NoScan, Blocks, Heights
<1>4. ChunkInv' /\ TxnInv' /\ PlaceInv' /\ TaskInv'
  BY <1>1 DEF ShapeInv, Gone, ChunkInv, TxnInv, PlaceInv, TaskInv, NoTxn, Idle, Phases, Queries,
              Creating, fixed
<1> QED
  BY <1>2, <1>3, <1>4 DEF ShapeInv

\* sync_checkpoint_with_db leaves the checkpoint one below the block to go on with.
LEMMA LaunchShape == ShapeInv /\ Launch => ShapeInv'
<1> SUFFICES ASSUME ShapeInv, Launch PROVE ShapeInv'
  OBVIOUS
<1>1. MaxHeight \in Nat
  BY WriterAssumption
<1>2. PICK highest \in Kept : checkpoint' = highest /\ next' = highest + 1
  BY DEF Launch
<1>3. highest \in -1 .. MaxHeight
  BY <1>1, <1>2 DEF Kept, StoredAbove, Heights, ShapeInv, TypeInv
<1>4. TypeInv'
  BY <1>1, <1>2, <1>3 DEF ShapeInv, TypeInv, Launch, Places, queryVars, taskVars, fixed
<1>5. ScanInv' /\ ChunkInv'
  BY KeepsRanges DEF Launch, fixed, Phases, Queries, Creating
<1>6. TxnInv' /\ PlaceInv' /\ TaskInv'
  BY <1>2, <1>3 DEF ShapeInv, Launch, TxnInv, PlaceInv, TaskInv, NoTxn, Phases, Queries, Creating,
                    taskVars, fixed
<1> QED
  BY <1>4, <1>5, <1>6 DEF ShapeInv

\* The next batch, or the next block of ingest_block, begins above the checkpoint.
LEMMA NextBatchShape == ShapeInv /\ NextBatch => ShapeInv'
<1> SUFFICES ASSUME ShapeInv, NextBatch PROVE ShapeInv'
  OBVIOUS
<1>1. MaxHeight \in Nat /\ BatchSize \in Nat \ {0}
  BY WriterAssumption
<1>2. next \in Heights /\ next = checkpoint + 1
  BY <1>1 DEF ShapeInv, TypeInv, PlaceInv, NextBatch, Heights
<1>3. /\ batch' \in [first : Heights, last : Heights]
      /\ batch'.first = next
      /\ batch'.first <= batch'.last /\ batch'.last - batch'.first < BatchSize
      /\ mode = "single" => batch'.last = batch'.first
  BY <1>1, <1>2 DEF NextBatch, Least, Heights
<1>4. scan' = NoScan /\ pc' \in {"blocks", "cut"}
  BY DEF NextBatch
<1>5. TypeInv'
  <2>1. scan' \in [ranges : Seq(Nat \X Nat), start : Nat, memory : Nat, i : Nat]
    BY <1>4 DEF NoScan
  <2>2. pc' \in Places
    BY <1>4 DEF Places, Phases, Queries, Creating
  <2> QED
    BY <1>3, <2>1, <2>2 DEF ShapeInv, TypeInv, NextBatch, graphVars, taskVars, fixed
<1>6. ScanInv'
  BY <1>1, <1>3, <1>4, EmptyInRow DEF ScanInv, NoScan, Blocks, Heights
<1>7. ChunkInv'
  BY <1>3 DEF NextBatch, ChunkInv, fixed, Phases, Queries, Creating
<1>8. TxnInv'
  BY DEF ShapeInv, TypeInv, TxnInv, NextBatch, graphVars, fixed, Phases, Queries, Creating, NoTxn
<1>9. PlaceInv'
  <2>1. CASE mode = "batch"
    BY <2>1, <1>2, <1>3 DEF NextBatch, PlaceInv, Phases, Queries, Creating, graphVars, fixed
  <2>2. CASE mode = "single"
    <3>1. First' = next /\ Chunk' = First' .. Last' /\ Last' = next
      BY <2>2, <1>3, <1>5, <1>6, <1>7, ChunkFactsNext DEF InChunk, ChunkShape, NextBatch, fixed
    <3> QED
      BY <2>2, <3>1, <1>2 DEF NextBatch, PlaceInv, graphVars, fixed, Phases, Queries, Creating, Heights
  <2> QED
    BY <2>1, <2>2 DEF ShapeInv, TypeInv
<1>10. TaskInv'
  BY DEF ShapeInv, TaskInv, NextBatch, graphVars, taskVars, fixed
<1> QED
  BY <1>5, <1>6, <1>7, <1>8, <1>9, <1>10 DEF ShapeInv

\* A range that begins where the last one ends.
LEMMA AppendInRow ==
  ASSUME NEW R, NEW a \in Nat, NEW e \in Nat, NEW n \in Nat, InRow(R, a, n), a < e, e <= n
  PROVE  InRow(Append(R, <<a, e>>), e, n)
<1> DEFINE r == <<a, e>>
           S == Append(R, r)
<1>1. r \in Nat \X Nat /\ r[1] = a /\ r[2] = e
  OBVIOUS
<1> HIDE DEF r
<1>2. R \in Seq(Nat \X Nat) /\ Len(R) \in Nat
  BY DEF InRow
<1>3. /\ S \in Seq(Nat \X Nat)
      /\ Len(S) = Len(R) + 1
      /\ \A k \in 1 .. Len(R) : S[k] = R[k]
      /\ S[Len(R) + 1] = r
  BY <1>1, <1>2
<1> HIDE DEF S
<1>4. \A k \in 1 .. Len(S) : S[k][1] < S[k][2] /\ S[k][2] <= n
  <2> SUFFICES ASSUME NEW k \in 1 .. Len(S) PROVE S[k][1] < S[k][2] /\ S[k][2] <= n
    OBVIOUS
  <2>1. CASE k = Len(R) + 1
    BY <2>1, <1>1, <1>3
  <2>2. CASE k \in 1 .. Len(R)
    BY <2>2, <1>3 DEF InRow
  <2> QED
    BY <2>1, <2>2, <1>2, <1>3
<1>5. \A k \in 1 .. Len(S) - 1 : S[k + 1][1] = S[k][2]
  <2> SUFFICES ASSUME NEW k \in 1 .. Len(S) - 1 PROVE S[k + 1][1] = S[k][2]
    OBVIOUS
  <2>1. CASE k = Len(R)
    <3>1. S[k + 1] = r /\ S[k] = R[k]
      BY <2>1, <1>2, <1>3
    <3>2. R[k][2] = a
      BY <2>1, <1>2, <1>3 DEF InRow
    <3> QED
      BY <3>1, <3>2, <1>1
  <2>2. CASE k \in 1 .. Len(R) - 1
    <3>1. S[k + 1] = R[k + 1] /\ S[k] = R[k]
      BY <2>2, <1>2, <1>3
    <3> QED
      BY <2>2, <3>1 DEF InRow
  <2> QED
    BY <2>1, <2>2, <1>2, <1>3
<1>6. S[1][1] = 0
  <2>1. CASE Len(R) = 0
    <3>1. S[1] = r /\ a = 0
      BY <2>1, <1>3 DEF InRow
    <3> QED
      BY <3>1, <1>1
  <2>2. CASE Len(R) > 0
    <3>1. S[1] = R[1] /\ R[1][1] = 0
      BY <2>2, <1>2, <1>3 DEF InRow
    <3> QED
      BY <3>1
  <2> QED
    BY <2>1, <2>2, <1>2
<1>7. S[Len(S)][2] = e /\ Len(S) > 0
  BY <1>1, <1>2, <1>3
<1>8. InRow(S, e, n)
  BY <1>3, <1>4, <1>5, <1>6, <1>7 DEF InRow
<1> QED
  BY <1>8 DEF S, r

\* Closing the open range keeps the ranges in a row.
LEMMA ClosedInRow ==
  ASSUME TypeInv, ScanInv, pc = "cut", NEW i \in Nat, scan.start <= i, i <= Blocks, Blocks \in Nat
  PROVE  InRow(Closed(i), i, Blocks)
<1>1. scan.start \in Nat
  BY DEF TypeInv
<1>2. InRow(scan.ranges, scan.start, Blocks)
  BY DEF ScanInv
<1>3. CASE scan.start < i
  BY <1>1, <1>2, <1>3, AppendInRow DEF Closed
<1>4. CASE scan.start = i
  BY <1>2, <1>4 DEF Closed
<1> QED
  BY <1>1, <1>3, <1>4

\* One iteration of compute_adaptive_chunks keeps the ranges in a row.
LEMMA ScanShape == ShapeInv /\ Scan => ShapeInv'
<1> SUFFICES ASSUME ShapeInv, Scan PROVE ShapeInv'
  OBVIOUS
<1>1. /\ scan.i \in Nat /\ scan.start \in Nat /\ scan.memory \in Nat
      /\ scan.ranges \in Seq(Nat \X Nat)
      /\ batch.first \in Nat /\ batch.last \in Nat /\ batch.last <= MaxHeight
      /\ MaxHeight \in Nat
  BY WriterAssumption DEF ShapeInv, TypeInv, Heights
<1>2. pc = "cut" /\ scan.i < Blocks /\ scan.start <= scan.i
  BY DEF Scan, ShapeInv, ScanInv
<1>3. Blocks \in Nat /\ Blocks' = Blocks
  BY <1>1, <1>2 DEF Scan, Blocks
<1>4. Memory(scan.i) \in Nat
  <2>1. batch.first + scan.i \in Heights
    BY <1>1, <1>2 DEF Blocks, Heights
  <2> QED
    BY <2>1 DEF Memory, ShapeInv, TypeInv
<1> DEFINE C == Closed(scan.i)
<1>5. InRow(C, scan.i, Blocks)
  BY <1>1, <1>2, <1>3, ClosedInRow DEF ShapeInv
<1>6. /\ scan' \in [ranges : Seq(Nat \X Nat), start : Nat, memory : Nat, i : Nat]
      /\ scan'.start <= scan'.i /\ scan'.i <= Blocks
      /\ InRow(scan'.ranges, scan'.start, Blocks)
  <2>1. CASE scan' = [scan EXCEPT !.memory = @ + Memory(scan.i), !.i = scan.i + 1]
    <3>1. scan \in [ranges : Seq(Nat \X Nat), start : Nat, memory : Nat, i : Nat]
      BY DEF ShapeInv, TypeInv
    <3>2. InRow(scan.ranges, scan.start, Blocks)
      BY <1>2 DEF ShapeInv, ScanInv
    <3>3. /\ scan'.ranges = scan.ranges /\ scan'.start = scan.start /\ scan'.i = scan.i + 1
          /\ scan' \in [ranges : Seq(Nat \X Nat), start : Nat, memory : Nat, i : Nat]
      <4> DEFINE m == Memory(scan.i)
      <4>1. m \in Nat
        BY <1>4
      <4>2. scan' = [scan EXCEPT !.memory = scan.memory + m, !.i = scan.i + 1]
        BY <2>1
      <4> HIDE DEF m
      <4>3. scan.memory + m \in Nat /\ scan.i + 1 \in Nat
        BY <4>1, <1>1
      <4> DEFINE a == scan.memory + m
                 b == scan.i + 1
      <4>4. scan' = [scan EXCEPT !.memory = a, !.i = b]
        BY <4>2
      <4>5. a \in Nat /\ b \in Nat
        BY <4>3
      <4> HIDE DEF a
      <4>6. /\ scan'.ranges = scan.ranges /\ scan'.start = scan.start /\ scan'.i = b
            /\ scan' \in [ranges : Seq(Nat \X Nat), start : Nat, memory : Nat, i : Nat]
        <5> HIDE DEF b
        <5> QED
          BY <4>4, <4>5, <3>1
      <4> QED
        BY <4>6
    <3> QED
      BY <3>2, <3>3, <1>1, <1>2, <1>3
  <2>2. CASE scan' = [ranges |-> C, start |-> scan.i, memory |-> Memory(scan.i), i |-> scan.i + 1]
    <3>1. C \in Seq(Nat \X Nat)
      BY <1>5 DEF InRow
    <3> HIDE DEF C
    <3> QED
      BY <2>2, <3>1, <1>1, <1>2, <1>3, <1>4, <1>5
  <2>3. CASE scan' = [ranges |-> Append(C, <<scan.i, scan.i + 1>>),
                      start |-> scan.i + 1, memory |-> 0, i |-> scan.i + 1]
    <3> DEFINE S == Append(C, <<scan.i, scan.i + 1>>)
    <3>1. InRow(S, scan.i + 1, Blocks)
      BY <1>1, <1>2, <1>3, <1>5, AppendInRow
    <3>2. S \in Seq(Nat \X Nat)
      BY <3>1 DEF InRow
    <3> HIDE DEF S, C
    <3>3. scan' = [ranges |-> S, start |-> scan.i + 1, memory |-> 0, i |-> scan.i + 1]
      BY <2>3 DEF S
    <3> QED
      BY <3>1, <3>2, <3>3, <1>1, <1>2, <1>3
  <2> QED
    BY <2>1, <2>2, <2>3 DEF Scan, C
<1>7. TypeInv'
  BY <1>6 DEF ShapeInv, TypeInv, Scan, graphVars, queryVars, taskVars, fixed
<1>71. ScanInv'
  <2>1. scan'.start \in 0 .. Blocks
    BY <1>3, <1>6
  <2> QED
    BY <2>1, <1>3, <1>6 DEF ScanInv
<1>8. ChunkInv' /\ TxnInv' /\ PlaceInv' /\ TaskInv'
  BY <1>2 DEF ShapeInv, Scan, ChunkInv, TxnInv, PlaceInv, TaskInv, Phases, Queries, Creating,
              graphVars, queryVars, taskVars, fixed
<1> QED
  BY <1>7, <1>71, <1>8 DEF ShapeInv

\* The last range ends with the batch, so the ranges cover it.
LEMMA ScanEndsShape == ShapeInv /\ ScanEnds => ShapeInv'
<1> SUFFICES ASSUME ShapeInv, ScanEnds PROVE ShapeInv'
  OBVIOUS
<1>1. /\ scan.i \in Nat /\ scan.start \in Nat
      /\ scan \in [ranges : Seq(Nat \X Nat), start : Nat, memory : Nat, i : Nat]
      /\ batch.first \in Int /\ batch.last \in Int /\ batch.first <= batch.last
  BY WriterAssumption DEF ShapeInv, TypeInv, Heights
<1>2. pc = "cut" /\ scan.i = Blocks /\ scan.start <= Blocks /\ mode = "batch"
  BY DEF ScanEnds, ShapeInv, ScanInv, PlaceInv
<1>3. Blocks \in Nat \ {0} /\ Blocks' = Blocks
  BY <1>1 DEF ScanEnds, Blocks
<1> DEFINE C == Closed(Blocks)
<1>4. InRow(C, Blocks, Blocks)
  BY <1>1, <1>2, <1>3, ClosedInRow DEF ShapeInv
<1>5. scan' = [scan EXCEPT !.ranges = C] /\ chunk' = 1 /\ pc' = "begin"
  BY DEF ScanEnds
<1> HIDE DEF C
<1>6. C \in Seq(Nat \X Nat) /\ Len(C) > 0 /\ Len(C) \in Nat /\ C[Len(C)][2] = Blocks /\ C[1][1] = 0
  BY <1>3, <1>4 DEF InRow
<1>7. TypeInv'
  <2>1. scan' \in [ranges : Seq(Nat \X Nat), start : Nat, memory : Nat, i : Nat]
    BY <1>1, <1>5, <1>6
  <2> QED
    BY <2>1, <1>5 DEF ShapeInv, TypeInv, ScanEnds, Places, graphVars, queryVars, taskVars, fixed
<1>8. ScanInv'
  BY <1>1, <1>2, <1>3, <1>4, <1>5 DEF ScanInv
<1>9. ChunkInv'
  <2>1. scan'.ranges = C /\ 1 \in 1 .. Len(C) /\ mode' = "batch"
    BY <1>1, <1>2, <1>5, <1>6 DEF ScanEnds, fixed
  <2> QED
    BY <1>3, <1>5, <1>6, <2>1 DEF ChunkInv
<1>10. TxnInv' /\ TaskInv'
  <2>1. UNCHANGED <<txn, tasks, awaiting, mode, at, attempt>> /\ pc = "cut" /\ pc' = "begin" /\ mode = "batch"
    BY <1>2 DEF ScanEnds, graphVars, taskVars, queryVars, fixed
  <2>2. TxnInv'
    BY <2>1 DEF ShapeInv, TxnInv, Phases, Queries, Creating
  <2>3. TaskInv'
    BY <2>1 DEF ShapeInv, TaskInv, Phases, Queries, Creating
  <2> QED
    BY <2>2, <2>3
<1>11. PlaceInv'
  <2>1. First' = batch.first + C[1][1]
    BY <1>1, <1>2, <1>5, <1>6, <1>7, <1>8, <1>9, ChunkFactsNext
       DEF InChunk, ChunkShape, ScanEnds, fixed
  <2>2. First' = batch.first
    BY <2>1, <1>1, <1>6
  <2> QED
    BY <2>2, <1>2, <1>5 DEF ShapeInv, PlaceInv, ScanEnds, Phases, Queries, Creating, graphVars, fixed
<1> QED
  BY <1>7, <1>8, <1>9, <1>10, <1>11 DEF ShapeInv

\* Where the chunk is, in a state in which one is written.
LEMMA Here ==
  ASSUME ShapeInv, pc \in Phases \cup {"begin"} \/ (mode = "batch" /\ pc = "exit") \/ mode = "single"
  PROVE  ChunkShape
<1>1. InChunk
  BY DEF ShapeInv, ChunkInv, InChunk, TypeInv
<1> QED
  BY <1>1, ChunkFacts DEF ShapeInv

\* An error leads to the end of the transaction, or of the process.
LEMMA ErrorShape ==
  ASSUME ShapeInv,
         pc' \in {"rollback", "exit"}, pc \in Phases \cup {"begin"},
         pc' = "rollback" => pc \in Phases /\ mode = "batch" /\ UNCHANGED txn,
         pc' = "exit" => (UNCHANGED txn /\ mode = "single") \/ txn' = NoTxn,
         UNCHANGED <<loopVars, at, fixed>>,
         UNCHANGED tasks,
         checkpoint' \in -1 .. MaxHeight, pc' = "rollback" => UNCHANGED checkpoint,
         attempt' \in 0 .. MaxRetries, awaiting' \in 0 .. Buckets
  PROVE  ShapeInv'
<1>1. TypeInv'
  BY DEF ShapeInv, TypeInv, Places, Phases, loopVars, fixed
<1>2. ScanInv' /\ ChunkInv'
  BY KeepsRanges DEF loopVars, fixed, Phases
<1>3. TxnInv'
  <2>1. CASE txn' = NoTxn /\ pc' = "exit"
    BY <2>1 DEF TxnInv, NoTxn, Phases, Queries, Creating
  <2>2. CASE UNCHANGED txn /\ mode = "single" /\ pc' = "exit"
    BY <2>2 DEF ShapeInv, TxnInv, fixed, Phases, Queries, Creating
  <2>3. CASE pc' = "rollback"
    BY <2>3 DEF ShapeInv, TxnInv, fixed, Phases, Queries, Creating
  <2> QED
    BY <2>1, <2>2, <2>3
<1>4. PlaceInv'
  BY SameChunk DEF ShapeInv, PlaceInv, loopVars, fixed, Phases, Queries, Creating
<1>5. TaskInv'
  BY DEF ShapeInv, TypeInv, TaskInv, Task, TxnInv, NoTxn, fixed, Phases, Queries, Creating
<1> QED
  BY <1>1, <1>2, <1>3, <1>4, <1>5 DEF ShapeInv

\* begin_transaction opens the transaction of a chunk.
LEMMA BeginShape == ShapeInv /\ Begin => ShapeInv'
<1> SUFFICES ASSUME ShapeInv, Begin PROVE ShapeInv'
  OBVIOUS
<1>1. mode = "batch" /\ pc = "begin" /\ pc' = "blocks" /\ First' = First /\ Chunk' = Chunk
      /\ UNCHANGED <<batch, scan, chunk, mode>>
  BY SameChunk DEF Begin, ShapeInv, PlaceInv, loopVars, fixed
<1>2. TypeInv'
  BY <1>1 DEF ShapeInv, TypeInv, Begin, Places, Phases, Queries, Creating, loopVars, taskVars, fixed
<1>3. ScanInv' /\ ChunkInv'
  BY <1>1, KeepsRanges DEF Phases, Queries, Creating
<1>4. TxnInv'
  BY <1>1 DEF ShapeInv, TxnInv, Begin, NoTxn, Phases, Queries, Creating, fixed
<1>5. PlaceInv'
  <2>1. First \in Chunk
    BY <1>1, Here DEF ChunkShape
  <2> QED
    BY <2>1, <1>1 DEF ShapeInv, PlaceInv, Begin, Phases, Queries, Creating
<1>6. TaskInv'
  BY <1>1, WriterAssumption DEF ShapeInv, TypeInv, TaskInv, Task, Begin, taskVars, fixed
<1> QED
  BY <1>2, <1>3, <1>4, <1>5, <1>6 DEF ShapeInv

\* begin_transaction fails: there is no transaction.
LEMMA BeginFailsShape == ShapeInv /\ BeginFails => ShapeInv'
<1> SUFFICES ASSUME ShapeInv, BeginFails PROVE ShapeInv'
  OBVIOUS
<1>1. txn' = NoTxn
  BY DEF ShapeInv, TxnInv, BeginFails, graphVars, Phases, Queries, Creating
<1> QED
  BY <1>1, ErrorShape DEF BeginFails, ShapeInv, TypeInv, graphVars, loopVars, queryVars, taskVars, fixed

\* commit_transaction moves the checkpoint and the place in the loop, no more.
LEMMA CommitTypes ==
  ASSUME ShapeInv, Commit, checkpoint' \in -1 .. MaxHeight, next' \in 0 .. MaxHeight + 1,
         chunk' \in Nat, pc' \in Places
  PROVE  TypeInv'
<1>1. UNCHANGED <<batch, scan, attempt, tasks, awaiting, mode, memory>>
  BY DEF Commit, queryVars, taskVars, fixed
<1> QED
  BY <1>1 DEF ShapeInv, TypeInv

\* After commit_transaction the next chunk, or the next batch, begins above the
\* checkpoint.
LEMMA CommitShape == ShapeInv /\ Commit => ShapeInv'
<1> SUFFICES ASSUME ShapeInv, Commit PROVE ShapeInv'
  OBVIOUS
<1> DEFINE R == scan.ranges
<1>1. /\ pc = "commit" /\ mode = "batch" /\ checkpoint' = Last
      /\ UNCHANGED <<batch, scan, mode>>
      /\ txn' = NoTxn
  BY DEF Commit, Committed, ShapeInv, PlaceInv, TxnInv, fixed
<1>2. /\ chunk \in 1 .. Len(R) /\ R \in Seq(Nat \X Nat) /\ R[Len(R)][2] = Blocks
      /\ batch.first \in Int /\ batch.last \in Int /\ MaxHeight \in Nat
      /\ batch.last <= MaxHeight /\ 0 <= batch.first
  BY <1>1, WriterAssumption DEF ShapeInv, TypeInv, ChunkInv, Phases, Heights
<1>3. /\ Last \in Heights
      /\ Last = batch.first + R[chunk][2] - 1
  BY <1>1, Here DEF ChunkShape, Phases
<1>4. Last \in -1 .. MaxHeight
  BY <1>2, <1>3 DEF Heights
<1>5. CASE chunk < Len(R)
  <2>1. pc' = "begin" /\ chunk' = chunk + 1 /\ next' = next /\ chunk' \in 1 .. Len(R)
    BY <1>2, <1>5 DEF Commit
  <2>2. TypeInv'
    <3>1. chunk' \in Nat /\ next' \in 0 .. MaxHeight + 1 /\ pc' \in Places
      BY <1>2, <2>1 DEF ShapeInv, TypeInv, Places
    <3> QED
      BY <1>1, <1>3, <1>4, <3>1, CommitTypes
  <2>3. ScanInv'
    BY <1>1, <2>1 DEF ShapeInv, ScanInv, Blocks
  <2>4. ChunkInv'
    BY <1>1, <1>2, <2>1 DEF ShapeInv, ChunkInv, Blocks
  <2>5. First' = batch.first + R[chunk + 1][1]
    BY <1>1, <2>1, <2>2, <2>3, <2>4, ChunkFactsNext DEF InChunk, ChunkShape
  <2>6. R[chunk + 1][1] = R[chunk][2] /\ R[chunk][2] \in Nat
    <3>1. R[chunk] \in Nat \X Nat
      BY <1>2
    <3>2. chunk \in 1 .. Len(R) - 1
      BY <1>2, <1>5
    <3> QED
      BY <3>1, <3>2 DEF ShapeInv, ScanInv, InRow
  <2>7. First' = checkpoint' + 1
    <3> DEFINE c == R[chunk][2]
    <3>1. c \in Int /\ First' = batch.first + c /\ checkpoint' = batch.first + c - 1
      BY <1>1, <1>3, <2>5, <2>6
    <3> HIDE DEF c
    <3>2. batch.first \in Int
      BY <1>2
    <3> QED
      BY <3>1, <3>2
  <2>8. PlaceInv'
    BY <1>1, <2>1, <2>7 DEF PlaceInv, Phases, Queries, Creating
  <2>9. TxnInv' /\ TaskInv'
    BY <1>1, <2>1 DEF ShapeInv, TypeInv, TxnInv, TaskInv, NoTxn, Commit, Phases, Queries, Creating,
                      taskVars
  <2> QED
    BY <2>2, <2>3, <2>4, <2>8, <2>9 DEF ShapeInv
<1>6. CASE ~ chunk < Len(R)
  <2>1. pc' = "next" /\ chunk' = chunk /\ next' = batch.last + 1
    BY <1>6 DEF Commit
  <2>2. Last = batch.last
    <3>1. chunk = Len(R)
      BY <1>2, <1>6
    <3>2. R[chunk][2] = batch.last - batch.first + 1
      BY <1>2, <3>1 DEF Blocks
    <3>3. Last = batch.first + (batch.last - batch.first + 1) - 1
      BY <1>3, <3>2
    <3> QED
      BY <1>2, <3>3
  <2>3. next' = checkpoint' + 1 /\ next' \in 0 .. MaxHeight + 1
    <3>1. batch.last \in 0 .. MaxHeight /\ MaxHeight \in Nat
      BY <1>2, <1>3, <2>2 DEF Heights
    <3>2. next' = batch.last + 1 /\ checkpoint' = batch.last
      BY <1>1, <2>1, <2>2
    <3> QED
      BY <3>1, <3>2
  <2>4. TypeInv'
    <3>1. chunk' \in Nat
      BY <1>2, <2>1
    <3> QED
      BY <1>1, <1>4, <2>1, <2>3, <3>1, CommitTypes DEF Places
  <2>5. ScanInv' /\ ChunkInv'
    BY <1>1, <2>1, KeepsRanges DEF Phases, Queries, Creating
  <2>6. PlaceInv'
    BY <1>1, <2>1, <2>3 DEF PlaceInv, Phases, Queries, Creating
  <2>7. TxnInv' /\ TaskInv'
    BY <1>1, <2>1 DEF ShapeInv, TypeInv, TxnInv, TaskInv, NoTxn, Commit, Phases, Queries, Creating,
                      taskVars
  <2> QED
    BY <2>4, <2>5, <2>6, <2>7 DEF ShapeInv
<1> QED
  BY <1>5, <1>6

\* Whether a commit that reports an error was applied or not.
LEMMA CommitFailsShape == ShapeInv /\ CommitFails => ShapeInv'
<1> SUFFICES ASSUME ShapeInv, CommitFails PROVE ShapeInv'
  OBVIOUS
<1>1. Last \in Heights /\ txn.height = Last
  BY Here DEF CommitFails, ChunkShape, Phases, ShapeInv, TxnInv
<1>2. checkpoint' \in -1 .. MaxHeight
  <2>1. MaxHeight \in Nat /\ Last \in 0 .. MaxHeight /\ checkpoint \in -1 .. MaxHeight
    BY <1>1, WriterAssumption DEF ShapeInv, TypeInv, Heights
  <2>2. checkpoint' \in {checkpoint, Last}
    BY <1>1 DEF CommitFails, Committed
  <2> QED
    BY <2>1, <2>2
<1> QED
  BY <1>2, ErrorShape DEF CommitFails, Phases, ShapeInv, TypeInv, loopVars, queryVars, taskVars, fixed

\* rollback_transaction closes the transaction.
LEMMA RollbackShape == ShapeInv /\ Rollback => ShapeInv'
BY ErrorShape DEF Rollback, Phases, ShapeInv, TypeInv, loopVars, queryVars, taskVars, fixed

\* What a write does to the transaction, if anything.
LEMMA ApplyTxn ==
  ASSUME NEW auto \in BOOLEAN, NEW F, Apply(auto, F), ~ auto => txn.open, TxnInv
  PROVE  /\ txn'.open = txn.open /\ txn'.height = txn.height
         /\ txn' = [open |-> txn'.open, facts |-> txn'.facts, height |-> txn'.height]
         /\ ~ txn.open => txn' = txn
         /\ auto => durable' = durable \cup F /\ txn' = txn
         /\ ~ auto => durable' = durable /\ txn'.facts = txn.facts \cup F
<1>1. CASE auto
  BY <1>1 DEF Apply, TxnInv
<1>2. CASE ~ auto
  <2>1. txn' = [txn EXCEPT !.facts = txn.facts \cup F] /\ durable' = durable
    BY <1>2 DEF Apply
  <2> QED
    BY <1>2, <2>1 DEF TxnInv
<1> QED
  BY <1>1, <1>2

\* The next query is about a block of the chunk.
LEMMA AdvanceShape ==
  ASSUME ShapeInv, pc \in Queries, Advance
  PROVE  /\ pc' \in Queries \cup {"spawn", "checkpoint"}
         /\ at' \in Chunk
         /\ pc' = "spawn" => mode = "batch"
         /\ pc' \in {"performs", "benefits"} => mode = "single"
<1>1. ChunkShape /\ at \in Chunk
  BY Here DEF ShapeInv, PlaceInv, Phases
<1>2. CASE pc = "outputs" /\ ~ Fast("outputs") /\ Payee[at] # None
  BY <1>1, <1>2 DEF Advance, Queries, Creating
<1>3. CASE ~ (pc = "outputs" /\ ~ Fast("outputs") /\ Payee[at] # None) /\ at < Last
  <2>1. pc' = (IF pc = "lockedTo" THEN "outputs" ELSE pc) /\ at' = at + 1
    BY <1>3 DEF Advance
  <2>2. at + 1 \in Chunk
    BY <1>1, <1>3, WriterAssumption DEF ChunkShape, Heights
  <2> QED
    BY <2>1, <2>2 DEF Queries, Creating, ShapeInv, PlaceInv
<1>4. CASE ~ (pc = "outputs" /\ ~ Fast("outputs") /\ Payee[at] # None) /\ ~ at < Last
  <2>1. pc' = After[pc] /\ at' = First
    BY <1>4 DEF Advance
  <2>2. /\ After[pc] \in Queries \cup {"spawn", "checkpoint"}
        /\ After[pc] = "spawn" => mode = "batch"
        /\ After[pc] \in {"performs", "benefits"} => mode = "single"
    <3>1. mode = "batch" => pc \notin {"performs", "benefits"}
      BY DEF ShapeInv, PlaceInv
    <3> QED
      BY <3>1 DEF After, Queries, Creating, ShapeInv, TypeInv
  <2> QED
    BY <2>1, <2>2, <1>1 DEF ChunkShape
<1> QED
  BY <1>2, <1>3, <1>4

\* Where an error of a query leads, txn being as before but for its facts.
LEMMA FailedShape ==
  ASSUME ShapeInv, Failed, pc \in Queries \cup {"checkpoint"},
         UNCHANGED <<loopVars, at, taskVars, fixed, txn>>,
         checkpoint' \in -1 .. MaxHeight, mode = "batch" => UNCHANGED checkpoint,
         attempt' \in 0 .. MaxRetries
  PROVE  ShapeInv'
<1>1. mode \in {"batch", "single"} /\ awaiting' \in 0 .. Buckets
  BY DEF ShapeInv, TypeInv, taskVars
<1>2. pc' \in {"rollback", "exit"} /\ (pc' = "rollback" <=> mode = "batch")
  BY <1>1 DEF Failed
<1> QED
  BY <1>1, <1>2, ErrorShape DEF Phases, loopVars, taskVars

\* A query, or a CREATE that meets its node.
LEMMA WriteShape == ShapeInv /\ Write => ShapeInv'
<1> SUFFICES ASSUME ShapeInv, Write PROVE ShapeInv'
  OBVIOUS
<1> DEFINE auto == AutoCommits(pc)
<1>1. /\ pc \in Queries /\ auto \in BOOLEAN /\ (~ auto => txn.open)
      /\ checkpoint' = checkpoint /\ UNCHANGED <<batch, scan, chunk, mode>>
      /\ Chunk' = Chunk /\ First' = First
  BY SameChunk DEF Write, AutoCommits, loopVars, fixed
<1>2. CASE Collides(pc, at, View(auto))
  <2>1. Failed /\ UNCHANGED <<loopVars, at, taskVars, fixed, txn, attempt, checkpoint>>
    BY <1>2 DEF Write, queryVars
  <2> QED
    BY <1>1, <2>1, FailedShape DEF ShapeInv, TypeInv
<1>3. CASE ~ Collides(pc, at, View(auto))
  <2>1. Apply(auto, Effect(pc, at, View(auto))) /\ Advance /\ attempt' = 0
    BY <1>3 DEF Write
  <2>2. /\ pc' \in Queries \cup {"spawn", "checkpoint"}
        /\ at' \in Chunk
        /\ pc' = "spawn" => mode = "batch"
        /\ pc' \in {"performs", "benefits"} => mode = "single"
    BY <1>1, <2>1, AdvanceShape
  <2>3. /\ txn'.open = txn.open /\ txn'.height = txn.height
        /\ txn' = [open |-> txn'.open, facts |-> txn'.facts, height |-> txn'.height]
        /\ ~ txn.open => txn' = txn
    BY <1>1, <2>1, ApplyTxn DEF ShapeInv
  <2>4. TypeInv'
    BY <2>1, <2>2, WriterAssumption DEF ShapeInv, TypeInv, Write, Places, Phases, loopVars, taskVars, fixed
  <2>5. ScanInv' /\ ChunkInv'
    BY <1>1, <2>2, KeepsRanges DEF Phases, Queries, Creating
  <2>6. TxnInv'
    BY <1>1, <2>2, <2>3 DEF ShapeInv, TxnInv, Phases, Queries, Creating
  <2>7. PlaceInv'
    BY <1>1, <2>2 DEF ShapeInv, PlaceInv, Phases, Queries, Creating
  <2>8. TaskInv'
    BY <1>1, <2>2, <2>3 DEF ShapeInv, TaskInv, Write, Queries, Creating, taskVars
  <2> QED
    BY <2>4, <2>5, <2>6, <2>7, <2>8 DEF ShapeInv
<1> QED
  BY <1>2, <1>3

\* A failing query within the transaction.
LEMMA WriteFailsShape == ShapeInv /\ WriteFails => ShapeInv'
<1> SUFFICES ASSUME ShapeInv, WriteFails PROVE ShapeInv'
  OBVIOUS
<1>1. Failed /\ pc \in Queries /\ UNCHANGED <<loopVars, at, taskVars, fixed, txn>>
  BY DEF WriteFails, graphVars, queryVars
<1>2. checkpoint' = checkpoint /\ attempt' = attempt
  BY DEF WriteFails, graphVars, queryVars
<1>3. checkpoint' \in -1 .. MaxHeight /\ attempt' \in 0 .. MaxRetries
  BY <1>2 DEF ShapeInv, TypeInv
<1> QED
  BY <1>1, <1>2, <1>3, FailedShape

\* A failing attempt of a query that commits on its own.
LEMMA AttemptFailsShape == ShapeInv /\ AttemptFails => ShapeInv'
<1> SUFFICES ASSUME ShapeInv, AttemptFails PROVE ShapeInv'
  OBVIOUS
<1>1. txn' = txn /\ pc \in Queries
  BY DEF AttemptFails, Apply
<1>2. CASE attempt < MaxRetries
  <2>1. UNCHANGED <<pc, checkpoint, loopVars, at, taskVars, fixed>> /\ attempt' = attempt + 1
    BY <1>2 DEF AttemptFails
  <2>2. TypeInv'
    BY <1>2, <2>1, WriterAssumption DEF ShapeInv, TypeInv, loopVars, taskVars, fixed
  <2>3. ScanInv' /\ ChunkInv'
    BY <1>1, <2>1, KeepsRanges DEF Queries, Creating, loopVars, fixed
  <2>4. TxnInv' /\ PlaceInv' /\ TaskInv'
    BY <1>1, <2>1, SameChunk DEF ShapeInv, TxnInv, PlaceInv, TaskInv, loopVars, taskVars, fixed
  <2> QED
    BY <2>2, <2>3, <2>4 DEF ShapeInv
<1>3. CASE ~ attempt < MaxRetries
  <2>1. Failed /\ attempt' = 0 /\ UNCHANGED <<loopVars, at, taskVars, fixed, txn>>
    BY <1>1, <1>3 DEF AttemptFails
  <2>2. checkpoint' = checkpoint
    BY DEF AttemptFails
  <2>3. checkpoint' \in -1 .. MaxHeight /\ attempt' \in 0 .. MaxRetries
    BY <2>1, <2>2, WriterAssumption DEF ShapeInv, TypeInv
  <2> QED
    BY <1>1, <2>1, <2>2, <2>3, FailedShape
<1> QED
  BY <1>2, <1>3

\* Phase 6 gives every bucket its task.
LEMMA SpawnShape == ShapeInv /\ Spawn => ShapeInv'
<1> SUFFICES ASSUME ShapeInv, Spawn PROVE ShapeInv'
  OBVIOUS
<1>1. /\ pc = "spawn" /\ pc' = "await" /\ mode = "batch"
      /\ UNCHANGED <<graphVars, loopVars, queryVars, fixed>>
  BY DEF Spawn, ShapeInv, PlaceInv
<1>2. /\ tasks' \in [1 .. Buckets -> Task]
      /\ \A b \in 1 .. Buckets : tasks'[b].via = None /\ tasks'[b].ok
  BY DEF Spawn, TaskAt, Task
<1>3. awaiting' = 1 /\ 1 \in 1 .. Buckets /\ Buckets \in Nat
  BY WriterAssumption DEF Spawn
<1>4. TypeInv'
  BY <1>1, <1>2, <1>3 DEF ShapeInv, TypeInv, Places, Phases, graphVars, loopVars, queryVars, fixed
<1>5. ScanInv' /\ ChunkInv'
  BY <1>1, KeepsRanges DEF Phases, loopVars, fixed
<1>6. TxnInv' /\ PlaceInv'
  BY <1>1, SameChunk DEF ShapeInv, TxnInv, PlaceInv, Phases, Queries, Creating, graphVars, loopVars, fixed
<1>7. TaskInv'
  BY <1>1, <1>2, <1>3, WriterAssumption DEF TaskInv, fixed
<1> QED
  BY <1>4, <1>5, <1>6, <1>7 DEF ShapeInv

\* A step of a task changes that task, and at most the facts of the graph.
LEMMA TaskStepShape ==
  ASSUME ShapeInv, NEW b \in 1 .. Buckets, NEW t \in Task,
         tasks[b].do # "end",
         tasks' = [tasks EXCEPT ![b] = t],
         t.via # None => t.do # "end",
         t.do # "end" => t.ok,
         t.via = "auto" => ~ txn.open,
         UNCHANGED <<checkpoint, pc, loopVars, queryVars, awaiting, fixed>>,
         txn'.open = txn.open, txn'.height = txn.height, ~ txn.open => txn' = txn,
         txn' = [open |-> txn'.open, facts |-> txn'.facts, height |-> txn'.height]
  PROVE  ShapeInv'
<1>1. pc \in {"await", "rollback", "exit"} /\ mode = "batch"
  BY DEF ShapeInv, TaskInv
<1>2. tasks \in [1 .. Buckets -> Task]
  BY DEF ShapeInv, TypeInv
<1>3. TypeInv'
  BY <1>2 DEF ShapeInv, TypeInv, loopVars, queryVars, fixed
<1>4. ScanInv' /\ ChunkInv'
  BY <1>1, KeepsRanges DEF loopVars, fixed
<1>5. TxnInv' /\ PlaceInv'
  BY SameChunk DEF ShapeInv, TxnInv, PlaceInv, loopVars, queryVars, fixed
<1>6. \A c \in 1 .. Buckets : tasks'[c] = IF c = b THEN t ELSE tasks[c]
  BY <1>2
<1>7. TaskInv'
  <2>1. \A c \in 1 .. Buckets :
          /\ tasks'[c].do # "end" => pc \in {"await", "rollback", "exit"} /\ mode = "batch" /\ tasks'[c].ok
          /\ tasks'[c].via # None => tasks'[c].do # "end"
          /\ tasks'[c].via = "auto" => ~ txn'.open
    BY <1>1, <1>6 DEF ShapeInv, TaskInv
  <2>2. ASSUME pc = "await"
        PROVE  /\ awaiting \in 1 .. Buckets
               /\ \A c \in 1 .. awaiting - 1 : tasks'[c].do = "end" /\ tasks'[c].ok
    <3>1. awaiting \in 1 .. Buckets /\ \A c \in 1 .. awaiting - 1 : tasks[c].do = "end" /\ tasks[c].ok
      BY <2>2 DEF ShapeInv, TaskInv
    <3>2. b \notin 1 .. awaiting - 1
      BY <3>1
    <3>3. \A c \in 1 .. awaiting - 1 : c \in 1 .. Buckets /\ c # b
      BY <3>1, <3>2, WriterAssumption
    <3> QED
      BY <3>1, <3>3, <1>6
  <2> QED
    BY <2>1, <2>2 DEF TaskInv, loopVars, queryVars, fixed
<1> QED
  BY <1>3, <1>4, <1>5, <1>7 DEF ShapeInv

\* The steps of a task.
LEMMA TaskShape ==
  ASSUME ShapeInv, NEW b \in 1 .. Buckets,
         TaskLooks(b) \/ TaskWrites(b) \/ TaskFindsClosed(b) \/ TaskFails(b)
  PROVE  ShapeInv'
<1>1. /\ tasks \in [1 .. Buckets -> Task] /\ tasks[b] \in Task
      /\ txn.open \in BOOLEAN
      /\ txn = [open |-> txn.open, facts |-> txn.facts, height |-> txn.height]
  BY DEF ShapeInv, TypeInv, TxnInv
<1>2. None \notin {"txn", "auto"}
  BY WriterAssumption
<1>3. tasks[b].do # "end" /\ tasks[b].ok
  BY <1>2 DEF TaskLooks, TaskWrites, TaskFindsClosed, TaskFails, ShapeInv, TaskInv
<1>4. CASE TaskLooks(b)
  <2> DEFINE t == [tasks[b] EXCEPT !.via = IF txn.open THEN "txn" ELSE "auto"]
  <2>1. t \in Task /\ t.do = tasks[b].do /\ t.ok = tasks[b].ok /\ (t.via = "auto" => ~ txn.open)
    BY <1>1 DEF Task
  <2>2. tasks' = [tasks EXCEPT ![b] = t]
    BY <1>1, <1>4 DEF TaskLooks
  <2> HIDE DEF t
  <2> QED
    BY <2>1, <2>2, <1>1, <1>3, <1>4, TaskStepShape DEF TaskLooks, graphVars
<1>5. CASE TaskWrites(b)
  <2>1. TaskAfter(b) \in Task /\ TaskAfter(b).via = None /\ TaskAfter(b).ok
    BY DEF TaskAfter, TaskAt, Task
  <2> DEFINE auto == tasks[b].via = "auto"
  <2>2. Apply(auto, TaskEffect(b, View(auto))) /\ (~ auto => txn.open) /\ auto \in BOOLEAN
    BY <1>5 DEF TaskWrites
  <2> HIDE DEF auto
  <2>3. /\ txn'.open = txn.open /\ txn'.height = txn.height /\ (~ txn.open => txn' = txn)
        /\ txn' = [open |-> txn'.open, facts |-> txn'.facts, height |-> txn'.height]
    BY <2>2, ApplyTxn DEF ShapeInv
  <2> QED
    BY <2>1, <2>3, <1>2, <1>3, <1>5, TaskStepShape DEF TaskWrites
<1>6. CASE TaskFindsClosed(b) \/ TaskFails(b)
  <2> DEFINE t == [Idle EXCEPT !.ok = FALSE]
  <2>1. t \in Task /\ t.via = None /\ t.do = "end" /\ tasks' = [tasks EXCEPT ![b] = t]
    BY <1>6 DEF TaskFindsClosed, TaskFails, TaskEndsFailed, Task, Idle
  <2>2. txn' = txn
    BY <1>6 DEF TaskFindsClosed, TaskFails, Apply, graphVars
  <2>3. UNCHANGED <<checkpoint, pc, loopVars, queryVars, awaiting, fixed>>
    BY <1>6 DEF TaskFindsClosed, TaskFails, graphVars
  <2> HIDE DEF t
  <2> QED
    BY <2>1, <2>2, <2>3, <1>1, <1>2, <1>3, TaskStepShape
<1> QED
  BY <1>4, <1>5, <1>6

\* The results of the tasks, in the order of the buckets.
LEMMA AwaitShape == ShapeInv /\ Await => ShapeInv'
<1> SUFFICES ASSUME ShapeInv, Await PROVE ShapeInv'
  OBVIOUS
<1>1. /\ pc = "await" /\ mode = "batch" /\ tasks[awaiting].do = "end" /\ awaiting \in 1 .. Buckets
      /\ UNCHANGED <<graphVars, loopVars, queryVars, tasks, fixed>>
  BY DEF Await, ShapeInv, PlaceInv, TaskInv
<1>2. Buckets \in Nat
  BY WriterAssumption
<1>3. CASE ~ tasks[awaiting].ok
  BY <1>1, <1>3, ErrorShape DEF Await, Phases, ShapeInv, TypeInv, graphVars, queryVars, loopVars
<1>4. CASE tasks[awaiting].ok /\ awaiting < Buckets
  <2>1. awaiting' = awaiting + 1 /\ pc' = pc
    BY <1>4 DEF Await
  <2>2. TypeInv'
    BY <1>1, <1>2, <1>4, <2>1 DEF ShapeInv, TypeInv, graphVars, loopVars, queryVars, fixed
  <2>3. ScanInv' /\ ChunkInv'
    BY <1>1, <2>1, KeepsRanges DEF loopVars, fixed
  <2>4. TxnInv' /\ PlaceInv'
    BY <1>1, <2>1, SameChunk DEF ShapeInv, TxnInv, PlaceInv, graphVars, loopVars, queryVars, fixed
  <2>5. TaskInv'
    BY <1>1, <1>2, <1>4, <2>1 DEF ShapeInv, TaskInv, graphVars, fixed
  <2> QED
    BY <2>2, <2>3, <2>4, <2>5 DEF ShapeInv
<1>5. CASE tasks[awaiting].ok /\ ~ awaiting < Buckets
  <2>1. awaiting' = awaiting /\ pc' = "checkpoint" /\ awaiting = Buckets
    BY <1>1, <1>2, <1>5 DEF Await
  <2>2. TypeInv'
    BY <1>1, <2>1 DEF ShapeInv, TypeInv, Places, Phases, graphVars, loopVars, queryVars, fixed
  <2>3. ScanInv' /\ ChunkInv'
    BY <1>1, <2>1, KeepsRanges DEF Phases, loopVars, fixed
  <2>4. TxnInv' /\ PlaceInv'
    BY <1>1, <2>1, SameChunk
       DEF ShapeInv, TxnInv, PlaceInv, Phases, Queries, Creating, graphVars, loopVars, queryVars, fixed
  <2>5. \A b \in 1 .. Buckets : tasks[b].do = "end"
    <3>1. \A b \in 1 .. Buckets : b \in 1 .. awaiting - 1 \/ b = awaiting
      BY <1>2, <2>1
    <3> QED
      BY <3>1, <1>1 DEF ShapeInv, TaskInv
  <2>6. TaskInv'
    BY <1>1, <2>1, <2>5 DEF ShapeInv, TaskInv, graphVars, fixed
  <2> QED
    BY <2>2, <2>3, <2>4, <2>6 DEF ShapeInv
<1> QED
  BY <1>3, <1>4, <1>5

\* update_checkpoint puts the height of the last block into the transaction, or
\* into the checkpoint itself.
LEMMA UpdateCheckpointShape == ShapeInv /\ UpdateCheckpoint => ShapeInv'
<1> SUFFICES ASSUME ShapeInv, UpdateCheckpoint PROVE ShapeInv'
  OBVIOUS
<1>1. pc = "checkpoint" /\ UNCHANGED <<durable, batch, scan, chunk, queryVars, taskVars, fixed>>
  BY DEF UpdateCheckpoint
<1>2. Last \in Heights /\ Chunk' = Chunk /\ First' = First /\ Last' = Last
  BY <1>1, Here, SameChunk DEF ChunkShape, Phases, fixed
<1>3. MaxHeight \in Nat
  BY WriterAssumption
<1>4. CASE mode = "batch"
  <2>1. txn' = [txn EXCEPT !.height = Last] /\ pc' = "commit" /\ UNCHANGED <<checkpoint, next>>
    BY <1>4 DEF UpdateCheckpoint
  <2>2. TypeInv'
    BY <1>1, <2>1 DEF ShapeInv, TypeInv, Places, Phases, queryVars, taskVars, fixed
  <2>3. ScanInv' /\ ChunkInv'
    BY <1>1, <2>1, KeepsRanges DEF Phases, fixed
  <2>4. TxnInv'
    BY <1>1, <1>2, <1>4, <2>1 DEF ShapeInv, TxnInv, Phases, fixed
  <2>5. PlaceInv' /\ TaskInv'
    BY <1>1, <1>2, <1>4, <2>1 DEF ShapeInv, TxnInv, PlaceInv, TaskInv, Phases, Queries, Creating,
                                  taskVars, fixed
  <2> QED
    BY <2>2, <2>3, <2>4, <2>5 DEF ShapeInv
<1>5. CASE mode = "single"
  <2>1. checkpoint' = Last /\ pc' = "next" /\ next' = Last + 1 /\ txn' = txn
    BY <1>5 DEF UpdateCheckpoint
  <2>2. TypeInv'
    BY <1>1, <1>2, <1>3, <2>1 DEF ShapeInv, TypeInv, Places, Phases, Heights, queryVars, taskVars, fixed
  <2>3. ScanInv' /\ ChunkInv'
    BY <1>1, <2>1, KeepsRanges DEF Phases, Queries, Creating, fixed
  <2>4. TxnInv' /\ PlaceInv' /\ TaskInv'
    BY <1>1, <1>2, <1>5, <2>1 DEF ShapeInv, TxnInv, PlaceInv, TaskInv, Phases, Queries, Creating,
                                  taskVars, fixed
  <2> QED
    BY <2>2, <2>3, <2>4 DEF ShapeInv
<1> QED
  BY <1>4, <1>5 DEF ShapeInv, TypeInv

\* update_checkpoint fails, applied or not.
LEMMA UpdateCheckpointFailsShape == ShapeInv /\ UpdateCheckpointFails => ShapeInv'
<1> SUFFICES ASSUME ShapeInv, UpdateCheckpointFails PROVE ShapeInv'
  OBVIOUS
<1>1. Last \in Heights
  BY Here DEF UpdateCheckpointFails, ChunkShape, Phases
<1>2. checkpoint' \in -1 .. MaxHeight /\ (mode = "batch" => checkpoint' = checkpoint)
  BY <1>1, WriterAssumption DEF UpdateCheckpointFails, ShapeInv, TypeInv, Heights
<1> QED
  BY <1>2, FailedShape DEF UpdateCheckpointFails, ShapeInv, TypeInv, queryVars

\* Every step keeps ShapeInv.
LEMMA NextShape == ShapeInv /\ [Next]_vars => ShapeInv'
<1> SUFFICES ASSUME ShapeInv, [Next]_vars PROVE ShapeInv'
  OBVIOUS
<1>1. CASE Process
  <2>1. CASE Exit
    BY <2>1, GoneShape DEF Exit
  <2> QED
    BY <1>1, <2>1, NextBatchShape, ScanShape, ScanEndsShape, BeginShape, WriteShape, SpawnShape,
       AwaitShape, UpdateCheckpointShape, CommitShape, RollbackShape, TaskShape DEF Process
<1>2. CASE Faults
  <2>1. CASE Crash
    BY <2>1, GoneShape DEF Crash
  <2> QED
    BY <1>2, <2>1, BeginFailsShape, WriteFailsShape, AttemptFailsShape, UpdateCheckpointFailsShape,
       CommitFailsShape, TaskShape DEF Faults
<1>3. CASE UNCHANGED vars
  <2>1. Chunk' = Chunk /\ First' = First /\ Last' = Last /\ Blocks' = Blocks
    BY <1>3, SameChunk DEF vars, loopVars, fixed
  <2>2. TypeInv'
    BY <1>3 DEF vars, graphVars, loopVars, queryVars, taskVars, fixed, ShapeInv, TypeInv
  <2>3. ScanInv' /\ ChunkInv'
    BY <1>3, <2>1 DEF vars, loopVars, fixed, ShapeInv, ScanInv, ChunkInv
  <2>4. TxnInv' /\ TaskInv'
    BY <1>3, <2>1 DEF vars, graphVars, loopVars, taskVars, fixed, ShapeInv, TxnInv, TaskInv
  <2>5. PlaceInv'
    BY <1>3, <2>1 DEF vars, graphVars, loopVars, queryVars, fixed, ShapeInv, PlaceInv
  <2> QED
    BY <2>2, <2>3, <2>4, <2>5 DEF ShapeInv
<1> QED
  BY <1>1, <1>2, <1>3, LaunchShape DEF Next

\* The ranges of a batch are in a row, the chunk that is written lies one above
\* the checkpoint, and a task runs only while its chunk is written or given up.
THEOREM ShapeInvariant == Spec => []ShapeInv
BY InitShape, NextShape, PTL DEF Spec

\* The orchestrator, the open transaction and the tasks keep their shapes, and a
\* transaction is open exactly while a chunk of a batch is written.
THEOREM WriterTypeCorrect == Spec => []WriterTypeOK
<1>1. ShapeInv => WriterTypeOK
  BY DEF ShapeInv, TypeInv, TxnInv, PlaceInv, TaskInv, WriterTypeOK, Phases, Queries, Creating, NoTxn
<1> QED
  BY <1>1, ShapeInvariant, PTL

-----------------------------------------------------------------------------
(* The memory budget *)

\* The ranges R, cut when the scan was at block i, satisfy ChunksFit.
Fitting(R, i) ==
  \A k \in 1 .. Len(R) :
    /\ Total(R[k]) <= Budget \/ R[k][2] = R[k][1] + 1
    /\ R[k][2] < i => Total(<<R[k][1], R[k][2] + 1>>) > Budget

\* While the batch is cut, the memory of the open range is known, and a range
\* that has just been closed before it is a block larger than the budget.
CutInv(s) ==
  /\ s.memory = Total(<<s.start, s.i>>)
  /\ s.memory <= Budget
  /\ \A k \in 1 .. Len(s.ranges) :
       /\ s.ranges[k][2] <= s.start
       /\ s.ranges[k][2] = s.i => Total(s.ranges[k]) > Budget

FitInv ==
  /\ Fitting(scan.ranges, scan.i)
  /\ pc = "cut" => CutInv(scan)
  /\ mode = "batch" /\ pc \in Phases \cup {"begin"} => scan.i = Blocks

\* The estimate of a range is a sum over its blocks, from the last one.
LEMMA Totals ==
  ASSUME TypeInv, NEW a \in Nat, NEW b \in Nat, a <= b, b <= Blocks
  PROVE  /\ Total(<<a, b>>) \in Nat
         /\ a = b => Total(<<a, b>>) = 0
         /\ b < Blocks => /\ Memory(b) \in Nat \ {0}
                          /\ Total(<<a, b + 1>>) = Total(<<a, b>>) + Memory(b)
<1> DEFINE f == batch.first
           Sum(s) == SumFunctionOnSet(memory, s)
<1>1. /\ f \in Int /\ batch.last \in Int /\ 0 <= f /\ batch.last <= MaxHeight /\ MaxHeight \in Nat
      /\ memory \in [Heights -> Nat \ {0}]
      /\ Heights = 0 .. MaxHeight /\ b <= batch.last - f + 1
  BY WriterAssumption DEF TypeInv, Heights, Blocks
<1>2. /\ Total(<<a, b>>) = Sum(f + a .. f + b - 1)
      /\ Total(<<a, b + 1>>) = Sum(f + a .. f + b)
  <2>1. f + (b + 1) - 1 = f + b
    BY <1>1
  <2> HIDE DEF f, Sum
  <2>2. Total(<<a, b>>) = Sum(f + a .. f + b - 1) /\ Total(<<a, b + 1>>) = Sum(f + a .. f + (b + 1) - 1)
    BY DEF Total, f, Sum
  <2> QED
    BY <2>1, <2>2
<1> HIDE DEF f
<1>3. /\ Sum(f + a .. f + b - 1) \in Nat
      /\ a = b => Sum(f + a .. f + b - 1) = 0
  <2>1. f + a \in Int /\ f + b - 1 \in Int /\ \A x \in f + a .. f + b - 1 : memory[x] \in Nat
    BY <1>1
  <2>2. a = b => f + b - 1 < f + a
    BY <1>1
  <2> QED
    BY <2>1, <2>2, SumOfInterval
<1>4. ASSUME b < Blocks
      PROVE  /\ memory[f + b] \in Nat \ {0}
             /\ Sum(f + a .. f + b) = Sum(f + a .. f + b - 1) + memory[f + b]
  <2>1. b <= batch.last - f
    BY <1>1, <1>4 DEF Blocks, f
  <2>2. /\ f + a \in Int /\ f + b \in Int /\ f + a <= f + b
        /\ f + b \in Heights /\ f + a .. f + b \subseteq Heights
    BY <1>1, <2>1
  <2>3. memory[f + b] \in Nat \ {0} /\ \A x \in f + a .. f + b : memory[x] \in Nat
    BY <1>1, <2>2
  <2>4. Sum(f + a .. f + b) = Sum(f + a .. f + b - 1) + memory[f + b]
    <3> DEFINE x == f + a
               y == f + b
    <3>1. x \in Int /\ y \in Int /\ x <= y /\ \A h \in x .. y : memory[h] \in Nat
      BY <2>2, <2>3
    <3>2. x = f + a /\ y = f + b /\ f + b \in Int /\ f \in Int
      BY <1>1, <2>2
    <3> HIDE DEF x, y
    <3>3. Sum(x .. y) = Sum(x .. y - 1) + memory[y]
      BY <3>1, SumOfInterval
    <3> HIDE DEF Sum
    <3> QED
      BY <3>2, <3>3
  <2> QED
    BY <2>3, <2>4
<1>5. b < Blocks => Memory(b) = memory[f + b]
  BY DEF Memory, f
<1> QED
  BY <1>2, <1>3, <1>4, <1>5

\* No block has no estimate.
LEMMA NothingTotals == TypeInv /\ Blocks \in Nat => Total(<<0, 0>>) = 0
<1> SUFFICES ASSUME TypeInv, Blocks \in Nat PROVE Total(<<0, 0>>) = 0
  OBVIOUS
<1>1. 0 \in Nat /\ 0 <= 0 /\ 0 <= Blocks
  OBVIOUS
<1> QED
  BY <1>1, Totals

\* The estimates stay as they are while the batch is the same.
LEMMA SameTotals ==
  ASSUME UNCHANGED <<memory, batch>>
  PROVE  /\ Fitting(scan.ranges, scan.i)' <=> Fitting(scan'.ranges, scan'.i)
         /\ CutInv(scan)' <=> CutInv(scan')
         /\ Blocks' = Blocks
BY DEF Fitting, CutInv, Total, Blocks

\* A sequence of ranges, as the set of them.
LEMMA RangeOfAppend ==
  ASSUME NEW R \in Seq(Nat \X Nat), NEW a \in Nat, NEW e \in Nat
  PROVE  /\ Append(R, <<a, e>>) \in Seq(Nat \X Nat)
         /\ Range(Append(R, <<a, e>>)) = Range(R) \cup {<<a, e>>}
<1> DEFINE r == <<a, e>>
           S == Append(R, r)
<1>1. r \in Nat \X Nat
  OBVIOUS
<1> HIDE DEF r
<1>2. S \in Seq(Nat \X Nat) /\ DOMAIN S = 1 .. Len(R) + 1 /\ DOMAIN R = 1 .. Len(R) /\ Len(R) \in Nat
      /\ S[Len(R) + 1] = r /\ \A k \in 1 .. Len(R) : S[k] = R[k]
  BY <1>1
<1> HIDE DEF S
<1>3. Range(S) = Range(R) \cup {r}
  <2>1. \A k \in DOMAIN S : k \in DOMAIN R \/ k = Len(R) + 1
    BY <1>2
  <2>2. DOMAIN R \subseteq DOMAIN S /\ Len(R) + 1 \in DOMAIN S
    BY <1>2
  <2>3. \A k \in DOMAIN R : S[k] = R[k]
    BY <1>2
  <2> QED
    BY <1>2, <2>1, <2>2, <2>3, Zenon DEF Range
<1> QED
  BY <1>2, <1>3 DEF S, r

\* Ranges that fit, or are one block, and that could not take the next block.
Full(R) ==
  \A r \in Range(R) : /\ Total(r) <= Budget \/ r[2] = r[1] + 1
                      /\ Total(<<r[1], r[2] + 1>>) > Budget

\* Ranges that are full satisfy ChunksFit wherever the scan is.
LEMMA FullFits == ASSUME NEW R \in Seq(Nat \X Nat), Full(R), NEW j PROVE Fitting(R, j)
<1>1. \A k \in 1 .. Len(R) : R[k] \in Range(R)
  BY DEF Range
<1> QED
  BY <1>1 DEF Full, Fitting

\* One more range after ranges that are full.
LEMMA AppendFits ==
  ASSUME NEW R \in Seq(Nat \X Nat), Full(R), NEW a \in Nat, NEW e \in Nat, NEW j,
         Total(<<a, e>>) <= Budget \/ e = a + 1,
         e < j => Total(<<a, e + 1>>) > Budget
  PROVE  Fitting(Append(R, <<a, e>>), j)
<1> DEFINE S == Append(R, <<a, e>>)
<1>1. \A k \in 1 .. Len(S) : S[k] \in Range(S)
  <2>1. DOMAIN S = 1 .. Len(S)
    BY RangeOfAppend
  <2> QED
    BY <2>1 DEF Range
<1>2. Range(S) = Range(R) \cup {<<a, e>>}
  BY RangeOfAppend
<1>3. ASSUME NEW r \in Range(S)
      PROVE  /\ Total(r) <= Budget \/ r[2] = r[1] + 1
             /\ r[2] < j => Total(<<r[1], r[2] + 1>>) > Budget
  <2>1. CASE r \in Range(R)
    BY <2>1 DEF Full
  <2>2. CASE r = <<a, e>>
    <3>1. r[1] = a /\ r[2] = e
      BY <2>2
    <3> QED
      BY <2>2, <3>1
  <2> QED
    BY <1>2, <1>3, <2>1, <2>2
<1> HIDE DEF S
<1>4. Fitting(S, j)
  BY <1>1, <1>3 DEF Fitting
<1> QED
  BY <1>4 DEF S

\* A range that could not take the next block, after ranges that are full.
LEMMA AppendFull ==
  ASSUME NEW R \in Seq(Nat \X Nat), Full(R), NEW a \in Nat, NEW e \in Nat,
         Total(<<a, e>>) <= Budget \/ e = a + 1,
         Total(<<a, e + 1>>) > Budget
  PROVE  Full(Append(R, <<a, e>>))
<1>1. Range(Append(R, <<a, e>>)) = Range(R) \cup {<<a, e>>}
  BY RangeOfAppend
<1>2. <<a, e>>[1] = a /\ <<a, e>>[2] = e
  OBVIOUS
<1> QED
  BY <1>1, <1>2 DEF Full

\* The ranges so far are full, whatever has just been closed.
LEMMA RangesFull ==
  ASSUME ShapeInv, FitInv, pc = "cut", scan.i < Blocks \/ scan.start < scan.i
  PROVE  Full(scan.ranges) /\ \A r \in Range(scan.ranges) : r \in Nat \X Nat /\ r[2] <= scan.start
<1> DEFINE R == scan.ranges
<1>1. R \in Seq(Nat \X Nat) /\ scan.i \in Nat /\ scan.start \in Nat /\ scan.start <= scan.i /\ TypeInv
      /\ Budget \in Nat
  BY WriterAssumption DEF ShapeInv, TypeInv, ScanInv
<1>11. Blocks \in Int
  BY WriterAssumption DEF ShapeInv, TypeInv, Heights, Blocks
<1>2. ASSUME NEW k \in 1 .. Len(R)
      PROVE  /\ R[k] \in Nat \X Nat /\ R[k][2] <= scan.start
             /\ Total(R[k]) <= Budget \/ R[k][2] = R[k][1] + 1
             /\ Total(<<R[k][1], R[k][2] + 1>>) > Budget
  <2> DEFINE a == R[k][1]
             e == R[k][2]
  <2>1. R[k] \in Nat \X Nat
    BY <1>1
  <2>2. R[k] = <<a, e>> /\ a \in Nat /\ e \in Nat
    BY <2>1
  <2>3. a < e /\ e <= scan.start
    BY DEF ShapeInv, ScanInv, InRow, FitInv, CutInv
  <2>4. Total(R[k]) <= Budget \/ e = a + 1
    BY DEF FitInv, Fitting
  <2>5. CASE e < scan.i
    BY <2>1, <2>3, <2>4, <2>5 DEF FitInv, Fitting
  <2>6. CASE e = scan.i
    <3>0. scan.i < Blocks
      BY <1>1, <2>2, <2>3, <2>6
    <3>1. Total(<<a, e>>) > Budget
      BY <2>2, <2>6 DEF FitInv, CutInv
    <3>2. /\ Total(<<a, e>>) \in Nat
          /\ Memory(e) \in Nat /\ Total(<<a, e + 1>>) = Total(<<a, e>>) + Memory(e)
      <4> HIDE DEF a, e
      <4>1. a <= e /\ e <= Blocks /\ e < Blocks
        BY <1>1, <1>11, <2>3, <2>2, <2>6, <3>0
      <4> QED
        BY <1>1, <2>2, <4>1, Totals
    <3>3. Total(<<a, e + 1>>) > Budget
      BY <1>1, <3>1, <3>2
    <3> QED
      BY <2>1, <2>3, <2>4, <3>3
  <2> QED
    BY <1>1, <2>2, <2>3, <2>5, <2>6
<1>3. \A r \in Range(R) : \E k \in 1 .. Len(R) : r = R[k]
  BY <1>1 DEF Range
<1> HIDE DEF R
<1>4. ASSUME NEW r \in Range(R)
      PROVE  /\ r \in Nat \X Nat /\ r[2] <= scan.start
             /\ Total(r) <= Budget \/ r[2] = r[1] + 1
             /\ Total(<<r[1], r[2] + 1>>) > Budget
  BY <1>2, <1>3
<1> QED
  BY <1>4 DEF Full, R

\* One iteration of compute_adaptive_chunks keeps what is known of the ranges.
LEMMA ScanFits ==
  ASSUME ShapeInv, FitInv, Scan
  PROVE  Fitting(scan'.ranges, scan'.i) /\ CutInv(scan')
<1> DEFINE R == scan.ranges
           a == scan.start
           i == scan.i
           m == Memory(i)
           C == Closed(i)
           Ends(S, e) == \A r \in Range(S) : r[2] <= e
<1>1. /\ R \in Seq(Nat \X Nat) /\ i \in Nat /\ a \in Nat /\ a <= i /\ TypeInv /\ i < Blocks
      /\ Blocks \in Int /\ Budget \in Nat /\ pc = "cut"
      /\ i + 1 \in Nat /\ i + 1 <= Blocks /\ i <= Blocks
  <2>1. R \in Seq(Nat \X Nat) /\ i \in Nat /\ a \in Nat /\ TypeInv /\ Budget \in Nat
    BY WriterAssumption DEF ShapeInv, TypeInv
  <2>2. a <= i /\ i < Blocks /\ pc = "cut"
    BY DEF ShapeInv, ScanInv, Scan
  <2>3. Blocks \in Int
    BY WriterAssumption DEF ShapeInv, TypeInv, Heights, Blocks
  <2> HIDE DEF R, a, i
  <2> QED
    BY <2>1, <2>2, <2>3
<1>2. Full(R) /\ \A r \in Range(R) : r \in Nat \X Nat /\ r[2] <= a
  BY <1>1, RangesFull
<1>3. scan.memory = Total(<<a, i>>) /\ scan.memory <= Budget
  BY <1>1 DEF FitInv, CutInv
<1>4. /\ scan.memory \in Nat
      /\ m \in Nat \ {0}
      /\ Total(<<a, i + 1>>) = scan.memory + m
      /\ a = i => scan.memory = 0
  <2> HIDE DEF a, i, m
  <2>1. Total(<<a, i>>) \in Nat /\ (a = i => Total(<<a, i>>) = 0)
    BY <1>1, Totals
  <2>2. m \in Nat \ {0} /\ Total(<<a, i + 1>>) = Total(<<a, i>>) + m
    BY <1>1, Totals DEF m
  <2> QED
    BY <1>3, <2>1, <2>2
<1>5. Total(<<i, i + 1>>) = m /\ Total(<<i + 1, i + 1>>) = 0
  <2>1. i <= i /\ i <= Blocks /\ i + 1 <= i + 1
    BY <1>1
  <2>2. Total(<<i, i>>) = 0 /\ Total(<<i, i + 1>>) = Total(<<i, i>>) + m
    <3> HIDE DEF i
    <3> QED
      BY <1>1, <2>1, Totals
  <2>3. Total(<<i + 1, i + 1>>) = 0
    <3> DEFINE j == i + 1
    <3>1. j \in Nat /\ j <= j /\ j <= Blocks
      BY <1>1
    <3> HIDE DEF j
    <3>2. Total(<<j, j>>) = 0
      BY <1>1, <3>1, Totals
    <3> QED
      BY <3>2 DEF j
  <2> HIDE DEF i, m
  <2> QED
    BY <1>4, <2>2, <2>3
<1>6. ASSUME scan.memory + m > Budget
      PROVE  /\ C \in Seq(Nat \X Nat) /\ Full(C)
             /\ \A r \in Range(C) : r \in Nat \X Nat /\ r[2] <= i
  <2>1. CASE a < i
    <3>1. C = Append(R, <<a, i>>)
      BY <2>1 DEF Closed
    <3>2. Total(<<a, i>>) <= Budget /\ Total(<<a, i + 1>>) > Budget
      BY <1>3, <1>4, <1>6
    <3>3. Full(C) /\ C \in Seq(Nat \X Nat) /\ Range(C) = Range(R) \cup {<<a, i>>}
      <4> HIDE DEF C, R, a, i
      <4> QED
        BY <1>1, <1>2, <3>1, <3>2, AppendFull, RangeOfAppend
    <3> HIDE DEF C, R, a, i
    <3>4. \A r \in Range(R) : r[2] <= i /\ r[2] \in Nat
      BY <1>1, <1>2
    <3>5. <<a, i>> \in Nat \X Nat /\ <<a, i>>[2] <= i
      BY <1>1
    <3> QED
      BY <1>2, <3>3, <3>4, <3>5
  <2>2. CASE a = i
    <3>1. C = R
      BY <2>2, <1>1 DEF Closed
    <3> HIDE DEF C, R, a, i
    <3> QED
      BY <1>1, <1>2, <2>2, <3>1
  <2> QED
    BY <1>1, <2>1, <2>2
<1>7. CASE scan' = [scan EXCEPT !.memory = @ + m, !.i = i + 1] /\ scan.memory + m <= Budget
  <2>1. scan \in [ranges : Seq(Nat \X Nat), start : Nat, memory : Nat, i : Nat]
    BY DEF ShapeInv, TypeInv
  <2>2. scan'.ranges = R /\ scan'.start = a /\ scan'.i = i + 1 /\ scan'.memory = scan.memory + m
    BY <1>7, <2>1
  <2> HIDE DEF R, a, i, m
  <2>3. \A k \in 1 .. Len(R) : R[k][2] <= a /\ R[k][2] \in Nat
    <3>1. \A k \in 1 .. Len(R) : R[k] \in Range(R)
      BY <1>1 DEF Range
    <3> QED
      BY <1>2, <3>1
  <2>4. \A k \in 1 .. Len(R) : R[k][2] # i + 1
    BY <1>1, <2>3
  <2> QED
    BY <1>1, <1>2, <1>4, <1>7, <2>2, <2>3, <2>4, FullFits DEF CutInv
<1>8. CASE scan' = [ranges |-> C, start |-> i, memory |-> m, i |-> i + 1]
           /\ scan.memory + m > Budget /\ m <= Budget
  <2> HIDE DEF C, R, a, i, m
  <2>1. scan'.ranges = C /\ scan'.start = i /\ scan'.i = i + 1 /\ scan'.memory = m
    BY <1>8
  <2>2. C \in Seq(Nat \X Nat) /\ Full(C)
    BY <1>6, <1>8
  <2>3. \A k \in 1 .. Len(C) : C[k][2] <= i /\ C[k][2] \in Nat
    <3>1. \A k \in 1 .. Len(C) : C[k] \in Range(C)
      BY <2>2 DEF Range
    <3> QED
      BY <1>6, <1>8, <3>1
  <2>4. \A k \in 1 .. Len(C) : C[k][2] # i + 1
    BY <1>1, <2>3
  <2> QED
    BY <1>5, <1>8, <2>1, <2>2, <2>3, <2>4, FullFits DEF CutInv
<1>9. CASE scan' = [ranges |-> Append(C, <<i, i + 1>>), start |-> i + 1, memory |-> 0, i |-> i + 1]
           /\ scan.memory + m > Budget /\ ~ m <= Budget
  <2> DEFINE S == Append(C, <<i, i + 1>>)
  <2> HIDE DEF C, R, a, i, m
  <2>1. scan'.ranges = S /\ scan'.start = i + 1 /\ scan'.i = i + 1 /\ scan'.memory = 0
    BY <1>9
  <2>2. C \in Seq(Nat \X Nat) /\ Full(C)
    BY <1>6, <1>9
  <2>3. S \in Seq(Nat \X Nat) /\ Range(S) = Range(C) \cup {<<i, i + 1>>}
    BY <1>1, <2>2, RangeOfAppend
  <2>4. Fitting(S, i + 1)
    <3> DEFINE j == i + 1
    <3>1. j \in Nat /\ ~ j < j /\ j = i + 1
      BY <1>1
    <3> HIDE DEF j
    <3>2. Fitting(Append(C, <<i, j>>), j)
      BY <1>1, <2>2, <3>1, AppendFits
    <3> QED
      BY <3>2 DEF j
  <2>5. ASSUME NEW r \in Range(S)
        PROVE  r[2] <= i + 1 /\ (r[2] = i + 1 => Total(r) > Budget)
    <3>1. CASE r \in Range(C)
      <4>1. r[2] <= i /\ r[2] \in Nat
        BY <3>1, <1>6, <1>9
      <4> QED
        BY <1>1, <4>1
    <3>2. CASE r = <<i, i + 1>>
      <4>1. Total(r) = m /\ m > Budget
        BY <1>1, <1>4, <1>5, <1>9, <3>2
      <4> QED
        BY <1>1, <3>2, <4>1
    <3> QED
      BY <2>3, <2>5, <3>1, <3>2
  <2> HIDE DEF S
  <2>6. \A k \in 1 .. Len(S) : S[k] \in Range(S)
    BY <2>3 DEF Range
  <2> QED
    BY <1>1, <1>5, <2>1, <2>4, <2>5, <2>6 DEF CutInv
<1>10. \/ scan.memory + m <= Budget
       \/ scan.memory + m > Budget
  <2> HIDE DEF m
  <2> QED
    BY <1>1, <1>4
<1> QED
  BY <1>7, <1>8, <1>9, <1>10 DEF Scan

\* Closing the last range keeps what is known of the ranges.
LEMMA ScanEndsFits ==
  ASSUME ShapeInv, FitInv, ScanEnds
  PROVE  Fitting(scan'.ranges, scan'.i) /\ scan'.i = Blocks
<1> DEFINE R == scan.ranges
           a == scan.start
           i == scan.i
           C == Closed(i)
<1>1. /\ R \in Seq(Nat \X Nat) /\ i \in Nat /\ a \in Nat /\ Budget \in Nat
      /\ scan \in [ranges : Seq(Nat \X Nat), start : Nat, memory : Nat, i : Nat]
  BY WriterAssumption DEF ShapeInv, TypeInv
<1>2. pc = "cut" /\ i = Blocks /\ a <= i /\ scan' = [scan EXCEPT !.ranges = C]
  BY DEF ScanEnds, ShapeInv, ScanInv
<1>3. scan'.ranges = C /\ scan'.i = i
  BY <1>1, <1>2
<1>4. CASE a < i
  <2>1. Full(R)
    BY <1>2, <1>4, RangesFull
  <2>2. Total(<<a, i>>) <= Budget
    BY <1>2 DEF FitInv, CutInv
  <2>3. C = Append(R, <<a, i>>) /\ ~ i < i
    BY <1>1, <1>4 DEF Closed
  <2> HIDE DEF C, R, a, i
  <2> QED
    BY <1>1, <1>2, <1>3, <2>1, <2>2, <2>3, AppendFits
<1>5. CASE a = i
  <2>1. C = R
    BY <1>1, <1>5 DEF Closed
  <2> QED
    BY <1>2, <1>3, <2>1 DEF FitInv
<1> QED
  BY <1>1, <1>2, <1>4, <1>5

\* A batch that has not been cut has no ranges.
LEMMA NoScanFits == Fitting(<<>>, 0)
BY DEF Fitting

\* Every step keeps FitInv: only Scan and ScanEnds touch the ranges.
LEMMA NextFits == ShapeInv /\ FitInv /\ [Next]_vars => FitInv'
<1> SUFFICES ASSUME ShapeInv, FitInv, [Next]_vars PROVE FitInv'
  OBVIOUS
<1>1. ASSUME Scan PROVE FitInv'
  <2>1. UNCHANGED <<memory, batch, mode, pc>> /\ pc = "cut"
    BY <1>1 DEF Scan, fixed
  <2>2. Fitting(scan'.ranges, scan'.i) /\ CutInv(scan')
    BY <1>1, ScanFits
  <2> QED
    BY <2>1, <2>2, SameTotals DEF FitInv, Phases, Queries, Creating
<1>2. ASSUME ScanEnds PROVE FitInv'
  <2>1. UNCHANGED <<memory, batch, mode>> /\ pc' = "begin"
    BY <1>2 DEF ScanEnds, fixed
  <2>2. Fitting(scan'.ranges, scan'.i) /\ scan'.i = Blocks
    BY <1>2, ScanEndsFits
  <2> QED
    BY <2>1, <2>2, SameTotals DEF FitInv
<1>3. ASSUME NextBatch PROVE FitInv'
  <2>1. /\ scan' = NoScan
        /\ pc' = IF mode = "single" THEN "blocks" ELSE "cut"
        /\ mode' = mode
    BY <1>3 DEF NextBatch, fixed
  <2>2. scan'.ranges = <<>> /\ scan'.i = 0 /\ scan'.start = 0 /\ scan'.memory = 0
    BY <2>1 DEF NoScan
  <2>3. Fitting(scan.ranges, scan.i)'
    BY <2>2 DEF Fitting
  <2>4. CutInv(scan)'
    <3>1. TypeInv' /\ Blocks' \in Nat
      <4>1. TypeInv'
        BY <1>3, NextBatchShape DEF ShapeInv
      <4>2. /\ batch'.first \in 0 .. MaxHeight /\ batch'.last \in 0 .. MaxHeight
            /\ batch'.first <= batch'.last
        BY <4>1 DEF TypeInv, Heights
      <4>3. Blocks' = batch'.last - batch'.first + 1
        BY DEF Blocks
      <4> QED
        BY <4>1, <4>2, <4>3, WriterAssumption
    <3>2. Total(<<0, 0>>)' = 0
      <4>1. (TypeInv /\ Blocks \in Nat => Total(<<0, 0>>) = 0)'
        BY NothingTotals, PTL
      <4> QED
        BY <3>1, <4>1
    <3>3. Budget \in Nat
      BY WriterAssumption
    <3> QED
      BY <2>2, <3>2, <3>3 DEF CutInv, Total
  <2>5. mode' = "batch" => pc' \notin Phases \cup {"begin"}
    BY <2>1 DEF Phases, Queries, Creating, ShapeInv, TypeInv
  <2> QED
    BY <2>3, <2>4, <2>5 DEF FitInv
<1>4. ASSUME UNCHANGED <<memory, batch, scan, mode>>, pc' # "cut",
             pc' \in Phases \cup {"begin"} => pc \in Phases \cup {"begin"}
      PROVE  FitInv'
  BY <1>4, SameTotals DEF FitInv
<1>5. ASSUME scan' = NoScan, pc' = "down" PROVE FitInv'
  <2>1. scan'.ranges = <<>>
    BY <1>5 DEF NoScan
  <2>2. Fitting(scan.ranges, scan.i)'
    BY <2>1 DEF Fitting
  <2> QED
    BY <1>5, <2>2 DEF FitInv, Phases, Queries, Creating
<1>6. CASE Process
  <2>1. ASSUME Begin \/ Spawn \/ Await \/ UpdateCheckpoint \/ Commit \/ Rollback PROVE FitInv'
    <3>1. UNCHANGED <<memory, batch, scan, mode>>
      BY <2>1 DEF Begin, Spawn, Await, UpdateCheckpoint, Commit, Rollback, fixed, loopVars
    <3>2. pc' # "cut" /\ pc \in Phases \cup {"begin"}
      BY <2>1 DEF Begin, Spawn, Await, UpdateCheckpoint, Commit, Rollback, Phases, Queries, Creating
    <3> QED
      BY <1>4, <3>1, <3>2
  <2>2. ASSUME Write PROVE FitInv'
    <3>1. UNCHANGED <<memory, batch, scan, mode>> /\ pc \in Phases
      BY <2>2 DEF Write, fixed, loopVars, Phases
    <3>2. pc' # "cut"
      BY <2>2 DEF Write, Failed, Advance, After, Queries, Creating
    <3> QED
      BY <1>4, <3>1, <3>2
  <2>3. ASSUME NEW b \in 1 .. Buckets, TaskLooks(b) \/ TaskWrites(b) \/ TaskFindsClosed(b) PROVE FitInv'
    <3>1. UNCHANGED <<memory, batch, scan, mode, pc>>
      BY <2>3 DEF TaskLooks, TaskWrites, TaskFindsClosed, fixed, loopVars
    <3>2. pc # "cut"
      <4>1. tasks[b].do # "end"
        <5>1. tasks[b].via # None => tasks[b].do # "end"
          BY DEF ShapeInv, TaskInv
        <5> QED
          BY <2>3, <5>1, WriterAssumption DEF TaskLooks, TaskWrites, TaskFindsClosed
      <4> QED
        BY <4>1 DEF ShapeInv, TaskInv
    <3> QED
      BY <1>4, <3>1, <3>2
  <2>4. ASSUME Exit PROVE FitInv'
    BY <2>4, <1>5 DEF Exit, Gone
  <2> QED
    BY <1>1, <1>2, <1>3, <1>6, <2>1, <2>2, <2>3, <2>4 DEF Process
<1>7. CASE Faults
  <2>1. ASSUME BeginFails \/ WriteFails \/ AttemptFails \/ UpdateCheckpointFails \/ CommitFails
        PROVE  FitInv'
    <3>1. UNCHANGED <<memory, batch, scan, mode>>
      BY <2>1 DEF BeginFails, WriteFails, AttemptFails, UpdateCheckpointFails, CommitFails, fixed,
                  loopVars
    <3>2. pc' # "cut" /\ pc \in Phases \cup {"begin"}
      BY <2>1 DEF BeginFails, WriteFails, AttemptFails, UpdateCheckpointFails, CommitFails, Failed,
                  Phases, Queries, Creating
    <3> QED
      BY <1>4, <3>1, <3>2
  <2>2. ASSUME Crash PROVE FitInv'
    BY <2>2, <1>5 DEF Crash, Gone
  <2>3. ASSUME NEW b \in 1 .. Buckets, TaskFails(b) PROVE FitInv'
    <3>1. UNCHANGED <<memory, batch, scan, mode, pc>>
      BY <2>3 DEF TaskFails, fixed, loopVars
    <3>2. pc # "cut"
      <4>1. tasks[b].do # "end"
        BY <2>3 DEF ShapeInv, TaskInv, TaskFails
      <4> QED
        BY <4>1 DEF ShapeInv, TaskInv
    <3> QED
      BY <1>4, <3>1, <3>2
  <2> QED
    BY <1>7, <2>1, <2>2, <2>3 DEF Faults
<1>8. CASE Launch
  BY <1>4, <1>8 DEF Launch, fixed, Phases, Queries, Creating
<1>9. CASE UNCHANGED vars
  BY <1>9, SameTotals DEF FitInv, vars, loopVars, fixed
<1> QED
  BY <1>6, <1>7, <1>8, <1>9 DEF Next

\* Each chunk of compute_adaptive_chunks stays within the memory budget, or is
\* a single block that is larger, and none is cut short: it could not have
\* taken the block after it too.
THEOREM ChunksFitBudget == Spec => []ChunksFit
<1>1. Init => FitInv
  <2> SUFFICES ASSUME Init PROVE FitInv
    OBVIOUS
  <2>1. scan.ranges = <<>> /\ pc = "down"
    BY DEF Init, NoScan
  <2> QED
    BY <2>1 DEF FitInv, Fitting, Phases, Queries, Creating
<1>2. FitInv => ChunksFit
  BY DEF FitInv, Fitting, ChunksFit
<1> QED
  BY <1>1, <1>2, ShapeInvariant, NextFits, PTL DEF Spec

===============================================================================
