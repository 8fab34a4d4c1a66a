--------------------------- MODULE StreamingProofs ---------------------------
(***************************************************************************)
(* What ingest and resume do to the store, for every chain, scan order,    *)
(* batch size, limit and sequence of failures:                             *)
(*                                                                         *)
(*   StoreOnlyGrows    committed blocks and the checkpoint stay;           *)
(*   HeadsLink         a chunk is put on the parent of its first block;    *)
(*   RunIsComplete     a run that ends on its own has left nothing out;    *)
(*   FileIsReadable    what a save leaves behind can be read;              *)
(*   MainChainIsFound  the main chain is found whatever the scan's order,  *)
(*                     unless another record is at one of its heights;     *)
(*   RecordInvariant   every record is stored at its own height.           *)
(*                                                                         *)
(* They rest on what a scan of the index returns, on what sorting a finite *)
(* set by an order yields (SortedFacts), and on an invariant that ties the *)
(* loop's height and its batch to the checkpoint.                          *)
(***************************************************************************)
EXTENDS StreamingIngest, DataLemmas

-----------------------------------------------------------------------------
(* The index *)

\* A map of the index names a record for a height only if it is of that height.
IndexSound(f) == \A h \in DOMAIN f : f[h] \in Entries /\ f[h].height = h

\* Where the scan of LoadBatch ends, and the records it has met by then.
LEMMA ScanShape ==
  ASSUME NEW scan \in Seq(Entries), NEW from \in Int, NEW to \in Int
  PROVE  \E end \in 0 .. Len(scan) :
           LET J == Hits(scan, from, to, end) IN
           /\ LoadBatch(scan, from, to) =
                [h \in HeightsAt(scan, J) |->
                   scan[CHOOSE j \in J : /\ scan[j].height = h
                                         /\ \A k \in J : scan[k].height = h => k <= j]]
           /\ end = Len(scan) \/ Cardinality(HeightsAt(scan, J)) >= to - from + 1
<1> DEFINE seen(i) == HeightsAt(scan, Hits(scan, from, to, i))
           full == {i \in 1 .. Len(scan) : Cardinality(seen(i)) >= to - from + 1}
           end == IF full = {} THEN Len(scan) ELSE CHOOSE i \in full : \A k \in full : i <= k
<1>1. end \in 0 .. Len(scan) /\ (end = Len(scan) \/ end \in full)
  <2>1. CASE full = {}
    BY <2>1
  <2>2. CASE full # {}
    <3>1. \E i \in full : \A k \in full : i <= k
      <4>1. full \in SUBSET (1 .. Len(scan)) /\ Len(scan) \in Nat
        OBVIOUS
      <4> HIDE DEF full
      <4> QED
        BY <2>2, <4>1, FirstPosition
    <3>2. end \in full
      <4> HIDE DEF full
      <4> QED
        BY <2>2, <3>1
    <3> QED
      BY <3>2
  <2> QED
    BY <2>1, <2>2
<1>2. LoadBatch(scan, from, to) =
        [h \in HeightsAt(scan, Hits(scan, from, to, end)) |->
           scan[CHOOSE j \in Hits(scan, from, to, end) :
                  /\ scan[j].height = h
                  /\ \A k \in Hits(scan, from, to, end) : scan[k].height = h => k <= j]]
  BY DEF LoadBatch
<1>3. end = Len(scan) \/ Cardinality(HeightsAt(scan, Hits(scan, from, to, end))) >= to - from + 1
  BY <1>1
<1> QED
  <2> HIDE DEF end
  <2> QED
    BY <1>1, <1>2, <1>3

\* What a scan finds for a height is a record of that height.
LEMMA BatchSound ==
  ASSUME NEW scan \in Seq(Entries), NEW from \in Int, NEW to \in Int
  PROVE  IndexSound(LoadBatch(scan, from, to))
<1>1. PICK end \in 0 .. Len(scan) :
        LET J == Hits(scan, from, to, end) IN
        /\ LoadBatch(scan, from, to) =
             [h \in HeightsAt(scan, J) |->
                scan[CHOOSE j \in J : /\ scan[j].height = h
                                      /\ \A k \in J : scan[k].height = h => k <= j]]
        /\ end = Len(scan) \/ Cardinality(HeightsAt(scan, J)) >= to - from + 1
  BY ScanShape
<1> DEFINE J == Hits(scan, from, to, end)
<1>2. J \in SUBSET (1 .. Len(scan))
  BY DEF Hits
<1>3. ASSUME NEW h \in HeightsAt(scan, J)
      PROVE  LET c == CHOOSE j \in J : /\ scan[j].height = h
                                       /\ \A k \in J : scan[k].height = h => k <= j
             IN scan[c] \in Entries /\ scan[c].height = h
  <2> DEFINE L == {j \in J : scan[j].height = h}
  <2>1. L \in SUBSET (1 .. Len(scan)) /\ L # {}
    BY <1>2, <1>3 DEF HeightsAt
  <2>2. PICK j \in L : \A k \in L : k <= j
    <3>1. Len(scan) \in Nat
      OBVIOUS
    <3> HIDE DEF L
    <3> QED
      BY <2>1, <3>1, LastPosition
  <2>3. \E i \in J : scan[i].height = h /\ \A k \in J : scan[k].height = h => k <= i
    BY <2>2
  <2> QED
    BY <2>3, <1>2
<1> QED
  BY <1>1, <1>3 DEF IndexSound

\* A scan finds every height of its range that the main chain has.
LEMMA BatchFinds ==
  ASSUME NEW scan \in Orders, NEW from \in Int, NEW to \in Int,
         NEW h \in Heights, from <= h, h <= to
  PROVE  h \in DOMAIN LoadBatch(scan, from, to)
<1>1. scan \in Seq(Entries) /\ Main(h) \in ToSet(scan)
  BY StreamAssumption
<1>2. PICK j \in 1 .. Len(scan) : scan[j] = Main(h)
  BY <1>1 DEF ToSet
<1>3. PICK end \in 0 .. Len(scan) :
        LET J == Hits(scan, from, to, end) IN
        /\ LoadBatch(scan, from, to) =
             [k \in HeightsAt(scan, J) |->
                scan[CHOOSE i \in J : /\ scan[i].height = k
                                      /\ \A l \in J : scan[l].height = k => l <= i]]
        /\ end = Len(scan) \/ Cardinality(HeightsAt(scan, J)) >= to - from + 1
  BY <1>1, ScanShape
<1> DEFINE J == Hits(scan, from, to, end)
<1>4. CASE end = Len(scan)
  <2>1. h \in Int
    BY DEF Heights
  <2>2. j \in J
    BY <1>2, <1>4, <2>1 DEF Hits, Accepts, Main
  <2>3. h \in HeightsAt(scan, J)
    BY <2>2, <1>2 DEF HeightsAt, Main
  <2> QED
    BY <2>3, <1>3
<1>5. CASE Cardinality(HeightsAt(scan, J)) >= to - from + 1
  <2> DEFINE S == HeightsAt(scan, J)
  <2>1. S \in SUBSET (from .. to)
    BY DEF HeightsAt, Hits
  <2>2. h \in Int /\ h \in from .. to
    BY DEF Heights
  <2>3. IsFiniteSet(from .. to) /\ Cardinality(from .. to) = to - from + 1
    BY <2>2, FS_Interval
  <2>4. Cardinality(S) <= Cardinality(from .. to) /\ IsFiniteSet(S)
    BY <2>1, <2>3, FS_Subset
  <2>5. Cardinality(S) = Cardinality(from .. to)
    <3>1. Cardinality(S) \in Nat
      BY <2>4, FS_CardinalityType
    <3> HIDE DEF S
    <3> QED
      BY <3>1, <2>3, <2>4, <1>5 DEF S
  <2>6. S = from .. to
    BY <2>1, <2>3, <2>5, FS_Subset
  <2> QED
    BY <2>2, <2>6, <1>3
<1> QED
  BY <1>3, <1>4, <1>5

\* Merging keeps an index sound, and forgets no height.
LEMMA WithSound ==
  ASSUME IndexSound(index), NEW found, IndexSound(found)
  PROVE  IndexSound(With(found)) /\ DOMAIN found \subseteq DOMAIN With(found)
BY DEF With, IndexSound

-----------------------------------------------------------------------------
(* The invariant *)

Early == {"restore", "begin prewarm", "prewarm", "preload"}
Saving == {"save", "write", "rename"}
Places == {"down", "load", "ingest"} \cup Early \cup Saving

\* The store is what lies up to the checkpoint, and chunks are linked.
StoreInv ==
  /\ checkpoint \in (-1 .. Tip) \cup {None}
  /\ stored \in [Heights -> Entries \cup {None}]
  /\ \A h \in Heights : stored[h] # None <=> checkpoint # None /\ h <= checkpoint
  /\ heads \subseteq Heights
  /\ \A h \in heads : h > 0 => stored[h - 1] # None /\ stored[h - 1].main

\* The batch begins where the store ends; or at the start of a run that began
\* within the store, of which nothing can be stored.
Follows ==
  \/ height - Len(batch) = checkpoint + 1
  \/ height - Len(batch) = start /\ start <= checkpoint

LoopInv ==
  /\ pc \in Places
  /\ order \in Orders /\ limit \in Limits /\ depth \in Depths
  /\ IndexSound(index)
  /\ start \in Nat /\ height \in Nat /\ walked \in Nat
  /\ batch \in Seq(Entries)
  /\ \A i \in 1 .. Len(batch) : batch[i].height = height - Len(batch) + i - 1
  /\ pc \in Early \cup {"down"} => batch = <<>> /\ height = start
  /\ pc # "down" => checkpoint # None /\ Follows
  /\ pc # "down" /\ Bounded => start <= limit /\ height <= limit + 1
  /\ pc = "load" => Len(batch) < ReadAhead /\ (Bounded /\ height > limit => batch = <<>>)

EndInv ==
  /\ ending \in BOOLEAN
  /\ ending => pc \in Saving
  /\ RunCompletes

\* What is saved, and the file, name a height that the store has reached.
FileInv ==
  /\ file.whole
  /\ file.height # None => file.height \in Int /\ checkpoint # None /\ file.height <= checkpoint + 1
  /\ pc \in Saving => label \in Int /\ label <= checkpoint + 1
  /\ pc = "rename" => temp.whole /\ temp.height = label

StreamInv == StoreInv /\ LoopInv /\ EndInv /\ FileInv

-----------------------------------------------------------------------------
(* The store *)

\* A record is of a height of the chain, and is not None.
LEMMA EntryFacts == ASSUME NEW e \in Entries PROVE e.height \in Heights /\ e # None
<1>1. \A h \in Heights : Main(h) \in Record
  BY DEF Main, Record
<1>2. Entries \subseteq Record /\ None \notin Record
  BY <1>1, IndexAssumption DEF Entries
<1> QED
  BY <1>2 DEF Record

\* Where there is a checkpoint, it is the highest stored height.
LEMMA CheckpointIsTop == ASSUME StoreInv, checkpoint # None PROVE MaxStored = checkpoint
<1>1. checkpoint \in -1 .. Tip /\ Tip \in Nat
  BY IndexAssumption DEF StoreInv
<1>2. StoredHeights = 0 .. checkpoint
  BY <1>1 DEF StoreInv, StoredHeights, Heights
<1>3. CASE checkpoint = -1
  BY <1>2, <1>3 DEF MaxStored
<1>4. CASE checkpoint >= 0
  <2>1. checkpoint \in 0 .. checkpoint /\ \A k \in 0 .. checkpoint : k <= checkpoint
    BY <1>1, <1>4
  <2>2. \A h \in 0 .. checkpoint : (\A k \in 0 .. checkpoint : k <= h) => h = checkpoint
    BY <1>1, <1>4
  <2> QED
    BY <1>2, <2>1, <2>2 DEF MaxStored
<1> QED
  BY <1>1, <1>3, <1>4

\* A chunk that is accepted begins right above the checkpoint.
LEMMA ChunkShape ==
  ASSUME StoreInv, LoopInv, pc = "ingest", NEW chunk \in NextChunks, Valid(chunk)
  PROVE  /\ chunk \in Seq(Entries) /\ Len(chunk) \in 1 .. Len(batch)
         /\ chunk = SubSeq(batch, 1, Len(chunk))
         /\ checkpoint \in -1 .. Tip
         /\ height - Len(batch) = checkpoint + 1
         /\ \A i \in 1 .. Len(chunk) : chunk[i] \in Entries /\ chunk[i].height = checkpoint + i
         /\ FirstOf(chunk) = checkpoint + 1
         /\ LastOf(chunk) = checkpoint + Len(chunk) /\ LastOf(chunk) \in Heights
<1>1. PICK n \in 1 .. Len(batch) : chunk = SubSeq(batch, 1, n)
  BY DEF NextChunks
<1>2. /\ batch \in Seq(Entries) /\ height \in Nat /\ start \in Nat
      /\ checkpoint \in -1 .. Tip
      /\ Len(batch) \in Nat
  BY DEF LoopInv, StoreInv
<1>3. /\ chunk \in Seq(Entries) /\ Len(chunk) = n
      /\ \A i \in 1 .. n : chunk[i] = batch[i] /\ chunk[i] \in Entries
  BY <1>1, <1>2
<1>4. \A i \in 1 .. n : chunk[i].height = height - Len(batch) + i - 1
  <2>1. \A i \in 1 .. Len(batch) : batch[i].height = height - Len(batch) + i - 1
    BY DEF LoopInv
  <2>2. \A i \in 1 .. n : i \in 1 .. Len(batch)
    BY <1>1, <1>2
  <2> QED
    BY <2>1, <2>2, <1>3
<1>5. FirstOf(chunk) = height - Len(batch) /\ FirstOf(chunk) \in Heights
  <2>1. 1 \in 1 .. n
    BY <1>1
  <2> QED
    BY <2>1, <1>2, <1>3, <1>4, EntryFacts DEF FirstOf
<1>6. stored[FirstOf(chunk)] = None
  BY <1>1, <1>3 DEF Valid, FirstOf
<1>7. ~ (FirstOf(chunk) <= checkpoint)
  BY <1>2, <1>5, <1>6 DEF StoreInv, LoopInv
<1>8. height - Len(batch) = checkpoint + 1
  BY <1>2, <1>5, <1>7 DEF LoopInv, Follows
<1>9. \A i \in 1 .. n : chunk[i] \in Entries /\ chunk[i].height = checkpoint + i
  BY <1>2, <1>3, <1>4, <1>8
<1>10. LastOf(chunk) = checkpoint + n /\ LastOf(chunk) \in Heights
  <2>1. n \in 1 .. n
    BY <1>1
  <2> QED
    BY <2>1, <1>3, <1>9, EntryFacts DEF LastOf
<1> QED
  BY <1>1, <1>2, <1>3, <1>5, <1>8, <1>9, <1>10

\* An accepted chunk lengthens the store and leaves the rest of it.
LEMMA ChunkStored ==
  ASSUME StoreInv, LoopInv, pc = "ingest", NEW chunk \in NextChunks, Valid(chunk), Stored(chunk)
  PROVE  /\ StoreInv'
         /\ checkpoint' = checkpoint + Len(chunk) /\ checkpoint' # None
         /\ \A h \in Heights : stored[h] # None => stored'[h] = stored[h]
<1> DEFINE n == Len(chunk)
<1>1. /\ n \in Nat /\ n >= 1 /\ checkpoint \in -1 .. Tip /\ Tip \in Nat
      /\ FirstOf(chunk) = checkpoint + 1 /\ LastOf(chunk) = checkpoint + n
      /\ checkpoint + n \in Heights /\ checkpoint # None /\ None \notin Int
      /\ \A i \in 1 .. n : chunk[i] \in Entries
  BY ChunkShape, IndexAssumption
<1> HIDE DEF n
<1>2. checkpoint' = checkpoint + n /\ checkpoint' # None /\ checkpoint' \in 0 .. Tip
  BY <1>1 DEF Stored, Heights
<1>3. stored' = [h \in Heights |-> IF h \in checkpoint + 1 .. checkpoint + n
                                   THEN chunk[h - checkpoint] ELSE stored[h]]
  <2>1. \A h \in Heights : h - (checkpoint + 1) + 1 = h - checkpoint
    BY <1>1 DEF Heights
  <2> QED
    BY <1>1, <2>1 DEF Stored
<1>4. ASSUME NEW h \in Heights, h \in checkpoint + 1 .. checkpoint + n
      PROVE  stored'[h] \in Entries /\ stored'[h] # None
  <2>1. h - checkpoint \in 1 .. n
    BY <1>1, <1>4
  <2> QED
    BY <1>1, <1>3, <1>4, <2>1, EntryFacts
<1>5. ASSUME NEW h \in Heights, ~ (h \in checkpoint + 1 .. checkpoint + n)
      PROVE  stored'[h] = stored[h]
  BY <1>3, <1>5
<1>6. \A h \in Heights : stored[h] # None => stored'[h] = stored[h]
  <2>1. \A h \in Heights : stored[h] # None => h <= checkpoint /\ h \in Int
    BY DEF StoreInv, Heights
  <2>2. \A h \in Heights : stored[h] # None => ~ (h \in checkpoint + 1 .. checkpoint + n)
    BY <2>1, <1>1
  <2> QED
    BY <2>2, <1>5
<1>7. stored' \in [Heights -> Entries \cup {None}]
  <2>1. \A h \in Heights : stored'[h] \in Entries \cup {None}
    BY <1>4, <1>5 DEF StoreInv
  <2> QED
    BY <2>1, <1>3
<1>8. ASSUME NEW h \in Heights PROVE stored'[h] # None <=> h <= checkpoint'
  <2>1. h \in Int /\ h >= 0
    BY DEF Heights
  <2>2. CASE h \in checkpoint + 1 .. checkpoint + n
    BY <2>1, <2>2, <1>1, <1>2, <1>4
  <2>3. CASE ~ (h \in checkpoint + 1 .. checkpoint + n)
    <3>1. stored[h] # None <=> h <= checkpoint
      BY <1>1 DEF StoreInv
    <3> QED
      BY <2>1, <2>3, <3>1, <1>1, <1>2, <1>5
  <2> QED
    BY <2>2, <2>3
<1>9. ASSUME NEW h \in heads', h > 0
      PROVE  stored'[h - 1] # None /\ stored'[h - 1].main
  <2>1. CASE h \in heads
    <3>1. stored[h - 1] # None /\ stored[h - 1].main
      BY <2>1, <1>9 DEF StoreInv
    <3>2. h \in Heights
      BY <2>1 DEF StoreInv
    <3>3. h - 1 \in Heights
      BY <3>2, <1>1, <1>9 DEF Heights
    <3> QED
      BY <3>1, <3>3, <1>6
  <2>2. CASE h = checkpoint + 1
    <3>1. h - 1 = checkpoint /\ checkpoint \in Heights
      BY <2>2, <1>1, <1>9 DEF Heights
    <3>2. stored[checkpoint] # None
      BY <3>1, <1>1 DEF StoreInv, Heights
    <3>3. stored[checkpoint].main
      BY <3>1, <3>2, <2>2, <1>1, <1>9 DEF Valid, LinkedAt, Genesis
    <3> QED
      BY <3>1, <3>2, <3>3, <1>6
  <2> QED
    BY <2>1, <2>2, <1>1 DEF Stored
<1>10. heads' \subseteq Heights
  BY <1>1 DEF Stored, StoreInv, Heights
<1> QED
  BY <1>2, <1>6, <1>7, <1>8, <1>9, <1>10 DEF StoreInv, n

-----------------------------------------------------------------------------
(* The steps *)

StoreKept == UNCHANGED <<stored, heads, checkpoint>>

\* The store's part of the invariant speaks of the store alone.
LEMMA StoreSame == ASSUME StoreInv, StoreKept PROVE StoreInv'
BY DEF StoreInv, StoreKept

\* A command that ends leaves an invariant state, if the store is one.
LEMMA GoneInv ==
  ASSUME StreamInv, StoreInv', Gone, UNCHANGED <<options, file>>,
         checkpoint # None, checkpoint' \in Int, checkpoint' >= checkpoint, checkpoint' # None
  PROVE  StreamInv'
<1>1. LoopInv'
  <2>1. /\ pc' = "down" /\ batch' = <<>> /\ index' = <<>>
        /\ start' = 0 /\ height' = 0 /\ walked' = 0
    BY DEF Gone
  <2>2. IndexSound(index') /\ batch' \in Seq(Entries) /\ 1 .. Len(batch') = {}
    BY <2>1 DEF IndexSound
  <2>3. order' \in Orders /\ limit' \in Limits /\ depth' \in Depths
    BY DEF StreamInv, LoopInv, options
  <2> QED
    BY <2>1, <2>2, <2>3 DEF LoopInv, Places
<1>2. EndInv'
  BY DEF Gone, EndInv, StreamInv, RunCompletes
<1>3. checkpoint \in Int
  BY DEF StreamInv, StoreInv
<1>4. FileInv'
  BY <1>3 DEF Gone, FileInv, StreamInv, Saving
<1> QED
  BY <1>1, <1>2, <1>4 DEF StreamInv

\* The command ends, and the store stays.
LEMMA StopInv ==
  ASSUME StreamInv, pc # "down", Gone, UNCHANGED <<options, graphVars, file>>
  PROVE  StreamInv'
<1>1. StoreKept
  BY DEF graphVars, StoreKept
<1>2. checkpoint # None /\ checkpoint \in Int
  BY DEF StreamInv, LoopInv, StoreInv
<1> QED
  BY <1>1, <1>2, StoreSame, GoneInv DEF StoreKept, StreamInv

\* Ingest and Resume agree with the checkpoint on where to start.
LEMMA LaunchInv == ASSUME StreamInv, Ingest \/ Resume PROVE StreamInv'
<1>1. /\ pc = "down" /\ pc' = "restore" /\ height' = start'
      /\ UNCHANGED <<order, limit, depth, stored, heads, batch, index, walked, label, ending, file, temp>>
  BY DEF Ingest, Resume, Launched, options, disk, warmVars
<1>2. None \notin Int /\ Tip \in Nat /\ (limit = None \/ limit \in Nat)
  BY IndexAssumption, StreamAssumption DEF StreamInv, LoopInv
<1>3. /\ checkpoint' \in -1 .. Tip
      /\ checkpoint = None => checkpoint' = -1 /\ start' = 0
      /\ checkpoint # None => checkpoint' = checkpoint
      /\ start' = checkpoint' + 1 \/ (start' = 0 /\ 0 <= checkpoint')
      /\ Bounded => start' <= limit
  <2>1. CASE Ingest
    <3>1. checkpoint \in (-1 .. Tip) \cup {None}
      BY DEF StreamInv, StoreInv
    <3>2. start' = 0
      BY <2>1 DEF Ingest, Launched
    <3>3. checkpoint' = IF checkpoint = None THEN -1 ELSE checkpoint
      BY <2>1 DEF Ingest
    <3> QED
      BY <3>1, <3>2, <3>3, <1>2 DEF Bounded
  <2>2. CASE Resume
    <3>1. checkpoint # None /\ checkpoint \in -1 .. Tip
      BY <2>2 DEF Resume, StreamInv, StoreInv
    <3>2. MaxStored = checkpoint
      BY <3>1, CheckpointIsTop DEF StreamInv
    <3>3. ReadHeight(checkpoint) \in {-1, checkpoint}
      BY DEF ReadHeight
    <3>4. checkpoint' = checkpoint /\ start' = checkpoint + 1 /\ (Bounded => ~ (checkpoint + 1 >= limit))
      BY <2>2, <3>1, <3>2, <3>3 DEF Resume, Launched
    <3> QED
      BY <3>1, <3>4, <1>2 DEF Bounded
  <2> QED
    BY <2>1, <2>2
<1>4. StoreInv'
  <2>1. CASE checkpoint = None
    <3>1. checkpoint' = -1 /\ checkpoint' # None
      BY <2>1, <1>2, <1>3
    <3> QED
      BY <2>1, <3>1, <1>1, <1>2 DEF StreamInv, StoreInv, Heights
  <2>2. CASE checkpoint # None
    BY <2>2, <1>1, <1>3, StoreSame DEF StoreKept, StreamInv
  <2> QED
    BY <2>1, <2>2
<1>5. LoopInv'
  <2>1. batch = <<>> /\ Len(batch) = 0 /\ start' \in Nat /\ checkpoint' # None /\ checkpoint' \in Int
    BY <1>1, <1>2, <1>3 DEF StreamInv, LoopInv
  <2>2. Follows'
    <3>1. \A n \in Nat : n - 0 = n
      OBVIOUS
    <3>2. Len(batch') = 0
      BY <2>1, <1>1
    <3>3. height' - Len(batch') = start'
      BY <3>1, <3>2, <2>1, <1>1, Zenon
    <3> QED
      BY <3>3, <1>3 DEF Follows
  <2>3. Bounded' => start' <= limit' /\ height' <= limit' + 1
    BY <2>1, <1>1, <1>2, <1>3 DEF Bounded
  <2> QED
    BY <2>1, <2>2, <2>3, <1>1 DEF StreamInv, LoopInv, Places, Early, IndexSound
<1>6. EndInv'
  BY <1>1 DEF StreamInv, EndInv, RunCompletes, Saving
<1>7. FileInv'
  BY <1>1, <1>2, <1>3 DEF StreamInv, FileInv, Saving
<1> QED
  BY <1>4, <1>5, <1>6, <1>7 DEF StreamInv


\* What the loader knows after ensure_loaded: the height, if the chain has it.
LEMMA HeightLoaded ==
  ASSUME LoopInv, NEW h \in Int
  PROVE  /\ IndexSound(WithHeight(h))
         /\ h \in Heights => h \in DOMAIN WithHeight(h)
<1>1. /\ order \in Seq(Entries) /\ order \in Orders /\ IndexSound(index)
      /\ h + IndexBatch - 1 \in Int /\ h <= h + IndexBatch - 1
  BY StreamAssumption DEF LoopInv
<1> DEFINE found == LoadBatch(order, h, h + IndexBatch - 1)
<1>2. IndexSound(found) /\ (h \in Heights => h \in DOMAIN found)
  BY <1>1, BatchSound, BatchFinds
<1> HIDE DEF found
<1>3. IndexSound(With(found)) /\ DOMAIN found \subseteq DOMAIN With(found)
  BY <1>1, <1>2, WithSound
<1> QED
  BY <1>1, <1>2, <1>3 DEF WithHeight, found

\* The steps before the loop only read the index.
LEMMA EarlyInv ==
  ASSUME StreamInv, Restore \/ BeginPrewarm \/ PrewarmBlock \/ EndPrewarm \/ Preload
  PROVE  StreamInv'
<1>1. /\ pc \in Early /\ pc' \in Early \cup {"load"}
      /\ UNCHANGED <<order, limit, depth, stored, heads, checkpoint, start, height, batch, label,
                     ending, file, temp>>
  BY DEF Restore, BeginPrewarm, PrewarmBlock, EndPrewarm, Preload, Walks, Early, options, disk, graphVars
<1>2. /\ order \in Seq(Entries) /\ order \in Orders /\ start \in Nat /\ IndexSound(index)
      /\ depth \in Nat /\ (limit = None \/ limit \in Nat)
  BY StreamAssumption DEF StreamInv, LoopInv
<1>3. ASSUME NEW from \in Int, NEW to \in Int PROVE IndexSound(With(LoadBatch(order, from, to)))
  <2>1. IndexSound(LoadBatch(order, from, to))
    BY <1>2, BatchSound
  <2> QED
    BY <2>1, <1>2, WithSound
<1>4. IndexSound(index')
  <2>1. CASE Restore \/ EndPrewarm
    BY <2>1, <1>2 DEF Restore, EndPrewarm
  <2>2. CASE BeginPrewarm
    <3>1. (IF start > depth THEN start - depth ELSE 0) \in Int /\ start - 1 \in Int
      BY <1>2
    <3> QED
      BY <2>2, <3>1, <1>3 DEF BeginPrewarm
  <2>3. CASE PrewarmBlock
    <3>1. CASE WalkAt \in Int
      BY <2>3, <3>1, HeightLoaded DEF PrewarmBlock, StreamInv
    <3>2. walked \in Nat
      BY DEF StreamInv, LoopInv
    <3> QED
      BY <3>1, <3>2, <1>2 DEF WalkAt
  <2>4. CASE Preload
    <3>1. CASE Bounded
      BY <2>4, <3>1, <1>2, <1>3 DEF Preload, Bounded
    <3> QED
      BY <2>4, <3>1, <1>2 DEF Preload
  <2> QED
    BY <2>1, <2>2, <2>3, <2>4
<1>5. LoopInv'
  <2>1. batch' = <<>> /\ Len(batch') = 0 /\ height' = start' /\ ReadAhead > 0
    BY <1>1, StreamAssumption DEF StreamInv, LoopInv
  <2>2. pc # "down" /\ Follows /\ checkpoint # None /\ (Bounded => start <= limit /\ height <= limit + 1)
    BY <1>1 DEF StreamInv, LoopInv, Early
  <2>3. Follows' /\ (Bounded' => start' <= limit' /\ height' <= limit' + 1)
    BY <2>2, <1>1 DEF Follows, Bounded
  <2>4. walked' \in Nat
    <3>1. walked' \in {walked, walked + 1}
      BY DEF Restore, BeginPrewarm, PrewarmBlock, EndPrewarm, Preload, warmVars
    <3>2. walked \in Nat
      BY DEF StreamInv, LoopInv
    <3> QED
      BY <3>1, <3>2
  <2>5. pc' = "load" => Len(batch') < ReadAhead /\ (Bounded' /\ height' > limit' => batch' = <<>>)
    BY <2>1
  <2>6. pc' \in Places /\ pc' # "down"
    BY <1>1 DEF Places, Early
  <2>7. batch' \in Seq(Entries) /\ 1 .. Len(batch') = {}
    BY <2>1
  <2>8. order' \in Orders /\ limit' \in Limits /\ depth' \in Depths
        /\ start' \in Nat /\ height' \in Nat /\ checkpoint' # None
    BY <2>2, <1>1 DEF StreamInv, LoopInv
  <2> QED
    BY <2>1, <2>3, <2>4, <2>5, <2>6, <2>7, <2>8, <1>4 DEF LoopInv
<1>6. StoreInv' /\ EndInv' /\ FileInv'
  BY <1>1, StoreSame DEF StreamInv, StoreKept, EndInv, FileInv, RunCompletes, Saving, Early
<1> QED
  BY <1>5, <1>6 DEF StreamInv

\* A block that is loaded is the next of the batch.
LEMMA LoadInv == ASSUME StreamInv, Load PROVE StreamInv'
<1>1. /\ pc = "load" /\ pc' \in {"load", "ingest"} /\ Loads
      /\ height' = height + 1 /\ index' = WithHeight(height) /\ height \in DOMAIN index'
      /\ batch' = Append(batch, index'[height])
      /\ pc' = "load" => Len(batch') # ReadAhead /\ height # limit
      /\ UNCHANGED <<order, limit, depth, stored, heads, checkpoint, start, walked, label, ending,
                     file, temp>>
  BY DEF Load, Loads, options, disk, graphVars, warmVars
<1>2. /\ batch \in Seq(Entries) /\ height \in Nat /\ start \in Nat /\ Follows /\ checkpoint # None
      /\ Len(batch) < ReadAhead /\ ReadAhead \in Nat /\ (limit = None \/ limit \in Nat)
      /\ \A i \in 1 .. Len(batch) : batch[i].height = height - Len(batch) + i - 1
      /\ (Bounded => start <= limit) /\ checkpoint \in Int
  BY <1>1, StreamAssumption DEF StreamInv, LoopInv, StoreInv
<1>3. IndexSound(index')
  BY <1>1, <1>2, HeightLoaded DEF StreamInv
<1>4. index'[height] \in Entries /\ index'[height].height = height
  BY <1>1, <1>3 DEF IndexSound
<1>5. /\ batch' \in Seq(Entries) /\ Len(batch') = Len(batch) + 1 /\ Len(batch) \in Nat
      /\ \A i \in 1 .. Len(batch) : batch'[i] = batch[i]
      /\ batch'[Len(batch) + 1] = index'[height]
  BY <1>1, <1>2, <1>4
<1>6. ASSUME NEW i \in 1 .. Len(batch')
      PROVE  batch'[i].height = height' - Len(batch') + i - 1
  <2>1. CASE i \in 1 .. Len(batch)
    <3>1. batch'[i].height = height - Len(batch) + i - 1
      BY <2>1, <1>2, <1>5
    <3>2. height - Len(batch) = height' - Len(batch')
      BY <1>1, <1>2, <1>5
    <3> QED
      BY <3>1, <3>2
  <2>2. CASE i = Len(batch) + 1
    <3>1. batch'[i].height = height
      BY <2>2, <1>4, <1>5
    <3>2. height = height' - Len(batch') + i - 1
      BY <2>2, <1>1, <1>2, <1>5
    <3> QED
      BY <3>1, <3>2
  <2> QED
    BY <2>1, <2>2, <1>5
<1>7. height' - Len(batch') = height - Len(batch)
  BY <1>1, <1>2, <1>5
<1>8. Follows'
  BY <1>7, <1>1, <1>2 DEF Follows
<1>9. Bounded' => start' <= limit' /\ height' <= limit' + 1
  <2>1. Bounded => ~ (height > limit)
    BY <1>1 DEF Loads
  <2> QED
    BY <2>1, <1>1, <1>2 DEF Bounded
<1>10. pc' = "load" => Len(batch') < ReadAhead /\ ~ (Bounded' /\ height' > limit')
  <2>1. Bounded => ~ (height > limit)
    BY <1>1 DEF Loads
  <2>2. pc' = "load" => Len(batch') < ReadAhead
    BY <1>1, <1>2, <1>5
  <2>3. pc' = "load" /\ Bounded' => ~ (height' > limit')
    BY <2>1, <1>1, <1>2 DEF Bounded
  <2> QED
    BY <2>2, <2>3
<1>11. LoopInv'
  <2>1. pc' \in Places /\ pc' \notin Early \cup {"down"}
    BY <1>1 DEF Places, Early
  <2>2. order' \in Orders /\ limit' \in Limits /\ depth' \in Depths /\ walked' \in Nat
        /\ start' \in Nat /\ height' \in Nat /\ checkpoint' # None
    BY <1>1, <1>2 DEF StreamInv, LoopInv
  <2> QED
    BY <2>1, <2>2, <1>3, <1>5, <1>6, <1>8, <1>9, <1>10 DEF LoopInv
<1>12. StoreInv' /\ EndInv' /\ FileInv'
  BY <1>1, StoreSame DEF StreamInv, StoreKept, EndInv, FileInv, RunCompletes, Saving
<1> QED
  BY <1>11, <1>12 DEF StreamInv

\* The loop ends with everything stored that the run was to store.
LEMMA EndLoopInv == ASSUME StreamInv, EndLoop PROVE StreamInv'
<1>1. /\ pc = "load" /\ pc' = "save" /\ ending' = TRUE /\ label' = height - Len(batch)
      /\ Loads => height \notin DOMAIN WithHeight(height)
      /\ UNCHANGED <<order, limit, depth, stored, heads, checkpoint, start, height, batch, index,
                     walked, file, temp>>
  BY DEF EndLoop, options, disk, graphVars, warmVars
<1>2. /\ batch \in Seq(Entries) /\ Len(batch) \in Nat /\ height \in Nat /\ start \in Nat /\ Follows
      /\ checkpoint # None /\ checkpoint \in -1 .. Tip /\ Tip \in Nat
      /\ Len(batch) < ReadAhead /\ ReadAhead \in Nat /\ ReadAhead > 0
      /\ (limit = None \/ limit \in Nat)
      /\ (Bounded => start <= limit /\ height <= limit + 1)
      /\ (Bounded /\ height > limit => batch = <<>>)
  BY <1>1, StreamAssumption, IndexAssumption DEF StreamInv, LoopInv, StoreInv
<1>3. height - Len(batch) <= checkpoint + 1
  BY <1>2 DEF Follows
<1>4. Loads => height > Tip
  <2>1. Loads => height \notin Heights
    BY <1>1, <1>2, HeightLoaded DEF StreamInv
  <2> QED
    BY <2>1, <1>2 DEF Heights
<1>5. ~ Loads => Bounded /\ height > limit
  BY <1>1 DEF Loads
<1>6. IF limit \in Heights THEN checkpoint = limit ELSE Tip - checkpoint < ReadAhead
  <2>1. CASE limit \in Heights
    <3>1. Bounded /\ limit \in Nat /\ limit <= Tip
      BY <1>2, <2>1, IndexAssumption DEF Bounded, Heights
    <3>2. height > limit
      BY <3>1, <1>2, <1>4, <1>5
    <3>3. height = limit + 1 /\ batch = <<>>
      BY <3>1, <3>2, <1>2
    <3>4. Len(batch) = 0
      BY <3>3
    <3> QED
      BY <2>1, <3>1, <3>3, <3>4, <1>2 DEF Follows
  <2>2. CASE limit \notin Heights
    <3>1. height > Tip
      <4>1. Bounded => limit > Tip
        BY <1>2, <2>2 DEF Bounded, Heights
      <4> QED
        BY <4>1, <1>2, <1>4, <1>5 DEF Bounded
    <3> QED
      BY <2>2, <3>1, <1>2, <1>3
  <2> QED
    BY <2>1, <2>2
<1>7. EndInv'
  BY <1>1, <1>6 DEF EndInv, RunCompletes, Saving
<1>8. FileInv'
  BY <1>1, <1>2, <1>3 DEF StreamInv, FileInv, Saving
<1>9. LoopInv'
  <2>1. pc' \in Places /\ pc' \notin Early \cup {"down", "load"}
    BY <1>1 DEF Places, Early, Saving
  <2>2. Follows' /\ (Bounded' => start' <= limit' /\ height' <= limit' + 1)
    BY <1>1, <1>2 DEF Follows, Bounded
  <2> QED
    BY <2>1, <2>2, <1>1, <1>2 DEF StreamInv, LoopInv, IndexSound
<1>10. StoreInv'
  BY <1>1, StoreSame DEF StreamInv, StoreKept
<1> QED
  BY <1>7, <1>8, <1>9, <1>10 DEF StreamInv

\* The blocks that a chunk leaves of the batch follow it.
LEMMA IngestInv ==
  ASSUME StreamInv, NEW chunk \in NextChunks, IngestChunk(chunk)
  PROVE  StreamInv'
<1> DEFINE n == Len(chunk)
<1>1. /\ pc = "ingest" /\ pc' = "save" /\ Valid(chunk) /\ Stored(chunk)
      /\ batch' = SubSeq(batch, n + 1, Len(batch)) /\ label' = LastOf(chunk)
      /\ UNCHANGED <<order, limit, depth, start, height, index, walked, ending, file, temp>>
  BY DEF IngestChunk, options, disk, warmVars
<1>2. /\ n \in 1 .. Len(batch) /\ checkpoint \in -1 .. Tip /\ height - Len(batch) = checkpoint + 1
      /\ LastOf(chunk) = checkpoint + n
  BY <1>1, ChunkShape DEF StreamInv
<1>3. StoreInv' /\ checkpoint' = checkpoint + n /\ checkpoint' # None
  BY <1>1, ChunkStored DEF StreamInv
<1>4. /\ batch \in Seq(Entries) /\ Len(batch) \in Nat /\ height \in Nat /\ start \in Nat
      /\ \A i \in 1 .. Len(batch) : batch[i].height = height - Len(batch) + i - 1
      /\ (Bounded => start <= limit /\ height <= limit + 1)
  BY <1>1 DEF StreamInv, LoopInv
<1> HIDE DEF n
<1>5. /\ batch' \in Seq(Entries) /\ Len(batch') = Len(batch) - n
      /\ \A i \in 1 .. Len(batch) - n : batch'[i] = batch[n + i]
  <2>1. /\ batch \in Seq(Entries) /\ n \in 1 .. Len(batch)
        /\ batch' = SubSeq(batch, n + 1, Len(batch))
    BY <1>1, <1>2, <1>4
  <2>2. batch' \in Seq(Entries)
    BY <2>1
  <2>3. Len(batch') = Len(batch) - n
    BY <2>1
  <2>4. \A i \in 1 .. Len(batch) - n : batch'[i] = batch[n + i]
    BY <2>1
  <2> QED
    BY <2>2, <2>3, <2>4
<1>6. n \in Nat /\ n <= Len(batch) /\ checkpoint \in Int /\ height' = height
  BY <1>1, <1>2, <1>4
<1>7. height' - Len(batch') = checkpoint' + 1
  <2>1. height \in Int /\ Len(batch) \in Int /\ height - Len(batch) = checkpoint + 1
    BY <1>2, <1>4
  <2>2. height - (Len(batch) - n) = checkpoint + n + 1
    BY <2>1, <1>6
  <2> QED
    BY <2>2, <1>3, <1>5, <1>6, Zenon
<1>8. ASSUME NEW i \in 1 .. Len(batch')
      PROVE  batch'[i].height = height' - Len(batch') + i - 1
  <2>1. i \in 1 .. Len(batch) - n
    BY <1>5, Zenon
  <2>2. batch'[i] = batch[n + i] /\ n + i \in 1 .. Len(batch)
    BY <2>1, <1>4, <1>5, <1>6
  <2>3. batch'[i].height = height - Len(batch) + (n + i) - 1
    BY <2>2, <1>4
  <2>4. height - Len(batch) + (n + i) - 1 = height - (Len(batch) - n) + i - 1
    BY <2>1, <1>4, <1>6
  <2>5. height' - Len(batch') = height - (Len(batch) - n)
    BY <1>5, <1>6, Zenon
  <2> QED
    BY <2>3, <2>4, <2>5
<1>9. LoopInv'
  <2>1. pc' \in Places /\ pc' \notin Early \cup {"down", "load"}
    BY <1>1 DEF Places, Early, Saving
  <2>2. Follows' /\ (Bounded' => start' <= limit' /\ height' <= limit' + 1)
    BY <1>1, <1>4, <1>7 DEF Follows, Bounded
  <2>3. order' \in Orders /\ limit' \in Limits /\ depth' \in Depths /\ walked' \in Nat
        /\ start' \in Nat /\ height' \in Nat /\ IndexSound(index')
    BY <1>1 DEF StreamInv, LoopInv, IndexSound
  <2> QED
    BY <2>1, <2>2, <2>3, <1>3, <1>5, <1>8 DEF LoopInv
<1>10. ending = FALSE
  BY <1>1 DEF StreamInv, EndInv, Saving
<1>11. EndInv'
  BY <1>1, <1>10 DEF EndInv, RunCompletes
<1>12. FileInv'
  BY <1>1, <1>2, <1>3 DEF StreamInv, FileInv, Saving
<1> QED
  BY <1>3, <1>9, <1>11, <1>12 DEF StreamInv

\* A commit that is reported as failed has stored its chunk.
LEMMA CommitFailsInv ==
  ASSUME StreamInv, NEW chunk \in NextChunks, CommitFails(chunk)
  PROVE  StreamInv'
<1>1. pc = "ingest" /\ Valid(chunk) /\ Stored(chunk) /\ Gone /\ UNCHANGED <<options, file>>
  BY DEF CommitFails, disk
<1>2. /\ Len(chunk) \in 1 .. Len(batch) /\ checkpoint \in -1 .. Tip /\ Len(batch) \in Nat
      /\ checkpoint # None
  BY <1>1, ChunkShape DEF StreamInv, LoopInv
<1>3. StoreInv' /\ checkpoint' = checkpoint + Len(chunk) /\ checkpoint' # None
  BY <1>1, ChunkStored DEF StreamInv
<1>4. checkpoint' \in Int /\ checkpoint' >= checkpoint
  BY <1>2, <1>3
<1> QED
  BY <1>1, <1>2, <1>3, <1>4, GoneInv

\* Where a save, successful or not, goes on.
LEMMA AfterSaveInv ==
  ASSUME StreamInv, pc \in Saving, AfterSave, UNCHANGED <<options, graphVars>>,
         file' = file \/ (file' = temp /\ pc = "rename")
  PROVE  StreamInv'
<1>1. StoreKept /\ StoreInv'
  BY StoreSame DEF StreamInv, StoreKept, graphVars
<1>2. /\ file'.whole
      /\ file'.height # None =>
           file'.height \in Int /\ checkpoint # None /\ file'.height <= checkpoint + 1
  <2>1. CASE file' = file
    BY <2>1 DEF StreamInv, FileInv
  <2>2. CASE file' = temp /\ pc = "rename"
    <3>1. checkpoint # None
      BY DEF StreamInv, LoopInv, Saving
    <3> QED
      BY <2>2, <3>1 DEF StreamInv, FileInv, Saving
  <2> QED
    BY <2>1, <2>2
<1>3. CASE ending
  <2>1. Gone
    BY <1>3 DEF AfterSave
  <2>2. pc' = "down" /\ ending' = FALSE /\ checkpoint' = checkpoint
    BY <2>1, <1>1 DEF Gone, StoreKept
  <2>3. LoopInv'
    <3>1. /\ batch' = <<>> /\ index' = <<>>
          /\ start' = 0 /\ height' = 0 /\ walked' = 0
      BY <2>1 DEF Gone
    <3>2. IndexSound(index') /\ batch' \in Seq(Entries) /\ 1 .. Len(batch') = {}
      BY <3>1 DEF IndexSound
    <3>3. order' \in Orders /\ limit' \in Limits /\ depth' \in Depths
      BY DEF StreamInv, LoopInv, options
    <3> QED
      BY <2>2, <3>1, <3>2, <3>3 DEF LoopInv, Places
  <2>4. EndInv' /\ FileInv'
    BY <2>2, <1>2 DEF EndInv, RunCompletes, FileInv, Saving
  <2> QED
    BY <2>3, <2>4, <1>1 DEF StreamInv
<1>4. CASE ~ ending
  <2>1. /\ pc' = IF batch = <<>> THEN "load" ELSE "ingest"
        /\ UNCHANGED <<order, limit, depth, start, height, batch, index, walked, ending, checkpoint>>
    BY <1>4, <1>1 DEF AfterSave, options, StoreKept
  <2>2. LoopInv'
    <3>1. pc' \in Places /\ pc' \notin Early \cup {"down"} /\ pc # "down"
      BY <2>1 DEF Places, Early, Saving
    <3>2. Follows' /\ (Bounded' => start' <= limit' /\ height' <= limit' + 1)
      BY <2>1, <3>1 DEF Follows, Bounded, StreamInv, LoopInv
    <3>3. pc' = "load" => Len(batch') < ReadAhead /\ batch' = <<>>
      BY <2>1, StreamAssumption
    <3> QED
      BY <2>1, <3>1, <3>2, <3>3 DEF StreamInv, LoopInv, IndexSound
  <2>3. EndInv' /\ FileInv'
    BY <2>1, <1>2, <1>4 DEF StreamInv, EndInv, RunCompletes, FileInv, Saving
  <2> QED
    BY <2>2, <2>3, <1>1 DEF StreamInv
<1> QED
  BY <1>3, <1>4 DEF StreamInv, EndInv

\* The steps of a save.
LEMMA SaveInv ==
  ASSUME StreamInv, BeginSave \/ FinishWriting \/ Rename \/ SaveFails
  PROVE  StreamInv'
<1>1. CASE BeginSave \/ FinishWriting
  <2>1. /\ pc \in Saving /\ pc' \in Saving /\ pc' # "save"
        /\ UNCHANGED <<order, limit, depth, stored, heads, checkpoint, start, height, batch, index,
                       walked, label, ending, file>>
    BY <1>1 DEF BeginSave, FinishWriting, options, graphVars, warmVars, Saving
  <2>2. pc' = "rename" => temp'.whole /\ temp'.height = label'
    BY <1>1, <2>1 DEF BeginSave, FinishWriting
  <2>3. LoopInv'
    <3>1. pc' \in Places /\ pc' \notin Early \cup {"down", "load"} /\ pc # "down"
      BY <2>1 DEF Places, Early, Saving
    <3>2. Follows' /\ (Bounded' => start' <= limit' /\ height' <= limit' + 1)
      BY <2>1, <3>1 DEF Follows, Bounded, StreamInv, LoopInv
    <3> QED
      BY <2>1, <3>1, <3>2 DEF StreamInv, LoopInv, IndexSound
  <2>4. StoreInv' /\ EndInv' /\ FileInv'
    BY <2>1, <2>2, StoreSame DEF StreamInv, StoreKept, EndInv, RunCompletes, FileInv
  <2> QED
    BY <2>3, <2>4 DEF StreamInv
<1>2. CASE Rename
  BY <1>2, AfterSaveInv DEF Rename, Saving
<1>3. CASE SaveFails
  <2>1. pc \in Saving /\ AfterSave /\ UNCHANGED <<options, graphVars>> /\ file' = file
    BY <1>3 DEF SaveFails, Saving, disk
  <2> QED
    BY <2>1, AfterSaveInv
<1> QED
  BY <1>1, <1>2, <1>3

\* Every step keeps the invariant.
LEMMA NextInv == StreamInv /\ [Next]_vars => StreamInv'
<1> SUFFICES ASSUME StreamInv, [Next]_vars PROVE StreamInv'
  OBVIOUS
<1>1. CASE Ingest \/ Resume
  BY <1>1, LaunchInv
<1>2. CASE Restore \/ BeginPrewarm \/ PrewarmBlock \/ EndPrewarm \/ Preload
  BY <1>2, EarlyInv
<1>3. CASE Load \/ EndLoop
  BY <1>3, LoadInv, EndLoopInv
<1>4. CASE LoadFails \/ ReadFails \/ Crash \/ \E chunk \in NextChunks : ChunkRefused(chunk)
  <2>1. pc # "down" /\ Gone /\ UNCHANGED <<options, graphVars, file>>
    BY <1>4 DEF LoadFails, ReadFails, Crash, ChunkRefused, Stop, Loads, Walks, disk
  <2> QED
    BY <2>1, StopInv
<1>5. CASE \E chunk \in NextChunks : IngestChunk(chunk) \/ CommitFails(chunk)
  BY <1>5, IngestInv, CommitFailsInv
<1>6. CASE BeginSave \/ FinishWriting \/ Rename \/ SaveFails
  BY <1>6, SaveInv
<1>7. CASE UNCHANGED vars
  <2>1. UNCHANGED <<order, limit, depth, stored, heads, checkpoint, pc, start, height, batch, index,
                    walked, label, ending, file, temp>>
    BY <1>7 DEF vars, options, graphVars, warmVars, disk
  <2> QED
    BY <2>1, StoreSame
    DEF StreamInv, StoreKept, LoopInv, EndInv, FileInv, Follows, Bounded, IndexSound, RunCompletes
<1> QED
  BY <1>1, <1>2, <1>3, <1>4, <1>5, <1>6, <1>7 DEF Next, Process, Faults

\* The invariant holds at first.
LEMMA InitInv == Init => StreamInv
<1> SUFFICES ASSUME Init PROVE StreamInv
  OBVIOUS
<1>1. StoreInv
  BY DEF Init, StoreInv
<1>2. IndexSound(index) /\ batch = <<>> /\ batch \in Seq(Entries) /\ 1 .. Len(batch) = {}
  BY DEF Init, IndexSound
<1>3. LoopInv
  BY <1>2 DEF Init, LoopInv, Places
<1>4. EndInv /\ FileInv
  BY DEF Init, EndInv, RunCompletes, FileInv, NoFile, Saving
<1> QED
  BY <1>1, <1>3, <1>4 DEF StreamInv

\* The invariant holds in every reachable state.
THEOREM StreamInvariant == Spec => []StreamInv
BY InitInv, NextInv, PTL DEF Spec

-----------------------------------------------------------------------------
(* The results *)

\* A step stores a chunk above the checkpoint, or leaves the store as it is.
LEMMA StepStores ==
  ASSUME StreamInv, [Next]_vars
  PROVE  /\ \A h \in Heights : stored[h] # None => stored'[h] = stored[h]
         /\ checkpoint # None => checkpoint' >= checkpoint
<1> DEFINE Keeps == /\ \A h \in Heights : stored[h] # None => stored'[h] = stored[h]
                    /\ checkpoint # None => checkpoint' >= checkpoint
<1>1. checkpoint # None => checkpoint \in Int
  BY DEF StreamInv, StoreInv
<1>2. CASE stored' = stored /\ (checkpoint # None => checkpoint' = checkpoint)
  BY <1>1, <1>2
<1>3. CASE \E chunk \in NextChunks : IngestChunk(chunk) \/ CommitFails(chunk)
  <2>1. PICK chunk \in NextChunks : pc = "ingest" /\ Valid(chunk) /\ Stored(chunk)
    BY <1>3 DEF IngestChunk, CommitFails
  <2>2. /\ checkpoint' = checkpoint + Len(chunk) /\ Len(chunk) \in 1 .. Len(batch)
        /\ \A h \in Heights : stored[h] # None => stored'[h] = stored[h]
    BY <2>1, ChunkStored, ChunkShape DEF StreamInv
  <2> QED
    BY <2>2, <1>1
<1>4. CASE Ingest
  BY <1>2, <1>4 DEF Ingest, Launched
<1>5. CASE Resume
  <2>1. checkpoint # None => MaxStored = checkpoint
    BY CheckpointIsTop DEF StreamInv
  <2>2. checkpoint # None /\ checkpoint' \in {checkpoint, MaxStored}
    <3>1. ReadHeight(checkpoint) \in {-1, checkpoint}
      BY DEF ReadHeight
    <3> QED
      BY <1>5, <3>1 DEF Resume
  <2>3. stored' = stored
    BY <1>5 DEF Resume, Launched
  <2> QED
    BY <1>2, <2>1, <2>2, <2>3
<1>6. CASE UNCHANGED vars
  BY <1>2, <1>6 DEF vars, graphVars
<1>7. CASE \/ Restore \/ BeginPrewarm \/ PrewarmBlock \/ EndPrewarm \/ Preload
           \/ Load \/ EndLoop \/ LoadFails \/ ReadFails \/ Crash
           \/ BeginSave \/ FinishWriting \/ Rename \/ SaveFails
           \/ \E chunk \in NextChunks : ChunkRefused(chunk)
  <2>1. UNCHANGED graphVars
    BY <1>7 DEF Restore, BeginPrewarm, PrewarmBlock, EndPrewarm, Preload, Load, EndLoop, LoadFails,
                ReadFails, Crash, BeginSave, FinishWriting, Rename, SaveFails, ChunkRefused, Stop
  <2> QED
    BY <1>2, <2>1 DEF graphVars
<1> QED
  BY <1>3, <1>4, <1>5, <1>6, <1>7 DEF Next, Process, Faults

\* Whatever fails and whichever command is launched, nothing that was committed
\* is overwritten, and the checkpoint does not fall.
THEOREM StoreOnlyGrows == Spec => StoredStays
<1>1. StreamInv /\ [Next]_vars =>
        [/\ \A h \in Heights : stored[h] # None => stored'[h] = stored[h]
         /\ checkpoint # None => checkpoint' >= checkpoint]_vars
  BY StepStores
<1> QED
  BY StreamInvariant, <1>1, PTL DEF Spec, StoredStays

\* Whatever the scan yields, a chunk is put on the parent of its first block.
THEOREM HeadsLink == Spec => []ChunkHeadsLink
<1>1. StreamInv => ChunkHeadsLink
  BY DEF StreamInv, StoreInv, ChunkHeadsLink
<1> QED
  BY StreamInvariant, <1>1, PTL

\* A run that ends on its own has stored every block it was to store, but for a
\* last partial batch where no limit was given.
THEOREM RunIsComplete == Spec => []RunCompletes
<1>1. StreamInv => RunCompletes
  BY DEF StreamInv, EndInv
<1> QED
  BY StreamInvariant, <1>1, PTL

\* Wherever a save was cut off, the snapshot is one that was written to its end,
\* of a height that the store has reached.
THEOREM FileIsReadable == Spec => []FileReadable
<1>1. StreamInv => FileReadable
  BY CheckpointIsTop DEF StreamInv, FileInv, FileReadable
<1> QED
  BY StreamInvariant, <1>1, PTL

-----------------------------------------------------------------------------
(* Sorting *)

\* R puts any two elements of S in an order.
Orderly(S, R) ==
  /\ \A x \in S : <<x, x>> \notin R
  /\ \A x, y \in S : x # y => <<x, y>> \in R \/ <<y, x>> \in R
  /\ \A x, y, z \in S : <<x, y>> \in R /\ <<y, z>> \in R => <<x, z>> \in R

\* A sorted set has its elements once each, in their order.
LEMMA SortedFacts ==
  ASSUME NEW S, IsFiniteSet(S), NEW R, Orderly(S, R)
  PROVE  /\ Sorted(S, R) \in [1 .. Cardinality(S) -> S]
         /\ \A x \in S : \E i \in 1 .. Cardinality(S) : Sorted(S, R)[i] = x
         /\ \A i, j \in 1 .. Cardinality(S) : i < j => <<Sorted(S, R)[i], Sorted(S, R)[j]>> \in R
<1> DEFINE n == Cardinality(S)
           below(x) == {y \in S : <<y, x>> \in R}
           rank == [x \in S |-> Cardinality(below(x))]
           s == Sorted(S, R)
<1>1. n \in Nat
  BY FS_CardinalityType
<1>2. ASSUME NEW x \in S
      PROVE  /\ IsFiniteSet(below(x)) /\ IsFiniteSet(below(x) \cup {x}) /\ rank[x] \in 0 .. n - 1
             /\ Cardinality(below(x) \cup {x}) = rank[x] + 1
  <2>1. IsFiniteSet(below(x)) /\ x \notin below(x) /\ below(x) \cup {x} \subseteq S
    <3>1. x \notin below(x)
      BY DEF Orderly
    <3>2. below(x) \subseteq S
      OBVIOUS
    <3> HIDE DEF below
    <3> QED
      BY <3>1, <3>2, FS_Subset
  <2>2. rank[x] = Cardinality(below(x))
    OBVIOUS
  <2> HIDE DEF below, rank
  <2>3. IsFiniteSet(below(x) \cup {x}) /\ Cardinality(below(x) \cup {x}) = Cardinality(below(x)) + 1
    BY <2>1, FS_AddElement
  <2>4. Cardinality(below(x) \cup {x}) <= n /\ Cardinality(below(x)) \in Nat
    BY <2>1, FS_Subset, FS_CardinalityType
  <2> QED
    BY <2>1, <2>2, <2>3, <2>4, <1>1
<1>a. \A x \in S : rank[x] \in 0 .. n - 1
  BY <1>2
<1>3. ASSUME NEW x \in S, NEW y \in S, <<x, y>> \in R PROVE rank[x] < rank[y]
  <2>1. below(x) \cup {x} \subseteq below(y)
    BY <1>3 DEF Orderly
  <2>2. Cardinality(below(x) \cup {x}) <= Cardinality(below(y))
    <3>1. IsFiniteSet(below(y))
      BY <1>2
    <3> HIDE DEF below
    <3> QED
      BY <2>1, <3>1, FS_Subset
  <2>3. rank[y] = Cardinality(below(y))
    OBVIOUS
  <2>4. Cardinality(below(x) \cup {x}) = rank[x] + 1 /\ rank[x] \in Int
    BY <1>1, <1>2
  <2>5. rank[y] \in Int
    <3> HIDE DEF rank, n
    <3> QED
      BY <1>1, <1>a
  <2> HIDE DEF rank, below
  <2> QED
    BY <2>2, <2>3, <2>4, <2>5
<1>b. \A x, y \in S : <<x, y>> \in R => rank[x] < rank[y]
  BY <1>3
<1> HIDE DEF rank, n
<1>4. \A x, y \in S : rank[x] = rank[y] => x = y
  <2> SUFFICES ASSUME NEW x \in S, NEW y \in S, rank[x] = rank[y], x # y PROVE FALSE
    OBVIOUS
  <2>1. rank[x] \in Int
    BY <1>a, <1>1
  <2>2. <<x, y>> \in R \/ <<y, x>> \in R
    BY DEF Orderly
  <2>3. rank[x] < rank[y] \/ rank[y] < rank[x]
    BY <2>2, <1>b
  <2> QED
    BY <2>1, <2>3
<1>5. {rank[x] : x \in S} = 0 .. n - 1
  <2> DEFINE T == {rank[x] : x \in S}
  <2>1. T \subseteq 0 .. n - 1
    BY <1>a
  <2>2. Cardinality(T) = n
    <3>1. rank = [x \in S |-> rank[x]]
      BY DEF rank
    <3> QED
      BY <1>4, <3>1, ImageSize DEF n
  <2>3. IsFiniteSet(0 .. n - 1) /\ Cardinality(0 .. n - 1) = n
    BY <1>1, FS_Interval
  <2> HIDE DEF T, n
  <2>4. T = 0 .. n - 1
    BY <2>1, <2>2, <2>3, FS_Subset
  <2> QED
    BY <2>4 DEF T
<1>6. ASSUME NEW i \in 1 .. n PROVE s[i] \in S /\ rank[s[i]] = i - 1
  <2>1. s[i] = CHOOSE x \in S : Cardinality(below(x)) = i - 1
    BY <1>6 DEF Sorted, n
  <2>2. i - 1 \in 0 .. n - 1
    BY <1>1
  <2>3. \E x \in S : rank[x] = i - 1
    BY <2>2, <1>5
  <2>4. \A x \in S : rank[x] = Cardinality(below(x))
    BY DEF rank
  <2> HIDE DEF below, s, n
  <2>5. \E x \in S : Cardinality(below(x)) = i - 1
    BY <2>3, <2>4
  <2>6. s[i] \in S /\ Cardinality(below(s[i])) = i - 1
    BY <2>1, <2>5
  <2> QED
    BY <2>4, <2>6
<1>7. s = [i \in 1 .. n |-> CHOOSE x \in S : Cardinality(below(x)) = i - 1]
  BY DEF Sorted, n
<1> HIDE DEF s, n
<1>8. ASSUME NEW x \in S PROVE \E i \in 1 .. n : s[i] = x
  <2>0. rank[x] \in 0 .. n - 1
    BY <1>a
  <2>1. rank[x] + 1 \in 1 .. n /\ rank[x] + 1 - 1 = rank[x]
    BY <1>1, <2>0
  <2>2. PICK k \in 1 .. n : k = rank[x] + 1
    BY <2>1
  <2>3. s[k] \in S /\ rank[s[k]] = k - 1
    BY <1>6
  <2> QED
    <3>1. rank[x] \in Int /\ rank[s[k]] = rank[x]
      BY <1>1, <2>0, <2>2, <2>3
    <3> QED
      BY <3>1, <2>3, <1>4
<1>9. ASSUME NEW i \in 1 .. n, NEW j \in 1 .. n, i < j PROVE <<s[i], s[j]>> \in R
  <2>1. s[i] \in S /\ s[j] \in S /\ rank[s[i]] = i - 1 /\ rank[s[j]] = j - 1
    BY <1>6
  <2>2. s[i] # s[j]
    <3>1. i - 1 # j - 1
      BY <1>9, <1>1
    <3> QED
      BY <2>1, <3>1
  <2>3. <<s[j], s[i]>> \in R => FALSE
    <3>1. <<s[j], s[i]>> \in R => rank[s[j]] < rank[s[i]]
      BY <2>1, <1>b
    <3> QED
      BY <3>1, <2>1, <1>9
  <2> QED
    BY <2>1, <2>2, <2>3 DEF Orderly
<1>10. s \in [1 .. n -> S]
  BY <1>6, <1>7
<1> QED
  BY <1>8, <1>9, <1>10 DEF s, n

-----------------------------------------------------------------------------
(* The main chain *)

\* Sorting by height, and by position in the scan where heights are equal, is an
\* order of the records' positions.
LEMMA HeightOrders ==
  ASSUME NEW scan \in Seq(Entries), NEW J \in SUBSET (1 .. Len(scan))
  PROVE  /\ IsFiniteSet(J) /\ Orderly(J, ByHeight(scan, J))
         /\ \A x, y \in J : <<x, y>> \in ByHeight(scan, J) =>
              scan[x].height <= scan[y].height /\ x # y
<1>1. Len(scan) \in Nat /\ \A j \in J : j \in 1 .. Len(scan) /\ j \in Int
  OBVIOUS
<1>2. IsFiniteSet(J)
  <2>1. IsFiniteSet(1 .. Len(scan))
    BY <1>1, FS_Interval
  <2> QED
    BY <2>1, FS_Subset
<1>3. \A j \in J : scan[j].height \in Int
  <2> TAKE j \in J
  <2>1. scan[j] \in Entries
    BY <1>1
  <2> QED
    BY <2>1, EntryFacts DEF Heights
<1>4. \A x, y \in J : <<x, y>> \in ByHeight(scan, J) <=>
        \/ scan[x].height < scan[y].height
        \/ scan[x].height = scan[y].height /\ x < y
  BY DEF ByHeight
<1>5. Orderly(J, ByHeight(scan, J))
  <2>1. \A x \in J : <<x, x>> \notin ByHeight(scan, J)
    BY <1>1, <1>3, <1>4
  <2>2. \A x, y \in J : x # y => <<x, y>> \in ByHeight(scan, J) \/ <<y, x>> \in ByHeight(scan, J)
    BY <1>1, <1>3, <1>4
  <2>3. \A x, y, z \in J :
          <<x, y>> \in ByHeight(scan, J) /\ <<y, z>> \in ByHeight(scan, J) => <<x, z>> \in ByHeight(scan, J)
    BY <1>1, <1>3, <1>4
  <2> QED
    BY <2>1, <2>2, <2>3 DEF Orderly
<1>6. \A x, y \in J : <<x, y>> \in ByHeight(scan, J) => scan[x].height <= scan[y].height /\ x # y
  BY <1>1, <1>3, <1>4
<1> QED
  BY <1>2, <1>5, <1>6

\* A record of the main chain is the one of its height.
LEMMA MainRecord == ASSUME NEW e \in Entries, e.main PROVE e = Main(e.height)
<1>1. \A x \in Extra : ~ x.main
  BY IndexAssumption
<1>2. PICK h \in Heights : e = Main(h)
  BY <1>1 DEF Entries
<1> QED
  BY <1>2 DEF Main

\* The main chain is found if there is nothing else; otherwise two records have
\* the same height.
LEMMA MainChain ==
  ASSUME NEW scan \in Orders, NEW top \in Heights
  PROVE  GetMainChain(scan, top) =
           IF Unambiguous(scan, 0 .. top) THEN [i \in 1 .. top + 1 |-> Main(i - 1)] ELSE None
<1> DEFINE J == Hits(scan, 0, top, Len(scan))
           n == Cardinality(J)
           s == Sorted(J, ByHeight(scan, J))
           g == [i \in 1 .. n |-> scan[s[i]].height]
           chain == [i \in 1 .. n |-> scan[s[i]]]
<1>1. /\ scan \in Seq(Entries) /\ Len(scan) \in Nat
      /\ \A h \in Heights : Main(h) \in ToSet(scan)
      /\ Tip \in Nat /\ top \in Nat /\ top <= Tip
  BY StreamAssumption, IndexAssumption DEF Heights
<1>2. /\ J \in SUBSET (1 .. Len(scan))
      /\ \A j \in J : Accepts(scan[j]) /\ scan[j].height \in 0 .. top /\ scan[j] \in Entries
  BY <1>1 DEF Hits
<1>3. \A j \in 1 .. Len(scan) : Accepts(scan[j]) /\ scan[j].height \in 0 .. top => j \in J
  BY DEF Hits
<1>4. \A h \in 0 .. top : \E j \in J : scan[j] = Main(h)
  <2> TAKE h \in 0 .. top
  <2>1. h \in Heights
    BY <1>1 DEF Heights
  <2>2. PICK j \in 1 .. Len(scan) : scan[j] = Main(h)
    BY <2>1, <1>1 DEF ToSet
  <2>3. j \in J
    BY <2>2, <1>3 DEF Accepts, Main
  <2> QED
    BY <2>2, <2>3
<1>5. GetMainChain(scan, top) =
        IF \/ J = {}
           \/ \E i \in 1 .. n - 1 : chain[i + 1].height # chain[i].height + 1
        THEN None ELSE chain
  BY DEF GetMainChain
<1> HIDE DEF J
<1>6. /\ IsFiniteSet(J) /\ Orderly(J, ByHeight(scan, J))
      /\ \A x, y \in J : <<x, y>> \in ByHeight(scan, J) => scan[x].height <= scan[y].height /\ x # y
  BY <1>1, <1>2, HeightOrders
<1>7. n \in Nat
  BY <1>6, FS_CardinalityType
<1>8. /\ s \in [1 .. n -> J] /\ \A x \in J : \E i \in 1 .. n : s[i] = x
      /\ \A i, j \in 1 .. n : i < j => <<s[i], s[j]>> \in ByHeight(scan, J)
  BY <1>6, SortedFacts
<1> HIDE DEF n, s
<1>9. \A i \in 1 .. n : s[i] \in J /\ chain[i] = scan[s[i]] /\ g[i] = scan[s[i]].height /\ g[i] \in 0 .. top
  BY <1>2, <1>8
<1>10. \A i \in 1 .. n - 1 : i \in 1 .. n /\ i + 1 \in 1 .. n
  BY <1>7
<1>11. (\E i \in 1 .. n - 1 : chain[i + 1].height # chain[i].height + 1)
         <=> \E i \in 1 .. n - 1 : g[i + 1] # g[i] + 1
  BY <1>9, <1>10
<1>12. J # {}
  <2>1. 0 \in 0 .. top
    BY <1>1
  <2> QED
    BY <2>1, <1>4
<1>13. CASE Unambiguous(scan, 0 .. top)
  <2>1. \A j \in J : scan[j].main /\ scan[j] = Main(scan[j].height)
    <3> TAKE j \in J
    <3>1. scan[j].main
      BY <1>2, <1>13 DEF Unambiguous
    <3> QED
      BY <3>1, <1>2, MainRecord
  <2>2. \A x, y \in J : scan[x].height = scan[y].height => x = y
    <3> SUFFICES ASSUME NEW x \in J, NEW y \in J, scan[x].height = scan[y].height PROVE x = y
      OBVIOUS
    <3>1. scan[x] = scan[y]
      BY <2>1
    <3>2. IsInjective(scan) /\ x \in DOMAIN scan /\ y \in DOMAIN scan
      BY <1>1, <1>2, StreamAssumption
    <3> QED
      BY <3>1, <3>2 DEF IsInjective
  <2>3. n = top + 1
    <3> DEFINE f == [j \in J |-> scan[j].height]
               P == {f[j] : j \in J}
    <3>1. P = 0 .. top
      <4>1. \A h \in 0 .. top : h \in P
        <5> TAKE h \in 0 .. top
        <5>1. PICK j \in J : scan[j] = Main(h)
          BY <1>4
        <5>2. f[j] = h
          BY <5>1 DEF Main
        <5> QED
          BY <5>2
      <4>2. P \subseteq 0 .. top
        BY <1>2
      <4> QED
        BY <4>1, <4>2
    <3>2. Cardinality(0 .. top) = top + 1
      BY <1>1, FS_Interval
    <3>3. Cardinality(P) = Cardinality(J)
      <4>1. \A x, y \in J : f[x] = f[y] => x = y
        BY <2>2
      <4> HIDE DEF f
      <4> QED
        BY <4>1, <1>6, ImageSize
    <3> HIDE DEF P
    <3> QED
      BY <3>1, <3>2, <3>3 DEF n
  <2>4. \A i, j \in 1 .. n : i < j => g[i] < g[j]
    <3> SUFFICES ASSUME NEW i \in 1 .. n, NEW j \in 1 .. n, i < j PROVE g[i] < g[j]
      OBVIOUS
    <3>1. scan[s[i]].height <= scan[s[j]].height /\ s[i] # s[j]
      BY <1>6, <1>8, <1>9
    <3>2. g[i] <= g[j] /\ g[i] # g[j]
      BY <3>1, <2>2, <1>9
    <3>3. g[i] \in Int /\ g[j] \in Int
      BY <1>9
    <3> HIDE DEF g
    <3> QED
      BY <3>2, <3>3
  <2>5. \A i \in 1 .. n : g[i] = i - 1
    <3>1. \A i \in 1 .. n : g[i] \in 0 .. n - 1
      BY <2>3, <1>1, <1>9
    <3> HIDE DEF g
    <3> QED
      BY <3>1, <2>4, <1>7, Increasing
  <2>6. \A i \in 1 .. n - 1 : g[i + 1] = g[i] + 1
    <3> TAKE i \in 1 .. n - 1
    <3>1. g[i + 1] = (i + 1) - 1 /\ g[i] = i - 1
      <4> HIDE DEF g
      <4> QED
        BY <2>5, <1>10
    <3> HIDE DEF g
    <3> QED
      BY <3>1
  <2>7. GetMainChain(scan, top) = chain
    <3> HIDE DEF g, chain
    <3> QED
      BY <2>6, <1>5, <1>11, <1>12
  <2>8. \A i \in 1 .. n : chain[i] = Main(i - 1)
    <3> TAKE i \in 1 .. n
    <3>1. s[i] \in J /\ chain[i] = scan[s[i]] /\ scan[s[i]].height = i - 1
      BY <1>9, <2>5
    <3> QED
      BY <3>1, <2>1
  <2>9. chain = [i \in 1 .. top + 1 |-> Main(i - 1)]
    BY <2>3, <2>8
  <2> QED
    BY <2>7, <2>9, <1>13
<1>14. CASE ~ Unambiguous(scan, 0 .. top)
  <2>1. PICK i \in 1 .. Len(scan) : Accepts(scan[i]) /\ ~ scan[i].main /\ scan[i].height \in 0 .. top
    BY <1>14 DEF Unambiguous
  <2>2. PICK j \in J : scan[j] = Main(scan[i].height)
    BY <2>1, <1>4
  <2>3. i \in J /\ scan[i].height = scan[j].height /\ i # j
    BY <2>1, <2>2, <1>3 DEF Main
  <2>4. PICK a \in 1 .. n : s[a] = i
    BY <2>3, <1>8
  <2>5. PICK b \in 1 .. n : s[b] = j
    BY <1>8
  <2>6. g[a] = g[b] /\ a # b
    BY <2>3, <2>4, <2>5
  <2>7. ASSUME \A k \in 1 .. n - 1 : g[k + 1] = g[k] + 1 PROVE FALSE
    <3>1. \A k \in 1 .. n : g[k] \in Int
      BY <1>9
    <3> HIDE DEF g
    <3>2. \A k, l \in 1 .. n : g[k] = g[l] => k = l
      BY <2>7, <3>1, <1>7, Consecutive
    <3> QED
      BY <3>2, <2>6
  <2>8. GetMainChain(scan, top) = None
    <3> HIDE DEF g, chain
    <3> QED
      BY <2>7, <1>5, <1>11
  <2> QED
    BY <2>8, <1>14
<1> QED
  BY <1>13, <1>14

\* For whatever order the hashes give the records, the main chain is found up to
\* any height, unless another record could be taken for one of its blocks.
THEOREM MainChainIsFound == Spec => []MainChainFound
<1>1. StreamInv => MainChainFound
  BY MainChain DEF StreamInv, LoopInv, MainChainFound
<1> QED
  BY StreamInvariant, <1>1, PTL

-----------------------------------------------------------------------------
(* Which records are stored *)

\* The index has no accepted record of another branch.
Clean == Unambiguous(order, Heights)

\* Every record is of the height it stands for, and of the main chain where the
\* index has no others.
RecordInv ==
  /\ \A h \in Heights : stored[h] # None => stored[h].height = h
  /\ Clean => /\ \A h \in DOMAIN index : index[h].main
              /\ \A i \in 1 .. Len(batch) : batch[i].main
              /\ \A h \in Heights : stored[h] # None => stored[h].main

\* A scan yields records that are accepted.
LEMMA BatchMain ==
  ASSUME NEW scan \in Seq(Entries), NEW from \in Int, NEW to \in Int, Unambiguous(scan, Heights)
  PROVE  \A h \in DOMAIN LoadBatch(scan, from, to) : LoadBatch(scan, from, to)[h].main
<1>1. PICK end \in 0 .. Len(scan) :
        LET J == Hits(scan, from, to, end) IN
        /\ LoadBatch(scan, from, to) =
             [h \in HeightsAt(scan, J) |->
                scan[CHOOSE j \in J : /\ scan[j].height = h
                                      /\ \A k \in J : scan[k].height = h => k <= j]]
        /\ end = Len(scan) \/ Cardinality(HeightsAt(scan, J)) >= to - from + 1
  BY ScanShape
<1> DEFINE J == Hits(scan, from, to, end)
<1>2. /\ J \in SUBSET (1 .. Len(scan)) /\ Len(scan) \in Nat
      /\ \A j \in J : Accepts(scan[j])
  BY DEF Hits
<1>3. \A j \in J : scan[j].main
  <2> TAKE j \in J
  <2>1. j \in 1 .. Len(scan) /\ Accepts(scan[j])
    BY <1>2
  <2>2. scan[j] \in Entries
    BY <2>1
  <2>3. scan[j].height \in Heights
    BY <2>2, EntryFacts
  <2> QED
    BY <2>1, <2>3 DEF Unambiguous
<1>4. ASSUME NEW h \in HeightsAt(scan, J)
      PROVE  (CHOOSE j \in J : /\ scan[j].height = h
                               /\ \A k \in J : scan[k].height = h => k <= j) \in J
  <2> DEFINE L == {j \in J : scan[j].height = h}
  <2>1. L \in SUBSET (1 .. Len(scan)) /\ L # {}
    BY <1>2, <1>4 DEF HeightsAt
  <2>2. PICK j \in L : \A k \in L : k <= j
    <3> HIDE DEF L
    <3> QED
      BY <2>1, <1>2, LastPosition
  <2>3. \E i \in J : scan[i].height = h /\ \A k \in J : scan[k].height = h => k <= i
    BY <2>2
  <2> QED
    BY <2>3
<1> QED
  BY <1>1, <1>3, <1>4

\* What the loader's index grows by is of the main chain, too.
LEMMA LoadedMain ==
  ASSUME StreamInv, RecordInv, Clean
  PROVE  /\ \A from, to \in Int : \A h \in DOMAIN With(LoadBatch(order, from, to)) :
              With(LoadBatch(order, from, to))[h].main
         /\ \A k \in Int : \A h \in DOMAIN WithHeight(k) : WithHeight(k)[h].main
<1>1. order \in Seq(Entries) /\ \A h \in DOMAIN index : index[h].main
  BY StreamAssumption DEF StreamInv, LoopInv, RecordInv
<1>2. ASSUME NEW from \in Int, NEW to \in Int
      PROVE  \A h \in DOMAIN With(LoadBatch(order, from, to)) : With(LoadBatch(order, from, to))[h].main
  <2> DEFINE found == LoadBatch(order, from, to)
  <2>1. \A h \in DOMAIN found : found[h].main
    BY <1>1, BatchMain DEF Clean
  <2> HIDE DEF found
  <2>2. \A h \in DOMAIN With(found) : With(found)[h].main
    BY <2>1, <1>1 DEF With
  <2> QED
    BY <2>2 DEF found
<1>3. \A k \in Int : k + IndexBatch - 1 \in Int
  BY StreamAssumption
<1>4. ASSUME NEW k \in Int PROVE \A h \in DOMAIN WithHeight(k) : WithHeight(k)[h].main
  <2>1. CASE k \in DOMAIN index
    BY <2>1, <1>1 DEF WithHeight
  <2>2. CASE k \notin DOMAIN index
    <3>1. WithHeight(k) = With(LoadBatch(order, k, k + IndexBatch - 1))
      BY <2>2 DEF WithHeight
    <3> QED
      BY <3>1, <1>2, <1>3
  <2> QED
    BY <2>1, <2>2
<1> QED
  BY <1>2, <1>4

\* The options stay, and so does what was ever pre-warmed and written.
LEMMA Histories ==
  ASSUME StreamInv, [Next]_vars
  PROVE  order' = order /\ limit' = limit /\ prewarmed \subseteq prewarmed' /\ performed \subseteq performed'
<1>1. CASE PrewarmBlock
  BY <1>1 DEF PrewarmBlock, options, graphVars
<1>2. CASE \E chunk \in NextChunks : IngestChunk(chunk) \/ CommitFails(chunk)
  <2>1. PICK chunk \in NextChunks : Stored(chunk) /\ UNCHANGED <<options, prewarmed>>
    BY <1>2 DEF IngestChunk, CommitFails, warmVars
  <2> QED
    BY <2>1 DEF Stored, options
<1>3. CASE UNCHANGED vars
  BY <1>3 DEF vars, options, warmVars, graphVars
<1>4. CASE \/ Ingest \/ Resume \/ Restore \/ BeginPrewarm \/ EndPrewarm \/ Preload
           \/ Load \/ EndLoop \/ LoadFails \/ ReadFails \/ Crash
           \/ BeginSave \/ FinishWriting \/ Rename \/ SaveFails
           \/ \E chunk \in NextChunks : ChunkRefused(chunk)
  <2>1. UNCHANGED <<options, prewarmed, performed>>
    BY <1>4 DEF Ingest, Resume, Launched, Restore, BeginPrewarm, EndPrewarm, Preload, Load, EndLoop,
                LoadFails, ReadFails, Crash, BeginSave, FinishWriting, Rename, SaveFails, ChunkRefused,
                Stop, graphVars, warmVars
  <2> QED
    BY <2>1 DEF options
<1> QED
  BY <1>1, <1>2, <1>3, <1>4 DEF Next, Process, Faults

\* Every step keeps the records in their places.
LEMMA RecordNextInv == StreamInv /\ RecordInv /\ [Next]_vars => RecordInv'
<1> SUFFICES ASSUME StreamInv, RecordInv, [Next]_vars PROVE RecordInv'
  OBVIOUS
<1>1. order' = order /\ (Clean' <=> Clean)
  BY Histories DEF Clean
<1>2. /\ batch \in Seq(Entries) /\ Len(batch) \in Nat
      /\ start \in Int /\ depth \in Int /\ height \in Int /\ walked \in Int
      /\ (Bounded => limit \in Int)
  <2>1. (limit = None \/ limit \in Nat) /\ depth \in Nat
    BY StreamAssumption DEF StreamInv, LoopInv
  <2> QED
    BY <2>1 DEF StreamInv, LoopInv, Bounded
<1>3. \A h \in Heights : stored'[h] # None => stored'[h].height = h /\ (Clean => stored'[h].main)
  <2>1. CASE stored' = stored
    BY <2>1 DEF RecordInv
  <2>2. CASE \E chunk \in NextChunks : IngestChunk(chunk) \/ CommitFails(chunk)
    <3>1. PICK chunk \in NextChunks : pc = "ingest" /\ Valid(chunk) /\ Stored(chunk)
      BY <2>2 DEF IngestChunk, CommitFails
    <3> DEFINE n == Len(chunk)
    <3>2. /\ n \in 1 .. Len(batch) /\ chunk = SubSeq(batch, 1, n) /\ checkpoint \in -1 .. Tip
          /\ FirstOf(chunk) = checkpoint + 1 /\ LastOf(chunk) = checkpoint + n
          /\ \A i \in 1 .. n : chunk[i].height = checkpoint + i
      BY <3>1, ChunkShape DEF StreamInv
    <3>3. \A i \in 1 .. n : chunk[i] = batch[i] /\ i \in 1 .. Len(batch)
      BY <3>2, <1>2
    <3>4. \A i \in 1 .. n : Clean => chunk[i].main
      BY <3>3 DEF RecordInv
    <3>5. checkpoint \in Int /\ n \in Nat
      BY <3>2, <1>2
    <3>6. stored' = [h \in Heights |-> IF h \in FirstOf(chunk) .. LastOf(chunk)
                                       THEN chunk[h - FirstOf(chunk) + 1] ELSE stored[h]]
      BY <3>1 DEF Stored
    <3> HIDE DEF n
    <3> TAKE h \in Heights
    <3>7. CASE h \in checkpoint + 1 .. checkpoint + n
      <4>1. h - (checkpoint + 1) + 1 \in 1 .. n /\ checkpoint + (h - (checkpoint + 1) + 1) = h
        BY <3>5, <3>7
      <4>2. stored'[h] = chunk[h - (checkpoint + 1) + 1]
        BY <3>2, <3>6, <3>7
      <4>3. stored'[h].height = checkpoint + (h - (checkpoint + 1) + 1)
        BY <4>1, <4>2, <3>2
      <4> QED
        BY <4>1, <4>2, <4>3, <3>4
    <3>8. CASE ~ (h \in checkpoint + 1 .. checkpoint + n)
      <4>1. stored'[h] = stored[h]
        BY <3>2, <3>6, <3>8
      <4> QED
        BY <4>1 DEF RecordInv
    <3> QED
      BY <3>7, <3>8
  <2>3. CASE \/ Ingest \/ Resume \/ Restore \/ BeginPrewarm \/ PrewarmBlock \/ EndPrewarm \/ Preload
             \/ Load \/ EndLoop \/ LoadFails \/ ReadFails \/ Crash \/ UNCHANGED vars
             \/ BeginSave \/ FinishWriting \/ Rename \/ SaveFails
             \/ \E chunk \in NextChunks : ChunkRefused(chunk)
    <3>1. stored' = stored
      BY <2>3 DEF Ingest, Resume, Launched, Restore, BeginPrewarm, PrewarmBlock, EndPrewarm, Preload,
                  Load, EndLoop, LoadFails, ReadFails, Crash, BeginSave, FinishWriting, Rename,
                  SaveFails, ChunkRefused, Stop, graphVars, vars
    <3> QED
      BY <3>1, <2>1
  <2> QED
    BY <2>2, <2>3 DEF Next, Process, Faults
<1>4. ASSUME Clean PROVE \A h \in DOMAIN index' : index'[h].main
  <2>0. /\ \A from, to \in Int : \A h \in DOMAIN With(LoadBatch(order, from, to)) :
             With(LoadBatch(order, from, to))[h].main
        /\ \A k \in Int : \A h \in DOMAIN WithHeight(k) : WithHeight(k)[h].main
    BY <1>4, LoadedMain
  <2>1. CASE index' = index
    BY <2>1, <1>4 DEF RecordInv
  <2>2. CASE index' = <<>>
    BY <2>2
  <2>3. CASE BeginPrewarm
    <3>1. (IF start > depth THEN start - depth ELSE 0) \in Int /\ start - 1 \in Int
      BY <1>2
    <3>2. index' = With(LoadBatch(order, IF start > depth THEN start - depth ELSE 0, start - 1))
      BY <2>3 DEF BeginPrewarm
    <3> QED
      BY <3>1, <3>2, <2>0
  <2>4. CASE PrewarmBlock
    <3>1. WalkAt \in Int /\ index' = WithHeight(WalkAt)
      BY <2>4, <1>2 DEF PrewarmBlock, WalkAt
    <3> QED
      BY <3>1, <2>0
  <2>5. CASE Preload
    <3>1. CASE Bounded
      BY <2>5, <3>1, <2>0, <1>2 DEF Preload
    <3> QED
      BY <2>5, <3>1, <2>1 DEF Preload
  <2>6. CASE Load
    BY <2>6, <2>0, <1>2 DEF Load
  <2>7. CASE \/ LoadFails \/ ReadFails \/ Crash \/ Rename \/ SaveFails
             \/ \E chunk \in NextChunks : ChunkRefused(chunk) \/ CommitFails(chunk)
    <3>1. index' = <<>> \/ index' = index
      BY <2>7 DEF LoadFails, ReadFails, Crash, Rename, SaveFails, ChunkRefused, CommitFails, Stop, Gone,
                  AfterSave
    <3> QED
      BY <3>1, <2>1, <2>2
  <2>8. CASE \/ Ingest \/ Resume \/ Restore \/ EndPrewarm \/ EndLoop \/ BeginSave \/ FinishWriting
             \/ UNCHANGED vars \/ \E chunk \in NextChunks : IngestChunk(chunk)
    <3>1. index' = index
      BY <2>8 DEF Ingest, Resume, Launched, Restore, EndPrewarm, EndLoop, BeginSave, FinishWriting,
                  IngestChunk, vars
    <3> QED
      BY <3>1, <2>1
  <2> QED
    BY <2>3, <2>4, <2>5, <2>6, <2>7, <2>8 DEF Next, Process, Faults
<1>5. ASSUME Clean PROVE \A i \in 1 .. Len(batch') : batch'[i].main
  <2>1. CASE batch' = batch
    BY <2>1, <1>5 DEF RecordInv
  <2>2. CASE batch' = <<>>
    BY <2>2
  <2>3. CASE Load
    <3>1. batch' = Append(batch, index'[height]) /\ height \in DOMAIN index'
      BY <2>3 DEF Load
    <3>2. index'[height].main
      BY <3>1, <1>4, <1>5
    <3>3. \A i \in 1 .. Len(batch) : batch[i].main
      BY <1>5 DEF RecordInv
    <3>4. \A i \in 1 .. Len(batch') :
            (i \in 1 .. Len(batch) /\ batch'[i] = batch[i]) \/ batch'[i] = index'[height]
      BY <3>1, <1>2
    <3> QED
      BY <3>2, <3>3, <3>4
  <2>4. CASE \E chunk \in NextChunks : IngestChunk(chunk)
    <3>1. PICK chunk \in NextChunks : IngestChunk(chunk)
      BY <2>4
    <3>2. Len(chunk) \in 1 .. Len(batch)
      BY <3>1, ChunkShape DEF StreamInv, IngestChunk
    <3>3. batch' = SubSeq(batch, Len(chunk) + 1, Len(batch))
      BY <3>1 DEF IngestChunk
    <3>4. \A i \in 1 .. Len(batch') : Len(chunk) + i \in 1 .. Len(batch) /\ batch'[i] = batch[Len(chunk) + i]
      BY <3>2, <3>3, <1>2
    <3> QED
      BY <3>4, <1>5 DEF RecordInv
  <2>5. CASE \/ LoadFails \/ ReadFails \/ Crash \/ Rename \/ SaveFails
             \/ \E chunk \in NextChunks : ChunkRefused(chunk) \/ CommitFails(chunk)
    <3>1. batch' = <<>> \/ batch' = batch
      BY <2>5 DEF LoadFails, ReadFails, Crash, Rename, SaveFails, ChunkRefused, CommitFails, Stop, Gone,
                  AfterSave
    <3> QED
      BY <3>1, <2>1, <2>2
  <2>6. CASE \/ Ingest \/ Resume \/ Restore \/ BeginPrewarm \/ PrewarmBlock \/ EndPrewarm \/ Preload
             \/ EndLoop \/ BeginSave \/ FinishWriting \/ UNCHANGED vars
    <3>1. batch' = batch
      BY <2>6 DEF Ingest, Resume, Launched, Restore, BeginPrewarm, PrewarmBlock, EndPrewarm, Preload,
                  EndLoop, BeginSave, FinishWriting, vars
    <3> QED
      BY <3>1, <2>1
  <2> QED
    BY <2>3, <2>4, <2>5, <2>6 DEF Next, Process, Faults
<1> QED
  BY <1>1, <1>3, <1>4, <1>5 DEF RecordInv

\* No record is stored or loaded at first.
LEMMA RecordInitInv == Init => RecordInv
BY DEF Init, RecordInv

\* Every stored, loaded or buffered record is at its height in every reachable
\* state, and of the main chain where the index has no other.
THEOREM RecordInvariant == Spec => [](StreamInv /\ RecordInv)
<1>1. Init => StreamInv /\ RecordInv
  BY InitInv, RecordInitInv
<1>2. StreamInv /\ RecordInv /\ [Next]_vars => (StreamInv /\ RecordInv)'
  BY NextInv, RecordNextInv
<1> QED
  BY <1>1, <1>2, PTL DEF Spec
===============================================================================
