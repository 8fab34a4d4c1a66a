------------------------- MODULE StreamingCacheProofs -------------------------
(***************************************************************************)
(* The cache of ingest and resume, and the snapshot it is saved to, for    *)
(* every chain, scan order, shard, capacity and sequence of failures:      *)
(*                                                                         *)
(*   StreamTypesOK         every variable keeps to its set, and no shard   *)
(*                         to more than its capacity;                      *)
(*   PrewarmEvictsNothing  pre-warming pushes nothing out of the cache;    *)
(*   RestoreIsFaithful     a restart restores the lists as they were;      *)
(*   SnapshotIsUsable      a snapshot can be read and has nothing but      *)
(*                         outputs of the graph;                           *)
(*   PerformsAreWritten    a spent output gets its PERFORMS edge, unless   *)
(*                         it is to a public key and was pre-warmed;       *)
(*   PerformsAreComplete   every one does if nothing is pre-warmed, or     *)
(*                         nothing pays to a public key.                   *)
(*                                                                         *)
(* The last two assume of the blocks that an output is created before it   *)
(* is spent (SpentAfterCreated), and of the cache that what a batch of     *)
(* blocks creates fits into the shards (BatchHasRoom).                     *)
(*                                                                         *)
(* CacheInv: each shard is a list, without a gap and without two entries   *)
(* at one place (Lists): in memory, in the file, and in the file being     *)
(* written.  Put, Touch and Pop keep it so, hence the folds over them do.  *)
(* That is why what is read back of a cache's entries is the cache:        *)
(* putting the entries of a list from the last to the first gives each     *)
(* the place it had (Within).                                              *)
(*                                                                         *)
(* SnapshotInv: what is cached or saved was created by a stored block or,  *)
(* if the index is ambiguous, by one that pre-warming has read.            *)
(*                                                                         *)
(* AddressInv: what is cached without its address is the outputs to a      *)
(* public key that were pre-warmed.                                        *)
(***************************************************************************)
EXTENDS StreamingProofs

-----------------------------------------------------------------------------
(* Folds over the cache *)

\* The caches that putting the elements of a sequence runs through.
PutRun(h, R, r, q, v) ==
  /\ h \in [0 .. Len(q) -> R]
  /\ h[0] = r /\ h[Len(q)] = v
  /\ \A n \in 1 .. Len(q) : h[n] = Put(h[n - 1], q[n])

\* They stay in any set that Put does not leave.
LEMMA PutAll ==
  ASSUME NEW R, NEW r \in R, NEW D, NEW q \in Seq(D),
         \A s \in R : \A o \in D : Put(s, o) \in R
  PROVE  \E h : PutRun(h, R, r, q, FoldLeft(Put, r, q))
<1> DEFINE F == [p \in R \X D |-> Put(p[1], p[2])]
           body(f, s) == IF s = {} THEN r ELSE Put(f[s \ {Max(s)}], q[Max(s)])
           g == CHOOSE f : f = [s \in SUBSET (1 .. Len(q)) |-> body(f, s)]
<1>1. F \in [R \X D -> R]
  OBVIOUS
<1>0. \A s \in R : \A o \in D : F[s, o] = Put(s, o)
  OBVIOUS
<1>2. /\ DOMAIN q = 1 .. Len(q) /\ {} \in SUBSET (1 .. Len(q))
      /\ \A n \in 1 .. Len(q) : n - 1 \in 0 .. Len(q) /\ q[n] \in D
  OBVIOUS
<1>3. PICK f : Solves(f, F, R, D, r, q)
  <2> HIDE DEF F
  <2> QED
    BY <1>1, FoldEquation
<1>4. g = [s \in SUBSET (1 .. Len(q)) |-> body(g, s)]
  <2>1. f = [s \in SUBSET (1 .. Len(q)) |-> body(f, s)]
    <3> HIDE DEF F
    <3> QED
      BY <1>0, <1>3 DEF Solves
  <2> HIDE DEF body
  <2> QED
    BY <2>1
<1>5. FoldLeft(Put, r, q) = g[1 .. Len(q)]
  BY <1>2 DEF FoldLeft, MapThenFoldSet
<1>6. RunsAs(g, F, R, r, q)
  <2> HIDE DEF F, g
  <2>1. g[{}] = r
    BY <1>2, <1>4
  <2>2. ASSUME NEW s \in SUBSET (1 .. Len(q)), s # {}, g[s \ {Max(s)}] \in R
        PROVE  g[s] = F[g[s \ {Max(s)}], q[Max(s)]]
    <3>1. g[s] = Put(g[s \ {Max(s)}], q[Max(s)])
      BY <1>4, <2>2
    <3>2. q[Max(s)] \in D
      BY <1>3, <2>2 DEF Solves
    <3> QED
      BY <1>0, <2>2, <3>1, <3>2
  <2> QED
    BY <2>1, <2>2 DEF RunsAs
<1>7. PICK h : Run(h, F, R, r, q, g[1 .. Len(q)])
  <2> HIDE DEF F, g
  <2> QED
    BY <1>1, <1>6, FoldRuns
<1>8. PutRun(h, R, r, q, g[1 .. Len(q)])
  <2> HIDE DEF F, g
  <2> QED
    BY <1>0, <1>2, <1>7 DEF Run, PutRun
<1> HIDE DEF F, g
<1> QED
  BY <1>5, <1>8

\* The same for hits.
TouchRun(h, R, r, q, v) ==
  /\ h \in [0 .. Len(q) -> R]
  /\ h[0] = r /\ h[Len(q)] = v
  /\ \A n \in 1 .. Len(q) : h[n] = Touch(h[n - 1], q[n])

\* And so do these.
LEMMA TouchAll ==
  ASSUME NEW R, NEW r \in R, NEW D, NEW q \in Seq(D),
         \A s \in R : \A o \in D : Touch(s, o) \in R
  PROVE  \E h : TouchRun(h, R, r, q, FoldLeft(Touch, r, q))
<1> DEFINE F == [p \in R \X D |-> Touch(p[1], p[2])]
           body(f, s) == IF s = {} THEN r ELSE Touch(f[s \ {Max(s)}], q[Max(s)])
           g == CHOOSE f : f = [s \in SUBSET (1 .. Len(q)) |-> body(f, s)]
<1>1. F \in [R \X D -> R]
  OBVIOUS
<1>0. \A s \in R : \A o \in D : F[s, o] = Touch(s, o)
  OBVIOUS
<1>2. /\ DOMAIN q = 1 .. Len(q) /\ {} \in SUBSET (1 .. Len(q))
      /\ \A n \in 1 .. Len(q) : n - 1 \in 0 .. Len(q) /\ q[n] \in D
  OBVIOUS
<1>3. PICK f : Solves(f, F, R, D, r, q)
  <2> HIDE DEF F
  <2> QED
    BY <1>1, FoldEquation
<1>4. g = [s \in SUBSET (1 .. Len(q)) |-> body(g, s)]
  <2>1. f = [s \in SUBSET (1 .. Len(q)) |-> body(f, s)]
    <3> HIDE DEF F
    <3> QED
      BY <1>0, <1>3 DEF Solves
  <2> HIDE DEF body
  <2> QED
    BY <2>1
<1>5. FoldLeft(Touch, r, q) = g[1 .. Len(q)]
  BY <1>2 DEF FoldLeft, MapThenFoldSet
<1>6. RunsAs(g, F, R, r, q)
  <2> HIDE DEF F, g
  <2>1. g[{}] = r
    BY <1>2, <1>4
  <2>2. ASSUME NEW s \in SUBSET (1 .. Len(q)), s # {}, g[s \ {Max(s)}] \in R
        PROVE  g[s] = F[g[s \ {Max(s)}], q[Max(s)]]
    <3>1. g[s] = Touch(g[s \ {Max(s)}], q[Max(s)])
      BY <1>4, <2>2
    <3>2. q[Max(s)] \in D
      BY <1>3, <2>2 DEF Solves
    <3> QED
      BY <1>0, <2>2, <3>1, <3>2
  <2> QED
    BY <2>1, <2>2 DEF RunsAs
<1>7. PICK h : Run(h, F, R, r, q, g[1 .. Len(q)])
  <2> HIDE DEF F, g
  <2> QED
    BY <1>1, <1>6, FoldRuns
<1>8. TouchRun(h, R, r, q, g[1 .. Len(q)])
  <2> HIDE DEF F, g
  <2> QED
    BY <1>0, <1>2, <1>7 DEF Run, TouchRun
<1> HIDE DEF F, g
<1> QED
  BY <1>5, <1>8

\* The same for removals.
PopRun(h, R, r, q, v) ==
  /\ h \in [0 .. Len(q) -> R]
  /\ h[0] = r /\ h[Len(q)] = v
  /\ \A n \in 1 .. Len(q) : h[n] = Pop(h[n - 1], q[n])

\* And these.
LEMMA PopAll ==
  ASSUME NEW R, NEW r \in R, NEW D, NEW q \in Seq(D),
         \A s \in R : \A o \in D : Pop(s, o) \in R
  PROVE  \E h : PopRun(h, R, r, q, FoldLeft(Pop, r, q))
<1> DEFINE F == [p \in R \X D |-> Pop(p[1], p[2])]
           body(f, s) == IF s = {} THEN r ELSE Pop(f[s \ {Max(s)}], q[Max(s)])
           g == CHOOSE f : f = [s \in SUBSET (1 .. Len(q)) |-> body(f, s)]
<1>1. F \in [R \X D -> R]
  OBVIOUS
<1>0. \A s \in R : \A o \in D : F[s, o] = Pop(s, o)
  OBVIOUS
<1>2. /\ DOMAIN q = 1 .. Len(q) /\ {} \in SUBSET (1 .. Len(q))
      /\ \A n \in 1 .. Len(q) : n - 1 \in 0 .. Len(q) /\ q[n] \in D
  OBVIOUS
<1>3. PICK f : Solves(f, F, R, D, r, q)
  <2> HIDE DEF F
  <2> QED
    BY <1>1, FoldEquation
<1>4. g = [s \in SUBSET (1 .. Len(q)) |-> body(g, s)]
  <2>1. f = [s \in SUBSET (1 .. Len(q)) |-> body(f, s)]
    <3> HIDE DEF F
    <3> QED
      BY <1>0, <1>3 DEF Solves
  <2> HIDE DEF body
  <2> QED
    BY <2>1
<1>5. FoldLeft(Pop, r, q) = g[1 .. Len(q)]
  BY <1>2 DEF FoldLeft, MapThenFoldSet
<1>6. RunsAs(g, F, R, r, q)
  <2> HIDE DEF F, g
  <2>1. g[{}] = r
    BY <1>2, <1>4
  <2>2. ASSUME NEW s \in SUBSET (1 .. Len(q)), s # {}, g[s \ {Max(s)}] \in R
        PROVE  g[s] = F[g[s \ {Max(s)}], q[Max(s)]]
    <3>1. g[s] = Pop(g[s \ {Max(s)}], q[Max(s)])
      BY <1>4, <2>2
    <3>2. q[Max(s)] \in D
      BY <1>3, <2>2 DEF Solves
    <3> QED
      BY <1>0, <2>2, <3>1, <3>2
  <2> QED
    BY <2>1, <2>2 DEF RunsAs
<1>7. PICK h : Run(h, F, R, r, q, g[1 .. Len(q)])
  <2> HIDE DEF F, g
  <2> QED
    BY <1>1, <1>6, FoldRuns
<1>8. PopRun(h, R, r, q, g[1 .. Len(q)])
  <2> HIDE DEF F, g
  <2> QED
    BY <1>0, <1>2, <1>7 DEF Run, PopRun
<1> HIDE DEF F, g
<1> QED
  BY <1>5, <1>8

\* The same for pre-warming.
InsertPrewarmRun(h, R, r, q, v) ==
  /\ h \in [0 .. Len(q) -> R]
  /\ h[0] = r /\ h[Len(q)] = v
  /\ \A n \in 1 .. Len(q) : h[n] = InsertPrewarm(h[n - 1], q[n])

\* And these.
LEMMA InsertPrewarmAll ==
  ASSUME NEW R, NEW r \in R, NEW D, NEW q \in Seq(D),
         \A s \in R : \A o \in D : InsertPrewarm(s, o) \in R
  PROVE  \E h : InsertPrewarmRun(h, R, r, q, FoldLeft(InsertPrewarm, r, q))
<1> DEFINE F == [p \in R \X D |-> InsertPrewarm(p[1], p[2])]
           body(f, s) == IF s = {} THEN r ELSE InsertPrewarm(f[s \ {Max(s)}], q[Max(s)])
           g == CHOOSE f : f = [s \in SUBSET (1 .. Len(q)) |-> body(f, s)]
<1>1. F \in [R \X D -> R]
  OBVIOUS
<1>0. \A s \in R : \A o \in D : F[s, o] = InsertPrewarm(s, o)
  OBVIOUS
<1>2. /\ DOMAIN q = 1 .. Len(q) /\ {} \in SUBSET (1 .. Len(q))
      /\ \A n \in 1 .. Len(q) : n - 1 \in 0 .. Len(q) /\ q[n] \in D
  OBVIOUS
<1>3. PICK f : Solves(f, F, R, D, r, q)
  <2> HIDE DEF F
  <2> QED
    BY <1>1, FoldEquation
<1>4. g = [s \in SUBSET (1 .. Len(q)) |-> body(g, s)]
  <2>1. f = [s \in SUBSET (1 .. Len(q)) |-> body(f, s)]
    <3> HIDE DEF F
    <3> QED
      BY <1>0, <1>3 DEF Solves
  <2> HIDE DEF body
  <2> QED
    BY <2>1
<1>5. FoldLeft(InsertPrewarm, r, q) = g[1 .. Len(q)]
  BY <1>2 DEF FoldLeft, MapThenFoldSet
<1>6. RunsAs(g, F, R, r, q)
  <2> HIDE DEF F, g
  <2>1. g[{}] = r
    BY <1>2, <1>4
  <2>2. ASSUME NEW s \in SUBSET (1 .. Len(q)), s # {}, g[s \ {Max(s)}] \in R
        PROVE  g[s] = F[g[s \ {Max(s)}], q[Max(s)]]
    <3>1. g[s] = InsertPrewarm(g[s \ {Max(s)}], q[Max(s)])
      BY <1>4, <2>2
    <3>2. q[Max(s)] \in D
      BY <1>3, <2>2 DEF Solves
    <3> QED
      BY <1>0, <2>2, <3>1, <3>2
  <2> QED
    BY <2>1, <2>2 DEF RunsAs
<1>7. PICK h : Run(h, F, R, r, q, g[1 .. Len(q)])
  <2> HIDE DEF F, g
  <2> QED
    BY <1>1, <1>6, FoldRuns
<1>8. InsertPrewarmRun(h, R, r, q, g[1 .. Len(q)])
  <2> HIDE DEF F, g
  <2> QED
    BY <1>0, <1>2, <1>7 DEF Run, InsertPrewarmRun
<1> HIDE DEF F, g
<1> QED
  BY <1>5, <1>8

-----------------------------------------------------------------------------
(* The cache *)

\* A recency list has an entry at each of its places, and one only.
NoGap(r) == \A o \in Output : \A n \in 1 .. r[o] : \E x \in SameShard(o) : r[x] = n
NoTie(r) == \A o \in Output : \A x \in SameShard(o) : r[x] = r[o] /\ r[o] > 0 => x = o

Lists == {r \in [Output -> 0 .. Capacity] : NoGap(r) /\ NoTie(r)}

\* No entry is at two places, and the shards are what the outputs are divided into.
LEMMA ShardFacts ==
  /\ \A o \in Output : o \in SameShard(o) /\ SameShard(o) \subseteq Output
  /\ \A o \in Output : \A x \in SameShard(o) : SameShard(x) = SameShard(o)
BY DEF SameShard

\* An empty cache is lists without entries.
LEMMA EmptyLists == EmptyCache \in Lists
BY CacheAssumption, ShardFacts DEF Lists, EmptyCache, NoGap, NoTie

\* What a step of an insertion does to the place of an entry.
LEMMA PutPlaces ==
  ASSUME NEW r \in Lists, NEW o \in Output
  PROVE  /\ Put(r, o) \in [Output -> 0 .. Capacity]
         /\ Put(r, o)[o] = 1
         /\ \A x \in Output : x \notin SameShard(o) => Put(r, o)[x] = r[x]
         /\ \A x \in SameShard(o) \ {o} :
              /\ r[x] = 0 => Put(r, o)[x] = 0
              /\ r[o] > 0 /\ r[x] > 0 => r[x] # r[o]
              /\ r[o] > 0 /\ r[x] > r[o] => Put(r, o)[x] = r[x]
              /\ r[o] > 0 /\ r[x] > 0 /\ r[x] < r[o] => Put(r, o)[x] = r[x] + 1
              /\ r[o] = 0 /\ r[x] > 0 /\ r[x] < Capacity => Put(r, o)[x] = r[x] + 1
              /\ r[o] = 0 /\ r[x] = Capacity => Put(r, o)[x] = 0
<1>1. /\ Capacity \in Nat \ {0} /\ \A x \in Output : r[x] \in 0 .. Capacity
      /\ NoTie(r)
  BY CacheAssumption DEF Lists
<1>2. ASSUME NEW x \in SameShard(o) \ {o}
      PROVE  /\ Put(r, o)[x] \in 0 .. Capacity
             /\ r[x] = 0 => Put(r, o)[x] = 0
             /\ r[o] > 0 /\ r[x] > 0 => r[x] # r[o]
             /\ r[o] > 0 /\ r[x] > r[o] => Put(r, o)[x] = r[x]
             /\ r[o] > 0 /\ r[x] > 0 /\ r[x] < r[o] => Put(r, o)[x] = r[x] + 1
             /\ r[o] = 0 /\ r[x] > 0 /\ r[x] < Capacity => Put(r, o)[x] = r[x] + 1
             /\ r[o] = 0 /\ r[x] = Capacity => Put(r, o)[x] = 0
  <2>1. x \in Output /\ r[x] \in 0 .. Capacity /\ r[o] \in 0 .. Capacity
    BY <1>1, ShardFacts
  <2>2. r[o] > 0 /\ r[x] > 0 => r[x] # r[o]
    BY <1>1 DEF NoTie
  <2>3. Put(r, o)[x] = IF ~ (r[x] > 0 /\ (r[o] = 0 \/ r[x] < r[o])) THEN r[x]
                       ELSE IF r[x] < Capacity THEN r[x] + 1 ELSE 0
    BY <2>1 DEF Put
  <2> HIDE DEF Put
  <2> QED
    BY <2>1, <2>2, <2>3, <1>1
<1>3. Put(r, o)[o] = 1 /\ \A x \in Output : x \notin SameShard(o) => Put(r, o)[x] = r[x]
  BY ShardFacts DEF Put
<1>4. Put(r, o) = [x \in Output |-> Put(r, o)[x]]
  BY DEF Put
<1>5. \A x \in Output : Put(r, o)[x] \in 0 .. Capacity
  BY <1>1, <1>2, <1>3
<1>6. Put(r, o) \in [Output -> 0 .. Capacity]
  BY <1>4, <1>5
<1> QED
  BY <1>2, <1>3, <1>6

\* An insertion keeps the lists in order.
LEMMA PutKeepsLists ==
  ASSUME NEW r \in Lists, NEW o \in Output
  PROVE  Put(r, o) \in Lists
<1> DEFINE p == Put(r, o)
<1>1. /\ p \in [Output -> 0 .. Capacity]
      /\ p[o] = 1
      /\ \A x \in Output : x \notin SameShard(o) => p[x] = r[x]
      /\ \A x \in SameShard(o) \ {o} :
           /\ r[x] = 0 => p[x] = 0
           /\ r[o] > 0 /\ r[x] > 0 => r[x] # r[o]
           /\ r[o] > 0 /\ r[x] > r[o] => p[x] = r[x]
           /\ r[o] > 0 /\ r[x] > 0 /\ r[x] < r[o] => p[x] = r[x] + 1
           /\ r[o] = 0 /\ r[x] > 0 /\ r[x] < Capacity => p[x] = r[x] + 1
           /\ r[o] = 0 /\ r[x] = Capacity => p[x] = 0
  BY PutPlaces
<1> HIDE DEF p
<1>2. Capacity \in Nat \ {0} /\ NoGap(r) /\ NoTie(r) /\ \A x \in Output : r[x] \in 0 .. Capacity
  BY CacheAssumption DEF Lists
<1>3. ASSUME NEW y \in Output, NEW n \in 1 .. p[y]
      PROVE  \E x \in SameShard(y) : p[x] = n
  <2>1. p[y] \in 0 .. Capacity /\ n \in Nat /\ n >= 1 /\ n <= p[y] /\ r[y] \in 0 .. Capacity
        /\ r[o] \in 0 .. Capacity
    BY <1>1, <1>2, <1>3
  <2>2. CASE y \notin SameShard(o)
    <3>1. \E x \in SameShard(y) : r[x] = n
      BY <2>1, <2>2, <1>1, <1>2 DEF NoGap
    <3>2. \A x \in SameShard(y) : x \in Output /\ x \notin SameShard(o)
      BY <2>2, ShardFacts
    <3> QED
      BY <3>1, <3>2, <1>1
  <2>3. CASE y \in SameShard(o) /\ n = 1
    BY <2>3, <1>1, ShardFacts
  <2>4. CASE y \in SameShard(o) /\ n > 1
    <3>1. y # o /\ SameShard(y) = SameShard(o)
      BY <2>1, <2>4, <1>1, ShardFacts
    <3>2. ASSUME r[o] > 0, n > r[o] PROVE \E x \in SameShard(y) : p[x] = n
      <4>1. n <= r[y]
        BY <3>1, <3>2, <2>1, <2>4, <1>1
      <4>2. PICK x \in SameShard(y) : r[x] = n
        BY <4>1, <2>1, <1>2 DEF NoGap
      <4>3. x # o /\ x \in SameShard(o)
        BY <4>2, <3>1, <3>2, <2>1
      <4> QED
        BY <4>2, <4>3, <3>2, <1>1
    <3>3. ASSUME r[o] = 0 \/ n <= r[o] PROVE \E x \in SameShard(y) : p[x] = n
      <4>0. r[y] > 0 /\ p[y] <= r[y] + 1 /\ (r[o] > 0 /\ r[y] > r[o] => p[y] = r[y])
        <5>1. y \in SameShard(o) \ {o} /\ p[y] > 0
          BY <3>1, <2>1, <2>4
        <5> QED
          BY <5>1, <2>1, <1>1, <1>2
      <4>1. n - 1 \in 1 .. r[y] /\ n - 1 < Capacity
        BY <4>0, <3>3, <2>1, <2>4, <1>2
      <4>2. PICK x \in SameShard(y) : r[x] = n - 1
        BY <4>1, <1>2 DEF NoGap
      <4>3. x # o /\ x \in SameShard(o) /\ r[x] > 0 /\ r[x] < Capacity /\ (r[o] > 0 => r[x] < r[o])
        BY <4>1, <4>2, <3>1, <3>3, <2>1
      <4>4. p[x] = r[x] + 1
        BY <4>3, <2>1, <1>1
      <4> QED
        BY <4>2, <4>4, <2>1
    <3> QED
      BY <3>2, <3>3, <2>1
  <2> QED
    BY <2>1, <2>2, <2>3, <2>4
<1>4. ASSUME NEW y \in Output, NEW x \in SameShard(y), p[x] = p[y], p[y] > 0, x # y
      PROVE  FALSE
  <2>1. x \in Output /\ r[x] \in 0 .. Capacity /\ r[y] \in 0 .. Capacity /\ r[o] \in 0 .. Capacity
    BY <1>2, ShardFacts
  <2>2. r[x] > 0 => r[x] # r[y]
    BY <1>2, <1>4 DEF NoTie
  <2>3. CASE y \notin SameShard(o)
    <3>1. x \notin SameShard(o)
      BY <2>3, <1>4, ShardFacts
    <3> QED
      BY <2>1, <2>2, <2>3, <3>1, <1>1, <1>4
  <2>4. CASE y \in SameShard(o)
    <3>1. x \in SameShard(o)
      BY <2>4, <1>4, ShardFacts
    <3>2. CASE y = o
      BY <3>1, <3>2, <2>1, <1>1, <1>2, <1>4
    <3>3. CASE x = o
      BY <3>3, <2>4, <2>1, <1>1, <1>2, <1>4
    <3>4. CASE x # o /\ y # o
      BY <3>1, <3>4, <2>1, <2>2, <2>4, <1>1, <1>2, <1>4
    <3> QED
      BY <3>2, <3>3, <3>4
  <2> QED
    BY <2>3, <2>4
<1>5. NoGap(p) /\ NoTie(p)
  BY <1>3, <1>4 DEF NoGap, NoTie
<1> QED
  BY <1>1, <1>5 DEF Lists, p

\* So does a lookup, which evicts nothing.
LEMMA TouchKeepsLists ==
  ASSUME NEW r \in Lists, NEW o \in Output
  PROVE  Touch(r, o) \in Lists /\ Cached(Touch(r, o)) = Cached(r)
<1>1. CASE r[o] > 0
  <2>1. Touch(r, o) = Put(r, o)
    BY <1>1 DEF Touch
  <2>2. \A x \in Output : r[x] \in 0 .. Capacity /\ Capacity \in Nat
    BY CacheAssumption DEF Lists
  <2>3. \A x \in Output : Put(r, o)[x] > 0 <=> r[x] > 0
    <3> TAKE x \in Output
    <3>1. CASE x = o
      BY <3>1, <1>1, PutPlaces
    <3>2. CASE x \notin SameShard(o)
      BY <3>2, PutPlaces
    <3>3. CASE x \in SameShard(o) \ {o}
      <4> DEFINE v == Put(r, o)[x]
      <4>1. /\ r[x] = 0 => v = 0
            /\ r[x] > 0 => r[x] # r[o]
            /\ r[x] > r[o] => v = r[x]
            /\ r[x] > 0 /\ r[x] < r[o] => v = r[x] + 1
        BY <3>3, <1>1, PutPlaces
      <4>2. r[x] \in Nat /\ r[o] \in Nat
        BY <2>2
      <4> HIDE DEF v
      <4>3. v > 0 <=> r[x] > 0
        BY <4>1, <4>2
      <4> QED
        BY <4>3 DEF v
    <3> QED
      BY <3>1, <3>2, <3>3
  <2> QED
    BY <2>1, <2>3, PutKeepsLists DEF Cached
<1>2. CASE ~ (r[o] > 0)
  BY <1>2 DEF Touch
<1> QED
  BY <1>1, <1>2

\* And a removal, which takes out one entry.
LEMMA PopKeepsLists ==
  ASSUME NEW r \in Lists, NEW o \in Output
  PROVE  Pop(r, o) \in Lists /\ Cached(Pop(r, o)) = Cached(r) \ {o}
<1> DEFINE p == Pop(r, o)
<1>1. /\ Capacity \in Nat \ {0} /\ NoGap(r) /\ NoTie(r)
      /\ \A x \in Output : r[x] \in 0 .. Capacity
  BY CacheAssumption DEF Lists
<1>2. /\ p = [x \in Output |-> p[x]] /\ p[o] = 0
      /\ \A x \in Output : x \notin SameShard(o) => p[x] = r[x]
  BY DEF Pop, SameShard
<1>3. ASSUME NEW x \in SameShard(o) \ {o}
      PROVE  /\ r[o] > 0 /\ r[x] > r[o] => p[x] = r[x] - 1
             /\ ~ (r[o] > 0 /\ r[x] > r[o]) => p[x] = r[x]
             /\ r[o] > 0 => r[x] # r[o]
  <2>1. x \in Output
    BY ShardFacts
  <2> QED
    BY <2>1, <1>1 DEF Pop, NoTie
<1> HIDE DEF p
<1>4. \A x \in Output : p[x] \in 0 .. Capacity /\ (p[x] > 0 <=> r[x] > 0 /\ x # o)
  BY <1>1, <1>2, <1>3
<1>5. ASSUME NEW y \in Output, NEW n \in 1 .. p[y]
      PROVE  \E x \in SameShard(y) : p[x] = n
  <2>1. p[y] \in 0 .. Capacity /\ n \in Nat /\ n >= 1 /\ n <= p[y] /\ r[y] \in 0 .. Capacity
        /\ r[o] \in 0 .. Capacity
    BY <1>1, <1>4, <1>5
  <2>2. CASE y \notin SameShard(o)
    <3>1. \E x \in SameShard(y) : r[x] = n
      BY <2>1, <2>2, <1>1, <1>2 DEF NoGap
    <3>2. \A x \in SameShard(y) : x \in Output /\ x \notin SameShard(o)
      BY <2>2, ShardFacts
    <3> QED
      BY <3>1, <3>2, <1>2
  <2>3. CASE y \in SameShard(o)
    <3>1. y # o /\ SameShard(y) = SameShard(o)
      BY <2>1, <2>3, <1>2, ShardFacts
    <3>2. ASSUME r[o] > 0, n >= r[o] PROVE \E x \in SameShard(y) : p[x] = n
      <4>1. n + 1 \in 1 .. r[y]
        BY <3>1, <3>2, <2>1, <2>3, <1>3
      <4>2. PICK x \in SameShard(y) : r[x] = n + 1
        BY <4>1, <1>1 DEF NoGap
      <4>3. x # o /\ x \in SameShard(o) /\ r[x] > r[o]
        BY <4>2, <3>1, <3>2, <2>1
      <4>4. p[x] = r[x] - 1
        BY <4>3, <3>2, <1>3
      <4> QED
        BY <4>2, <4>4, <2>1
    <3>3. ASSUME r[o] = 0 \/ n < r[o] PROVE \E x \in SameShard(y) : p[x] = n
      <4>1. n \in 1 .. r[y]
        BY <3>1, <3>3, <2>1, <2>3, <1>3
      <4>2. PICK x \in SameShard(y) : r[x] = n
        BY <4>1, <1>1 DEF NoGap
      <4>3. x # o /\ x \in SameShard(o) /\ ~ (r[o] > 0 /\ r[x] > r[o])
        BY <4>2, <3>1, <3>3, <2>1
      <4> QED
        BY <4>2, <4>3, <1>3
    <3> QED
      BY <3>2, <3>3, <2>1
  <2> QED
    BY <2>2, <2>3
<1>6. ASSUME NEW y \in Output, NEW x \in SameShard(y), p[x] = p[y], p[y] > 0, x # y
      PROVE  FALSE
  <2>1. x \in Output /\ r[x] \in 0 .. Capacity /\ r[y] \in 0 .. Capacity /\ r[o] \in 0 .. Capacity
        /\ x # o /\ y # o /\ r[x] > 0 /\ r[y] > 0
    BY <1>1, <1>4, <1>6, ShardFacts
  <2>2. r[x] # r[y]
    BY <1>1, <1>6, <2>1 DEF NoTie
  <2>3. CASE y \notin SameShard(o)
    <3>1. x \notin SameShard(o)
      BY <2>3, <1>6, ShardFacts
    <3> QED
      BY <2>1, <2>2, <2>3, <3>1, <1>2, <1>6
  <2>4. CASE y \in SameShard(o)
    <3>1. x \in SameShard(o)
      BY <2>4, <1>6, ShardFacts
    <3> QED
      BY <3>1, <2>1, <2>2, <2>4, <1>3, <1>6
  <2> QED
    BY <2>3, <2>4
<1>7. NoGap(p) /\ NoTie(p)
  BY <1>5, <1>6 DEF NoGap, NoTie
<1>8. p \in [Output -> 0 .. Capacity]
  BY <1>2, <1>4
<1>9. p \in Lists
  BY <1>7, <1>8 DEF Lists
<1>10. Cached(p) = Cached(r) \ {o}
  BY <1>4 DEF Cached
<1> QED
  BY <1>9, <1>10 DEF p

\* An insertion caches what is inserted, and pushes something out only of a
\* shard that is full.
LEMMA PutCaches ==
  ASSUME NEW r \in Lists, NEW o \in Output
  PROVE  /\ Cached(Put(r, o)) \subseteq Cached(r) \cup {o} /\ o \in Cached(Put(r, o))
         /\ ~ ShardFull(r, o) => Cached(r) \subseteq Cached(Put(r, o))
<1>1. /\ Capacity \in Nat \ {0} /\ IsFiniteSet(Output) /\ NoGap(r)
      /\ \A x \in Output : r[x] \in 0 .. Capacity
  BY CacheAssumption DEF Lists
<1>2. Cached(Put(r, o)) \subseteq Cached(r) \cup {o} /\ o \in Cached(Put(r, o))
  <2>1. ASSUME NEW x \in Output, x # o, Put(r, o)[x] > 0 PROVE r[x] > 0
    <3>1. CASE x \notin SameShard(o)
      BY <2>1, <3>1, PutPlaces
    <3>2. CASE x \in SameShard(o) \ {o}
      <4>1. r[x] # 0
        BY <2>1, <3>2, PutPlaces
      <4> QED
        BY <4>1, <1>1
    <3> QED
      BY <2>1, <3>1, <3>2
  <2>2. Put(r, o)[o] = 1
    BY PutPlaces
  <2> QED
    BY <2>1, <2>2 DEF Cached
<1>3. ASSUME NEW x \in Cached(r), x \notin Cached(Put(r, o)) PROVE ShardFull(r, o)
  <2>1. x \in SameShard(o) \ {o} /\ r[x] > 0 /\ ~ (Put(r, o)[x] > 0) /\ x \in Output
    <3>1. x \in Output /\ r[x] > 0 /\ ~ (Put(r, o)[x] > 0)
      BY <1>3 DEF Cached
    <3>2. x # o
      BY <3>1, <1>2 DEF Cached
    <3>3. x \in SameShard(o)
      BY <3>1, PutPlaces
    <3> QED
      BY <3>1, <3>2, <3>3
  <2>2. r[x] = Capacity
    <3>1. r[x] \in 0 .. Capacity /\ r[o] \in 0 .. Capacity
      BY <2>1, <1>1
    <3>2. /\ r[o] > 0 /\ r[x] > 0 => r[x] # r[o]
          /\ r[o] > 0 /\ r[x] > r[o] => Put(r, o)[x] = r[x]
          /\ r[o] > 0 /\ r[x] > 0 /\ r[x] < r[o] => Put(r, o)[x] = r[x] + 1
          /\ r[o] = 0 /\ r[x] > 0 /\ r[x] < Capacity => Put(r, o)[x] = r[x] + 1
      BY <2>1, PutPlaces
    <3> QED
      BY <3>1, <3>2, <2>1, <1>1
  <2> DEFINE C == Cached(r) \cap SameShard(o)
             P == {r[y] : y \in C}
  <2>3. 1 .. Capacity \subseteq P
    <3> SUFFICES ASSUME NEW n \in 1 .. Capacity PROVE n \in P
      OBVIOUS
    <3>1. PICK y \in SameShard(x) : r[y] = n
      BY <2>1, <2>2, <1>1 DEF NoGap
    <3>2. y \in SameShard(o) /\ y \in Output /\ r[y] > 0
      BY <3>1, <2>1, <1>1, ShardFacts
    <3> QED
      BY <3>1, <3>2 DEF Cached
  <2>4. IsFiniteSet(C)
    <3>1. C \subseteq Output
      BY DEF Cached
    <3> QED
      BY <3>1, <1>1, FS_Subset
  <2>5. IsFiniteSet(P) /\ Cardinality(P) <= Cardinality(C)
    BY <2>4, ImageSize
  <2>6. Cardinality(1 .. Capacity) = Capacity /\ Cardinality(1 .. Capacity) <= Cardinality(P)
    <3>1. Cardinality(1 .. Capacity) = Capacity
      BY <1>1, FS_Interval
    <3> HIDE DEF P
    <3> QED
      BY <3>1, <2>3, <2>5, FS_Subset
  <2>7. Cardinality(P) \in Nat /\ Cardinality(C) \in Nat
    BY <2>4, <2>5, FS_CardinalityType
  <2>8. Cardinality(C) >= Capacity
    <3> HIDE DEF C, P
    <3> QED
      BY <2>5, <2>6, <2>7, <1>1
  <2> QED
    BY <2>8 DEF ShardFull
<1> QED
  BY <1>2, <1>3

-----------------------------------------------------------------------------
(* Sequences of operations on the cache *)

\* What is put in, one after the other, is all that may be new.
LEMMA PutAllCaches ==
  ASSUME NEW r \in Lists, NEW q \in Seq(Output)
  PROVE  FoldLeft(Put, r, q) \in Lists /\ Cached(FoldLeft(Put, r, q)) \subseteq Cached(r) \cup ToSet(q)
<1> DEFINE D == ToSet(q)
           R == {s \in Lists : Cached(s) \subseteq Cached(r) \cup D}
<1>1. D \subseteq Output /\ q \in Seq(D)
  BY DEF ToSet
<1>2. \A s \in R : \A o \in D : Put(s, o) \in R
  <2> HIDE DEF D
  <2> QED
    BY <1>1, PutKeepsLists, PutCaches
<1>3. r \in R
  OBVIOUS
<1>4. PICK h : PutRun(h, R, r, q, FoldLeft(Put, r, q))
  <2> HIDE DEF D, R
  <2> QED
    BY <1>1, <1>2, <1>3, PutAll
<1>5. FoldLeft(Put, r, q) \in R
  BY <1>4 DEF PutRun
<1> QED
  BY <1>5

\* Lookups change the order of the lists, not their entries.
LEMMA TouchAllCaches ==
  ASSUME NEW r \in Lists, NEW q \in Seq(Output)
  PROVE  FoldLeft(Touch, r, q) \in Lists /\ Cached(FoldLeft(Touch, r, q)) = Cached(r)
<1> DEFINE R == {s \in Lists : Cached(s) = Cached(r)}
<1>1. r \in R /\ \A s \in R : \A o \in Output : Touch(s, o) \in R
  BY TouchKeepsLists
<1>2. PICK h : TouchRun(h, R, r, q, FoldLeft(Touch, r, q))
  <2> HIDE DEF R
  <2> QED
    BY <1>1, TouchAll
<1>3. FoldLeft(Touch, r, q) \in R
  BY <1>2 DEF TouchRun
<1> QED
  BY <1>3

\* What is removed is gone, and nothing else.
LEMMA PopAllCaches ==
  ASSUME NEW r \in Lists, NEW q \in Seq(Output)
  PROVE  FoldLeft(Pop, r, q) \in Lists /\ Cached(FoldLeft(Pop, r, q)) = Cached(r) \ ToSet(q)
<1> DEFINE n == Len(q)
           upto(i) == {q[j] : j \in 1 .. i}
<1>1. n \in Nat /\ (\A i \in 1 .. n : q[i] \in Output) /\ upto(n) = ToSet(q)
  BY DEF ToSet
<1>2. PICK h : PopRun(h, Lists, r, q, FoldLeft(Pop, r, q))
  BY PopKeepsLists, PopAll
<1>3. /\ h \in [0 .. n -> Lists] /\ h[0] = r /\ h[n] = FoldLeft(Pop, r, q)
      /\ \A i \in 1 .. n : h[i] = Pop(h[i - 1], q[i])
  BY <1>2 DEF PopRun
<1> DEFINE T == {i \in 0 .. n : Cached(h[i]) = Cached(r) \ upto(i)}
<1>4. \A i \in 0 .. n : i \in T
  <2>1. 0 \in T
    BY <1>1, <1>3
  <2>2. ASSUME NEW i \in 1 .. n, i - 1 \in T PROVE i \in T
    <3>1. /\ i \in 0 .. n /\ i - 1 \in 0 .. n /\ h[i - 1] \in Lists
          /\ Cached(h[i - 1]) = Cached(r) \ upto(i - 1)
      BY <2>2, <1>1, <1>3
    <3>2. upto(i) = upto(i - 1) \cup {q[i]}
      <4>1. \A j : j \in 1 .. i <=> j \in 1 .. i - 1 \/ j = i
        BY <1>1
      <4> QED
        BY <4>1
    <3>3. Cached(h[i]) = Cached(h[i - 1]) \ {q[i]}
      <4> HIDE DEF T
      <4> QED
        BY <3>1, <1>1, <1>3, PopKeepsLists
    <3> QED
      BY <3>1, <3>2, <3>3
  <2> HIDE DEF T
  <2> QED
    BY <2>1, <2>2, <1>1, Stepwise
<1>5. n \in 0 .. n
  BY <1>1
<1>6. Cached(h[n]) = Cached(r) \ ToSet(q) /\ h[n] \in Lists
  BY <1>1, <1>3, <1>4, <1>5
<1> QED
  BY <1>3, <1>6

\* Pre-warming keeps everything, and adds what it says it has added.
LEMMA PrewarmAllCaches ==
  ASSUME NEW r \in Lists, NEW q \in Seq(Output)
  PROVE  LET w == FoldLeft(InsertPrewarm, [r |-> r, in |-> {}, ok |-> TRUE], q)
         IN /\ w.r \in Lists /\ w.in \subseteq ToSet(q) /\ w.ok \in BOOLEAN
            /\ Cached(r) \subseteq Cached(w.r)
            /\ Cached(w.r) \subseteq Cached(r) \cup w.in
<1> DEFINE D == ToSet(q)
           W == [r : Lists, in : SUBSET D, ok : BOOLEAN]
           R == {w \in W : Cached(r) \subseteq Cached(w.r) /\ Cached(w.r) \subseteq Cached(r) \cup w.in}
           first == [r |-> r, in |-> {}, ok |-> TRUE]
<1>1. D \subseteq Output /\ q \in Seq(D)
  BY DEF ToSet
<1>2. ASSUME NEW w \in R, NEW o \in D PROVE InsertPrewarm(w, o) \in R
  <2>1. /\ w.r \in Lists /\ w.in \in SUBSET D /\ w.ok \in BOOLEAN /\ o \in Output
        /\ Cached(r) \subseteq Cached(w.r) /\ Cached(w.r) \subseteq Cached(r) \cup w.in
    <3> HIDE DEF D
    <3> QED
      BY <1>1, <1>2
  <2>2. CASE ~ w.ok
    BY <2>2 DEF InsertPrewarm
  <2>3. CASE w.ok /\ ShardFull(w.r, o)
    <3>1. InsertPrewarm(w, o) = [w EXCEPT !.ok = FALSE]
      BY <2>3 DEF InsertPrewarm
    <3> HIDE DEF D
    <3> QED
      BY <3>1, <2>1
  <2>4. CASE w.ok /\ ~ ShardFull(w.r, o)
    <3>1. InsertPrewarm(w, o) = [r |-> Put(w.r, o), in |-> w.in \cup {o}, ok |-> TRUE]
      BY <2>4 DEF InsertPrewarm
    <3>2. /\ Put(w.r, o) \in Lists /\ Cached(w.r) \subseteq Cached(Put(w.r, o))
          /\ Cached(Put(w.r, o)) \subseteq Cached(w.r) \cup {o}
      BY <2>1, <2>4, PutKeepsLists, PutCaches
    <3> HIDE DEF D
    <3> QED
      BY <3>1, <3>2, <2>1
  <2> QED
    BY <2>2, <2>3, <2>4
<1>3. first \in R
  <2> HIDE DEF D
  <2> QED
    OBVIOUS
<1>4. PICK h : InsertPrewarmRun(h, R, first, q, FoldLeft(InsertPrewarm, first, q))
  <2> HIDE DEF D, R, first
  <2> QED
    BY <1>1, <1>2, <1>3, InsertPrewarmAll
<1>5. FoldLeft(InsertPrewarm, first, q) \in R
  <2> HIDE DEF first, R
  <2> QED
    BY <1>4 DEF InsertPrewarmRun
<1> QED
  BY <1>5

-----------------------------------------------------------------------------
(* Sets and sequences *)

\* The elements of a finite set, in some order.
LEMMA SetInSequence ==
  ASSUME NEW S, IsFiniteSet(S)
  PROVE  SetToSeq(S) \in Seq(S) /\ ToSet(SetToSeq(S)) = S
<1> DEFINE n == Cardinality(S)
           f == SetToSeq(S)
<1>1. n \in Nat /\ ExistsBijection(1 .. n, S)
  BY FS_CardinalityType
<1> HIDE DEF n
<1>2. PICK g \in [1 .. n -> S] : IsInjective(g)
  BY <1>1 DEF ExistsBijection, Bijection, Injection
<1>3. f \in [1 .. n -> S] /\ IsInjective(f)
  BY <1>2 DEF SetToSeq, n
<1> HIDE DEF f
<1>4. f \in Injection(1 .. n, S)
  BY <1>3 DEF Injection
<1>5. Cardinality(1 .. n) = n
  BY <1>1, FS_Interval
<1>6. f \in Surjection(1 .. n, S)
  BY <1>4, <1>5, FS_Injection DEF n
<1>7. f \in Seq(S) /\ Len(f) = n /\ DOMAIN f = 1 .. n
  BY <1>1, <1>3
<1>8. ToSet(f) = S
  BY <1>3, <1>6, <1>7 DEF ToSet, Surjection
<1> QED
  BY <1>7, <1>8 DEF f

\* The elements of two sequences one after the other.
LEMMA JoinedSet == \A D : \A p, q \in Seq(D) : ToSet(p \o q) = ToSet(p) \cup ToSet(q)
<1> SUFFICES ASSUME NEW D, NEW p \in Seq(D), NEW q \in Seq(D)
             PROVE  ToSet(p \o q) = ToSet(p) \cup ToSet(q)
  OBVIOUS
<1> DEFINE m == Len(p)
           k == Len(q)
<1>1. m \in Nat /\ k \in Nat /\ Len(p \o q) = m + k /\ p \o q \in Seq(D)
  OBVIOUS
<1>2. /\ \A i \in 1 .. m : (p \o q)[i] = p[i]
      /\ \A i \in 1 .. k : (p \o q)[m + i] = q[i]
  OBVIOUS
<1>3. /\ ToSet(p \o q) = {(p \o q)[i] : i \in 1 .. m + k}
      /\ ToSet(p) = {p[i] : i \in 1 .. m} /\ ToSet(q) = {q[i] : i \in 1 .. k}
  BY <1>1 DEF ToSet
<1>4. ASSUME NEW i \in 1 .. m + k PROVE (p \o q)[i] \in ToSet(p) \cup ToSet(q)
  <2>1. CASE i <= m
    <3>1. i \in 1 .. m
      BY <1>1, <2>1
    <3> QED
      BY <3>1, <1>2, <1>3
  <2>2. CASE ~ (i <= m)
    <3>1. i - m \in 1 .. k /\ m + (i - m) = i
      BY <1>1, <2>2
    <3>2. (p \o q)[m + (i - m)] = q[i - m]
      BY <3>1, <1>2
    <3> QED
      BY <3>1, <3>2, <1>3
  <2> QED
    BY <2>1, <2>2
<1>5. ASSUME NEW i \in 1 .. m PROVE p[i] \in ToSet(p \o q)
  <2>1. i \in 1 .. m + k
    BY <1>1
  <2> QED
    BY <2>1, <1>2, <1>3
<1>6. ASSUME NEW i \in 1 .. k PROVE q[i] \in ToSet(p \o q)
  <2>1. m + i \in 1 .. m + k
    BY <1>1
  <2> QED
    BY <2>1, <1>2, <1>3
<1> QED
  BY <1>3, <1>4, <1>5, <1>6

\* Sequences one after the other have the elements of all.
LEMMA FlatFacts ==
  ASSUME NEW D, NEW seqs \in Seq(Seq(D))
  PROVE  FlattenSeq(seqs) \in Seq(D) /\ ToSet(FlattenSeq(seqs)) = UNION {ToSet(seqs[i]) : i \in 1 .. Len(seqs)}
<1> DEFINE n == Len(seqs)
           body(f, i) == IF i = 1 THEN seqs[i] ELSE f[i - 1] \o seqs[i]
           g == CHOOSE f : f = [i \in 1 .. n |-> body(f, i)]
           Upto(i) == UNION {ToSet(seqs[j]) : j \in 1 .. i}
<1>1. n \in Nat /\ \A i \in 1 .. n : seqs[i] \in Seq(D)
  OBVIOUS
<1>2. CASE n = 0
  <2>1. FlattenSeq(seqs) = seqs /\ seqs = <<>>
    BY <1>2 DEF FlattenSeq
  <2>2. 1 .. n = {} /\ ToSet(seqs) = {}
    BY <1>2, <2>1 DEF ToSet
  <2> QED
    BY <2>1, <2>2
<1>3. CASE n # 0
  <2>1. FlattenSeq(seqs) = g[n]
    BY <1>3 DEF FlattenSeq
  <2>2. \E f : f = [i \in 1 .. n |-> body(f, i)]
    <3> DEFINE F == [p \in Seq(D) \X Seq(D) |-> p[1] \o p[2]]
    <3>1. F \in [Seq(D) \X Seq(D) -> Seq(D)]
      OBVIOUS
    <3>2. \A p, q \in Seq(D) : F[p, q] = p \o q
      OBVIOUS
    <3>3. <<>> \in Seq(D)
      OBVIOUS
    <3> HIDE DEF F
    <3>4. PICK h, v : Run(h, F, Seq(D), <<>>, seqs, v)
      BY <3>1, <3>3, RunExists, Zenon
    <3>5. /\ h \in [0 .. n -> Seq(D)] /\ h[0] = <<>>
          /\ \A i \in 1 .. n : h[i] = F[h[i - 1], seqs[i]]
      BY <3>4 DEF Run
    <3> DEFINE f == [i \in 1 .. n |-> h[i]]
    <3>6. ASSUME NEW i \in 1 .. n PROVE f[i] = body(f, i)
      <4>1. i - 1 \in 0 .. n
        BY <1>1
      <4>2. h[i - 1] \in Seq(D)
        BY <4>1, <3>5
      <4>3. h[i] = h[i - 1] \o seqs[i]
        BY <4>2, <3>2, <3>5, <1>1
      <4>4. CASE i = 1
        <5>0. i - 1 = 0
          BY <4>4
        <5>1. h[i - 1] = <<>>
          BY <5>0, <3>5
        <5>2. <<>> \o seqs[i] = seqs[i]
          BY <1>1
        <5> QED
          BY <4>3, <4>4, <5>1, <5>2
      <4>5. CASE i # 1
        <5>1. i - 1 \in 1 .. n
          BY <4>5, <1>1
        <5> QED
          BY <4>3, <4>5, <5>1
      <4> QED
        BY <4>4, <4>5
    <3>7. f = [i \in 1 .. n |-> body(f, i)]
      BY <3>6
    <3> HIDE DEF f, body
    <3> QED
      BY <3>7
  <2>3. g = [i \in 1 .. n |-> body(g, i)]
    <3> HIDE DEF body
    <3> QED
      BY <2>2
  <2> HIDE DEF g
  <2> DEFINE T == {i \in 0 .. n : i > 0 => g[i] \in Seq(D) /\ ToSet(g[i]) = Upto(i)}
  <2>4. 0 \in T
    BY <1>1
  <2>5. ASSUME NEW i \in 1 .. n, i - 1 \in T PROVE i \in T
    <3>1. g[i] = IF i = 1 THEN seqs[i] ELSE g[i - 1] \o seqs[i]
      BY <2>3
    <3>2. Upto(i) = Upto(i - 1) \cup ToSet(seqs[i])
      <4>1. \A j : j \in 1 .. i <=> j \in 1 .. i - 1 \/ j = i
        BY <1>1
      <4> QED
        BY <4>1
    <3>3. CASE i = 1
      <4>1. Upto(i - 1) = {}
        BY <3>3
      <4>2. g[i] = seqs[i] /\ seqs[i] \in Seq(D) /\ i \in 0 .. n
        BY <3>1, <3>3, <1>1
      <4> HIDE DEF Upto
      <4>3. ToSet(g[i]) = Upto(i)
        BY <4>1, <4>2, <3>2
      <4> QED
        BY <4>2, <4>3
    <3>4. CASE i # 1
      <4>1. g[i - 1] \in Seq(D) /\ ToSet(g[i - 1]) = Upto(i - 1)
        BY <2>5, <3>4
      <4>2. g[i] = g[i - 1] \o seqs[i] /\ seqs[i] \in Seq(D)
        BY <3>1, <3>4, <1>1
      <4> HIDE DEF Upto
      <4>3. g[i] \in Seq(D)
        BY <4>1, <4>2
      <4>4. ToSet(g[i]) = ToSet(g[i - 1]) \cup ToSet(seqs[i])
        <5>1. \A p, q \in Seq(D) : ToSet(p \o q) = ToSet(p) \cup ToSet(q)
          BY JoinedSet
        <5> QED
          BY <5>1, <4>1, <4>2
      <4>5. i \in 0 .. n
        BY <1>1
      <4>6. ToSet(g[i]) = Upto(i)
        BY <4>1, <4>4, <3>2
      <4> QED
        BY <4>3, <4>5, <4>6
    <3> QED
      BY <3>3, <3>4
  <2>6. n \in T
    <3> HIDE DEF T
    <3>1. \A i \in 0 .. n : i \in T
      BY <2>4, <2>5, <1>1, Stepwise
    <3> QED
      BY <3>1, <1>1
  <2> QED
    BY <2>1, <2>6, <1>1, <1>3
<1> QED
  BY <1>2, <1>3

-----------------------------------------------------------------------------
(* Writing and reading the entries in order *)

\* What the shards are sorted by is an order of the cached outputs.
LEMMA RecencyOrders ==
  ASSUME NEW r \in Lists
  PROVE  IsFiniteSet(Cached(r)) /\ Cached(r) \subseteq Output /\ Orderly(Cached(r), ByRecency(r))
<1> DEFINE C == Cached(r)
<1>1. IsFiniteSet(C) /\ C \subseteq Output
  <2>1. C \subseteq Output
    BY DEF Cached
  <2> QED
    BY <2>1, CacheAssumption, FS_Subset
<1>2. \A x, y \in C : <<x, y>> \in ByRecency(r) <=>
        Shard[x] < Shard[y] \/ (Shard[x] = Shard[y] /\ r[x] < r[y])
  BY DEF ByRecency
<1>3. \A x \in C : Shard[x] \in Nat /\ r[x] \in Nat /\ r[x] > 0 /\ x \in Output
  <2>1. \A x \in C : x \in Output /\ r[x] > 0
    BY DEF Cached
  <2>2. \A x \in Output : Shard[x] \in Nat /\ r[x] \in 0 .. Capacity
    BY StreamAssumption DEF Lists
  <2> QED
    BY <2>1, <2>2
<1> HIDE DEF C
<1>4. \A x, y \in C : Shard[x] = Shard[y] /\ r[x] = r[y] => x = y
  <2> SUFFICES ASSUME NEW x \in C, NEW y \in C, Shard[x] = Shard[y], r[x] = r[y] PROVE x = y
    OBVIOUS
  <2>1. x \in SameShard(y)
    BY <1>3 DEF SameShard
  <2> QED
    BY <2>1, <1>3 DEF Lists, NoTie
<1>5. \A x \in C : <<x, x>> \notin ByRecency(r)
  BY <1>2, <1>3
<1>6. \A x, y \in C : x # y => <<x, y>> \in ByRecency(r) \/ <<y, x>> \in ByRecency(r)
  BY <1>2, <1>3, <1>4
<1>7. \A x, y, z \in C :
        <<x, y>> \in ByRecency(r) /\ <<y, z>> \in ByRecency(r) => <<x, z>> \in ByRecency(r)
  BY <1>2, <1>3
<1> QED
  BY <1>1, <1>5, <1>6, <1>7 DEF Orderly, C

\* The entries that are written are the cached outputs, once each.
LEMMA ListedFacts ==
  ASSUME NEW r \in Lists
  PROVE  /\ Listed(r) \in Seq(Output) /\ Len(Listed(r)) = Cardinality(Cached(r))
         /\ Cardinality(Cached(r)) \in Nat
         /\ ToSet(Listed(r)) = Cached(r)
         /\ \A i, j \in 1 .. Len(Listed(r)) : i < j => <<Listed(r)[i], Listed(r)[j]>> \in ByRecency(r)
<1> DEFINE C == Cached(r)
           n == Cardinality(C)
           e == Listed(r)
<1>1. IsFiniteSet(C) /\ C \subseteq Output /\ Orderly(C, ByRecency(r))
  BY RecencyOrders
<1>2. e = Sorted(C, ByRecency(r))
  BY DEF Listed
<1> HIDE DEF C, e
<1>3. /\ e \in [1 .. n -> C] /\ \A x \in C : \E i \in 1 .. n : e[i] = x
      /\ \A i, j \in 1 .. n : i < j => <<e[i], e[j]>> \in ByRecency(r)
  BY <1>1, <1>2, SortedFacts
<1>4. n \in Nat
  BY <1>1, FS_CardinalityType
<1> HIDE DEF n
<1>5. e \in Seq(Output) /\ Len(e) = n /\ DOMAIN e = 1 .. n
  BY <1>1, <1>3, <1>4
<1>6. ToSet(e) = C
  BY <1>3, <1>5 DEF ToSet
<1> QED
  BY <1>3, <1>4, <1>5, <1>6 DEF C, n, e

\* Nothing is written of an empty cache.
LEMMA EmptyListed == Listed(EmptyCache) = <<>>
<1>1. Cached(EmptyCache) = {}
  BY DEF Cached, EmptyCache
<1>2. Len(Listed(EmptyCache)) = 0 /\ Listed(EmptyCache) \in Seq(Output)
  BY <1>1, EmptyLists, ListedFacts, FS_EmptySet
<1> QED
  BY <1>2

\* Reading the entries back in reverse caches no more than them.
LEMMA ReversedFacts ==
  ASSUME NEW e \in Seq(Output)
  PROVE  /\ Reverse(e) \in Seq(Output) /\ Len(Reverse(e)) = Len(e) /\ ToSet(Reverse(e)) = ToSet(e)
         /\ \A i \in 1 .. Len(e) : Reverse(e)[i] = e[Len(e) - i + 1] /\ Len(e) - i + 1 \in 1 .. Len(e)
<1>1. Len(e) \in Nat /\ Reverse(e) = [i \in 1 .. Len(e) |-> e[(Len(e) - i) + 1]]
  BY DEF Reverse
<1> DEFINE n == Len(e)
           q == Reverse(e)
<1> HIDE DEF q
<1>2. \A i \in 1 .. n : n - i + 1 \in 1 .. n /\ n - (n - i + 1) + 1 = i
  BY <1>1
<1>3. \A i \in 1 .. n : q[i] = e[n - i + 1]
  BY <1>1 DEF q
<1>4. \A i \in 1 .. n : e[i] \in Output
  OBVIOUS
<1>5. q \in Seq(Output) /\ Len(q) = n /\ DOMAIN q = 1 .. n
  BY <1>1, <1>2, <1>4 DEF q
<1>6. ToSet(q) = {q[i] : i \in 1 .. n} /\ ToSet(e) = {e[i] : i \in 1 .. n}
  BY <1>5 DEF ToSet
<1> HIDE DEF n
<1>7. \A x : x \in {q[i] : i \in 1 .. n} <=> x \in {e[i] : i \in 1 .. n}
  BY <1>2, <1>3
<1> QED
  BY <1>2, <1>3, <1>5, <1>6, <1>7 DEF n, q

\* What is read back of the entries is lists.
LEMMA RestoredCaches ==
  ASSUME NEW r \in Lists
  PROVE  Restored(Listed(r)) \in Lists /\ Cached(Restored(Listed(r))) \subseteq ToSet(Listed(r))
<1> DEFINE e == Listed(r)
           q == Reverse(e)
<1>1. e \in Seq(Output)
  BY ListedFacts
<1> HIDE DEF e
<1>2. q \in Seq(Output) /\ ToSet(q) = ToSet(e)
  BY <1>1, ReversedFacts
<1>3. Restored(e) = FoldLeft(Put, EmptyCache, q)
  BY DEF Restored
<1> HIDE DEF q
<1>4. /\ FoldLeft(Put, EmptyCache, q) \in Lists
      /\ Cached(FoldLeft(Put, EmptyCache, q)) \subseteq Cached(EmptyCache) \cup ToSet(q)
  BY <1>2, EmptyLists, PutAllCaches
<1>5. Cached(EmptyCache) = {}
  BY DEF Cached, EmptyCache
<1>6. Restored(e) \in Lists /\ Cached(Restored(e)) \subseteq ToSet(e)
  BY <1>2, <1>3, <1>4, <1>5
<1> QED
  BY <1>6 DEF e

\* Among the entries S of a cache, x has Above(r, S, x) of its shard no less
\* recently used than itself.
Above(r, S, x) == {y \in S \cap SameShard(x) : r[y] <= r[x]}

\* There are no more of them than the place of x, and as many if none is missing.
LEMMA AbovePlaces ==
  ASSUME NEW r \in Lists, NEW S \in SUBSET Cached(r), NEW x \in Cached(r)
  PROVE  /\ IsFiniteSet(Above(r, S, x)) /\ Cardinality(Above(r, S, x)) \in 0 .. r[x]
         /\ S = Cached(r) => Cardinality(Above(r, S, x)) = r[x]
<1> DEFINE A == Above(r, S, x)
           P == {r[y] : y \in A}
<1>1. /\ \A y \in Cached(r) : y \in Output /\ r[y] \in 0 .. Capacity /\ r[y] > 0
      /\ Capacity \in Nat /\ NoGap(r) /\ NoTie(r)
  BY CacheAssumption DEF Cached, Lists
<1>2. \A y \in A : y \in Cached(r) /\ y \in SameShard(x) /\ r[y] \in 1 .. r[x]
  BY <1>1 DEF Above
<1>3. IsFiniteSet(A)
  <2>1. A \subseteq Output
    BY <1>1, <1>2
  <2> HIDE DEF A
  <2> QED
    BY <2>1, CacheAssumption, FS_Subset
<1>4. \A y, z \in A : r[y] = r[z] => y = z
  <2> SUFFICES ASSUME NEW y \in A, NEW z \in A, r[y] = r[z] PROVE y = z
    OBVIOUS
  <2>1. y \in SameShard(z) /\ z \in Output /\ r[z] > 0
    BY <1>1, <1>2 DEF SameShard
  <2> QED
    BY <2>1, <1>1 DEF NoTie
<1>5. P \subseteq 1 .. r[x]
  BY <1>2
<1>6. r[x] \in Nat /\ IsFiniteSet(1 .. r[x]) /\ Cardinality(1 .. r[x]) = r[x]
  <2>1. r[x] \in Nat
    BY <1>1
  <2> QED
    BY <2>1, FS_Interval
<1>7. Cardinality(P) = Cardinality(A) /\ IsFiniteSet(P)
  <2> HIDE DEF A
  <2> QED
    BY <1>3, <1>4, ImageSize
<1>8. Cardinality(A) \in 0 .. r[x]
  <2> HIDE DEF A, P
  <2>1. Cardinality(P) <= r[x] /\ Cardinality(A) \in Nat
    BY <1>3, <1>5, <1>6, FS_Subset, FS_CardinalityType
  <2> QED
    BY <2>1, <1>6, <1>7
<1>9. ASSUME S = Cached(r) PROVE Cardinality(A) = r[x]
  <2>1. \A n \in 1 .. r[x] : n \in P
    <3> TAKE n \in 1 .. r[x]
    <3>1. PICK y \in SameShard(x) : r[y] = n
      BY <1>1 DEF NoGap
    <3>2. y \in Cached(r) /\ r[y] <= r[x]
      BY <3>1, <1>6 DEF Cached, SameShard
    <3>3. y \in A
      BY <3>1, <3>2, <1>9 DEF Above
    <3> QED
      BY <3>1, <3>3
  <2>2. P = 1 .. r[x]
    BY <2>1, <1>5
  <2> HIDE DEF P, A
  <2> QED
    BY <2>2, <1>6, <1>7
<1> QED
  BY <1>3, <1>8, <1>9

\* One more entry that is more recently used than all the others of its shard
\* moves these one place down.
LEMMA AboveGrows ==
  ASSUME NEW r \in Lists, NEW S \in SUBSET Cached(r), NEW o \in Cached(r), o \notin S,
         \A y \in S \cap SameShard(o) : r[o] < r[y]
  PROVE  /\ Cardinality(Above(r, S \cup {o}, o)) = 1
         /\ \A x \in S \cap SameShard(o) :
              Cardinality(Above(r, S \cup {o}, x)) = Cardinality(Above(r, S, x)) + 1
         /\ \A x \in S : x \notin SameShard(o) => Above(r, S \cup {o}, x) = Above(r, S, x)
<1>1. /\ \A y \in Cached(r) : y \in Output /\ r[y] \in 0 .. Capacity /\ r[y] > 0
      /\ Capacity \in Nat
  BY CacheAssumption DEF Cached, Lists
<1>2. Above(r, S \cup {o}, o) = {o}
  <2>1. o \in SameShard(o)
    BY <1>1 DEF SameShard
  <2>2. \A y \in S \cap SameShard(o) : ~ (r[y] <= r[o])
    BY <1>1
  <2> QED
    BY <2>1, <2>2, <1>1 DEF Above
<1>3. ASSUME NEW x \in S \cap SameShard(o)
      PROVE  Cardinality(Above(r, S \cup {o}, x)) = Cardinality(Above(r, S, x)) + 1
  <2>1. r[o] <= r[x] /\ o \in SameShard(x)
    BY <1>1 DEF SameShard
  <2>2. Above(r, S \cup {o}, x) = Above(r, S, x) \cup {o}
    BY <2>1 DEF Above
  <2>3. IsFiniteSet(Above(r, S, x)) /\ o \notin Above(r, S, x)
    BY AbovePlaces DEF Above
  <2> QED
    BY <2>2, <2>3, FS_AddElement
<1>4. ASSUME NEW x \in S, x \notin SameShard(o)
      PROVE  Above(r, S \cup {o}, x) = Above(r, S, x)
  <2>1. o \notin SameShard(x)
    BY <1>1, <1>4 DEF SameShard
  <2> QED
    BY <2>1 DEF Above
<1>5. Cardinality({o}) = 1
  BY FS_Singleton
<1> QED
  BY <1>2, <1>3, <1>4, <1>5

\* The places that the entries S of r have in a cache without the others.
Within(r, S) == [x \in Output |-> IF x \in S THEN Cardinality(Above(r, S, x)) ELSE 0]

\* Putting in an entry that is more recently used than those that are in.
LEMMA PutWithin ==
  ASSUME NEW r \in Lists, NEW S \in SUBSET Cached(r), NEW o \in Cached(r), o \notin S,
         \A y \in S \cap SameShard(o) : r[o] < r[y]
  PROVE  Put(Within(r, S), o) = Within(r, S \cup {o})
<1> DEFINE w == Within(r, S)
<1>1. /\ \A y \in Cached(r) : y \in Output /\ r[y] \in 0 .. Capacity /\ r[y] > 0
      /\ Capacity \in Nat
  BY CacheAssumption DEF Cached, Lists
<1>2. \A x \in Output : w[x] = IF x \in S THEN Cardinality(Above(r, S, x)) ELSE 0
  BY DEF Within
<1>3. w[o] = 0
  BY <1>1, <1>2
<1>4. \A x \in S : w[x] = Cardinality(Above(r, S, x)) /\ w[x] \in Nat /\ w[x] > 0
  <2> TAKE x \in S
  <2>1. x \in Cached(r) /\ x \in Output
    BY <1>1
  <2>2. IsFiniteSet(Above(r, S, x)) /\ Cardinality(Above(r, S, x)) \in Nat
    BY <2>1, <1>1, AbovePlaces
  <2>3. x \in Above(r, S, x)
    BY <2>1, <1>1 DEF Above, SameShard
  <2>4. Cardinality(Above(r, S, x)) # 0
    BY <2>2, <2>3, FS_EmptySet
  <2> QED
    BY <2>1, <2>2, <2>4, <1>2
<1>5. \A x \in S \cap SameShard(o) :
        Cardinality(Above(r, S \cup {o}, x)) = w[x] + 1 /\ w[x] < Capacity
  <2> TAKE x \in S \cap SameShard(o)
  <2>1. Cardinality(Above(r, S \cup {o}, x)) = Cardinality(Above(r, S, x)) + 1
    BY AboveGrows
  <2>2. Cardinality(Above(r, S \cup {o}, x)) \in 0 .. r[x]
    BY AbovePlaces
  <2>3. r[x] \in 0 .. Capacity /\ w[x] \in Nat /\ w[x] = Cardinality(Above(r, S, x))
    BY <1>1, <1>4
  <2> QED
    BY <2>1, <2>2, <2>3, <1>1
<1> HIDE DEF w
<1>6. ASSUME NEW x \in Output
      PROVE  Put(w, o)[x] = IF x = o THEN 1
                            ELSE IF x \in S \cap SameShard(o) THEN w[x] + 1
                            ELSE w[x]
  <2>1. CASE x = o
    BY <2>1 DEF Put
  <2>2. CASE x # o /\ x \in S \cap SameShard(o)
    BY <2>2, <1>3, <1>4, <1>5 DEF Put
  <2>3. CASE x # o /\ x \notin S \cap SameShard(o)
    <3>1. ~ (x \in SameShard(o) /\ w[x] > 0)
      BY <2>3, <1>2
    <3> QED
      BY <2>3, <3>1 DEF Put
  <2> QED
    BY <2>1, <2>2, <2>3
<1>7. ASSUME NEW x \in Output PROVE Put(w, o)[x] = Within(r, S \cup {o})[x]
  <2>1. Within(r, S \cup {o})[x] = IF x \in S \cup {o} THEN Cardinality(Above(r, S \cup {o}, x)) ELSE 0
    BY DEF Within
  <2>2. CASE x = o
    BY <2>1, <2>2, <1>6, AboveGrows
  <2>3. CASE x \in S \cap SameShard(o) /\ x # o
    BY <2>1, <2>3, <1>5, <1>6
  <2>4. CASE x \in S /\ x \notin SameShard(o) /\ x # o
    <3>1. Above(r, S \cup {o}, x) = Above(r, S, x)
      BY <2>4, AboveGrows
    <3> QED
      BY <2>1, <2>4, <3>1, <1>2, <1>6
  <2>5. CASE x \notin S /\ x # o
    BY <2>1, <2>5, <1>2, <1>6
  <2> QED
    BY <2>2, <2>3, <2>4, <2>5
<1>8. Put(w, o) = [x \in Output |-> Put(w, o)[x]] /\ Within(r, S \cup {o}) = [x \in Output |-> Within(r, S \cup {o})[x]]
  BY DEF Put, Within
<1> QED
  BY <1>7, <1>8 DEF w

\* A cache is restored as it was when it was saved.
LEMMA RestoredSame == ASSUME NEW r \in Lists PROVE Restored(Listed(r)) = r
<1> DEFINE e == Listed(r)
           n == Len(e)
           q == Reverse(e)
           upto(k) == {q[i] : i \in 1 .. k}
<1>1. /\ e \in Seq(Output) /\ ToSet(e) = Cached(r) /\ n \in Nat
      /\ \A i, j \in 1 .. n : i < j => <<e[i], e[j]>> \in ByRecency(r)
  BY ListedFacts
<1>2. Restored(e) = FoldLeft(Put, EmptyCache, q)
  BY DEF Restored
<1> HIDE DEF e
<1>3. /\ q \in Seq(Output) /\ Len(q) = n /\ ToSet(q) = Cached(r)
      /\ \A i \in 1 .. n : q[i] = e[n - i + 1] /\ n - i + 1 \in 1 .. n
  BY <1>1, ReversedFacts
<1>4. \A i, j \in 1 .. n : i < j => <<q[j], q[i]>> \in ByRecency(r)
  <2> SUFFICES ASSUME NEW i \in 1 .. n, NEW j \in 1 .. n, i < j
               PROVE  <<q[j], q[i]>> \in ByRecency(r)
    OBVIOUS
  <2>1. n - j + 1 < n - i + 1
    BY <1>1
  <2> QED
    BY <2>1, <1>1, <1>3
<1> HIDE DEF q, n
<1>5. upto(n) = Cached(r) /\ \A i \in 1 .. n : q[i] \in Cached(r)
  BY <1>3 DEF ToSet
<1>6. PICK h : PutRun(h, Lists, EmptyCache, q, FoldLeft(Put, EmptyCache, q))
  BY <1>3, EmptyLists, PutKeepsLists, PutAll
<1>7. /\ h \in [0 .. n -> Lists] /\ h[0] = EmptyCache /\ h[n] = FoldLeft(Put, EmptyCache, q)
      /\ \A i \in 1 .. n : h[i] = Put(h[i - 1], q[i])
  BY <1>3, <1>6 DEF PutRun
<1> DEFINE T == {k \in 0 .. n : h[k] = Within(r, upto(k))}
<1>8. \A k \in 0 .. n : k \in T
  <2>1. 0 \in T
    <3>1. upto(0) = {}
      OBVIOUS
    <3>2. Within(r, {}) = EmptyCache
      BY DEF Within, EmptyCache
    <3> QED
      BY <3>1, <3>2, <1>1, <1>7
  <2>2. ASSUME NEW k \in 1 .. n, k - 1 \in T PROVE k \in T
    <3>1. h[k] = Put(Within(r, upto(k - 1)), q[k]) /\ k \in 0 .. n
      BY <2>2, <1>1, <1>7
    <3>2. upto(k) = upto(k - 1) \cup {q[k]}
      <4>1. \A j : j \in 1 .. k <=> j \in 1 .. k - 1 \/ j = k
        BY <1>1
      <4> QED
        BY <4>1
    <3>3. \A j \in 1 .. k - 1 : j \in 1 .. n /\ j < k
      BY <1>1
    <3>4. upto(k - 1) \in SUBSET Cached(r) /\ q[k] \in Cached(r)
      BY <3>3, <1>5
    <3>5. ASSUME NEW y \in upto(k - 1)
          PROVE  y # q[k] /\ (y \in SameShard(q[k]) => r[q[k]] < r[y])
      <4>1. PICK j \in 1 .. k - 1 : y = q[j]
        OBVIOUS
      <4>2. <<q[k], y>> \in ByRecency(r)
        BY <4>1, <3>3, <1>4
      <4>3. q[k] \in Cached(r) /\ y \in Cached(r)
        BY <3>4
      <4>4. Shard[q[k]] < Shard[y] \/ (Shard[q[k]] = Shard[y] /\ r[q[k]] < r[y])
        BY <4>2 DEF ByRecency
      <4>5. Shard[q[k]] \in Nat /\ Shard[y] \in Nat /\ r[y] \in Nat
        BY <4>3, StreamAssumption DEF Cached, Lists
      <4> QED
        BY <4>4, <4>5 DEF SameShard
    <3> DEFINE S == upto(k - 1)
               o == q[k]
    <3> HIDE DEF S, o, upto
    <3>6. S \in SUBSET Cached(r) /\ o \in Cached(r) /\ o \notin S /\ \A y \in S \cap SameShard(o) : r[o] < r[y]
      BY <3>4, <3>5 DEF S, o
    <3>7. Put(Within(r, S), o) = Within(r, S \cup {o})
      BY <3>6, PutWithin
    <3> QED
      BY <3>1, <3>2, <3>7 DEF S, o
  <2> HIDE DEF T
  <2> QED
    BY <2>1, <2>2, <1>1, Stepwise
<1>9. h[n] = Within(r, Cached(r))
  <2>1. n \in T
    <3> HIDE DEF T
    <3> QED
      BY <1>1, <1>8 DEF n
  <2> QED
    BY <2>1, <1>5
<1>10. Within(r, Cached(r)) = r
  <2>1. r = [x \in Output |-> r[x]]
    BY DEF Lists
  <2>2. ASSUME NEW x \in Output PROVE Within(r, Cached(r))[x] = r[x]
    <3>1. CASE x \in Cached(r)
      BY <3>1, AbovePlaces DEF Within
    <3>2. CASE x \notin Cached(r)
      <4>1. r[x] = 0
        BY <3>2, CacheAssumption DEF Cached, Lists
      <4> QED
        BY <4>1, <3>2 DEF Within
    <3> QED
      BY <3>1, <3>2
  <2> QED
    BY <2>1, <2>2 DEF Within
<1> QED
  BY <1>2, <1>7, <1>9, <1>10 DEF e

-----------------------------------------------------------------------------
(* The cache of the process *)

\* What a snapshot file holds: the entries of some cache.
Snapshot(f) == f.known \subseteq Output /\ \E r \in Lists : f.entries = Listed(r)

CacheInv ==
  /\ cache \in Lists /\ known \subseteq Output
  /\ Len(batch) <= ReadAhead
  /\ Snapshot(file)
  /\ pc = "rename" => Snapshot(temp)

\* What a record's block creates and spends are outputs.
LEMMA RecordOutputs ==
  ASSUME NEW e \in Entries
  PROVE  /\ CreatedBy(e) \in Seq(Output) /\ ToSet(CreatedBy(e)) \subseteq Output
         /\ SpentBy(e) \subseteq Output
<1>1. e.height \in Heights
  BY EntryFacts
<1>2. Creates[e.height] \in Seq(Output) /\ Spends[e.height] \subseteq Output
  BY <1>1, StreamAssumption
<1>3. <<>> \in Seq(Output)
  OBVIOUS
<1>4. CreatedBy(e) \in Seq(Output) /\ SpentBy(e) \subseteq Output
  BY <1>2, <1>3 DEF CreatedBy, SpentBy
<1>5. ASSUME NEW q \in Seq(Output) PROVE ToSet(q) \subseteq Output
  BY DEF ToSet
<1> QED
  BY <1>4, <1>5

\* What a chunk looks up, creates and spends.
LEMMA ChunkOutputs ==
  ASSUME NEW chunk \in Seq(Entries)
  PROVE  /\ OutputsOf(chunk) \in Seq(Output)
         /\ ToSet(OutputsOf(chunk)) = UNION {ToSet(CreatedBy(chunk[i])) : i \in 1 .. Len(chunk)}
         /\ InputsOf(chunk) \subseteq Output /\ IsFiniteSet(InputsOf(chunk))
<1> DEFINE n == Len(chunk)
           seqs == [i \in 1 .. n |-> CreatedBy(chunk[i])]
<1>1. n \in Nat /\ \A i \in 1 .. n : chunk[i] \in Entries
  OBVIOUS
<1>2. \A i \in 1 .. n : CreatedBy(chunk[i]) \in Seq(Output) /\ SpentBy(chunk[i]) \subseteq Output
  BY <1>1, RecordOutputs
<1>3. seqs \in Seq(Seq(Output)) /\ Len(seqs) = n /\ \A i \in 1 .. n : seqs[i] = CreatedBy(chunk[i])
  BY <1>1, <1>2
<1>4. OutputsOf(chunk) = FlattenSeq(seqs)
  BY DEF OutputsOf
<1> HIDE DEF seqs
<1>5. FlattenSeq(seqs) \in Seq(Output) /\ ToSet(FlattenSeq(seqs)) = UNION {ToSet(seqs[i]) : i \in 1 .. Len(seqs)}
  BY <1>3, FlatFacts
<1>6. \A x : x \in UNION {ToSet(seqs[i]) : i \in 1 .. Len(seqs)}
               <=> x \in UNION {ToSet(CreatedBy(chunk[i])) : i \in 1 .. n}
  BY <1>3
<1>7. InputsOf(chunk) \subseteq Output
  BY <1>2 DEF InputsOf
<1>8. IsFiniteSet(InputsOf(chunk))
  BY <1>7, CacheAssumption, FS_Subset
<1> QED
  BY <1>4, <1>5, <1>6, <1>7, <1>8

\* The cache that a chunk leaves holds nothing new but what was looked up and
\* what the chunk creates.
LEMMA ChunkCaches ==
  ASSUME cache \in Lists, NEW chunk \in Seq(Entries)
  PROVE  /\ Created(chunk) \in Lists
         /\ Cached(Created(chunk)) \subseteq Cached(cache) \cup Misses(chunk) \cup ToSet(OutputsOf(chunk))
         /\ Spent(Created(chunk), chunk) \in Lists
         /\ Cached(Spent(Created(chunk), chunk)) = Cached(Created(chunk)) \ InputsOf(chunk)
<1> DEFINE hits == InputsOf(chunk) \cap Cached(cache)
           inputs == SetToSeq(InputsOf(chunk))
           first == FoldLeft(Touch, cache, SetToSeq(hits))
           second == FoldLeft(Put, first, SetToSeq(Misses(chunk)))
           third == FoldLeft(Put, second, OutputsOf(chunk))
<1>1. /\ OutputsOf(chunk) \in Seq(Output)
      /\ InputsOf(chunk) \subseteq Output /\ IsFiniteSet(InputsOf(chunk))
  BY ChunkOutputs
<1>2. ASSUME NEW S, S \subseteq InputsOf(chunk)
      PROVE  SetToSeq(S) \in Seq(Output) /\ ToSet(SetToSeq(S)) = S
  <2>1. IsFiniteSet(S)
    BY <1>1, <1>2, FS_Subset
  <2>2. SetToSeq(S) \in Seq(S) /\ ToSet(SetToSeq(S)) = S
    BY <2>1, SetInSequence
  <2>3. S \subseteq Output
    BY <1>1, <1>2
  <2> QED
    BY <2>2, <2>3
<1>3. SetToSeq(hits) \in Seq(Output)
  BY <1>2
<1>4. Misses(chunk) \subseteq InputsOf(chunk)
  BY DEF Misses
<1>5. SetToSeq(Misses(chunk)) \in Seq(Output) /\ ToSet(SetToSeq(Misses(chunk))) = Misses(chunk)
  BY <1>2, <1>4
<1>6. inputs \in Seq(Output) /\ ToSet(inputs) = InputsOf(chunk)
  BY <1>2
<1>7. Created(chunk) = third
  BY DEF Created
<1>8. Spent(Created(chunk), chunk) = FoldLeft(Pop, Created(chunk), inputs)
  BY DEF Spent
<1>9. first \in Lists /\ Cached(first) = Cached(cache)
  <2> HIDE DEF hits
  <2> QED
    BY <1>3, TouchAllCaches
<1> HIDE DEF first
<1>10. second \in Lists /\ Cached(second) \subseteq Cached(first) \cup Misses(chunk)
  BY <1>5, <1>9, PutAllCaches
<1> HIDE DEF second
<1>11. third \in Lists /\ Cached(third) \subseteq Cached(second) \cup ToSet(OutputsOf(chunk))
  BY <1>1, <1>10, PutAllCaches
<1> HIDE DEF third, inputs
<1>12. Created(chunk) \in Lists
  BY <1>7, <1>11
<1>13. /\ FoldLeft(Pop, Created(chunk), inputs) \in Lists
       /\ Cached(FoldLeft(Pop, Created(chunk), inputs)) = Cached(Created(chunk)) \ ToSet(inputs)
  BY <1>6, <1>12, PopAllCaches
<1> QED
  BY <1>6, <1>7, <1>8, <1>9, <1>10, <1>11, <1>13

\* The block that pre-warming loads is one of the index.
LEMMA PrewarmWalk ==
  ASSUME StreamInv, CacheInv, PrewarmBlock
  PROVE  /\ pc = "prewarm" /\ WalkAt \in Heights /\ index'[WalkAt] \in Entries
         /\ WalkAt \in DOMAIN index' /\ index' = WithHeight(WalkAt)
         /\ LET w == FoldLeft(InsertPrewarm, [r |-> cache, in |-> {}, ok |-> TRUE],
                              CreatedBy(index'[WalkAt]))
            IN /\ cache' = w.r /\ w.r \in Lists
               /\ known' = (known \ w.in) \cup (w.in \ PubKey)
               /\ prewarmed' = prewarmed \cup w.in
               /\ w.in \subseteq ToSet(CreatedBy(index'[WalkAt]))
               /\ Cached(cache) \subseteq Cached(w.r)
               /\ Cached(w.r) \subseteq Cached(cache) \cup w.in
<1> DEFINE q == CreatedBy(index'[WalkAt])
           w == FoldLeft(InsertPrewarm, [r |-> cache, in |-> {}, ok |-> TRUE], q)
<1>1. /\ pc = "prewarm" /\ WalkAt \in DOMAIN index' /\ index' = WithHeight(WalkAt)
      /\ cache' = w.r /\ known' = (known \ w.in) \cup (w.in \ PubKey)
      /\ prewarmed' = prewarmed \cup w.in
  BY DEF PrewarmBlock, Walks
<1>2. IndexSound(index')
  BY NextInv DEF StreamInv, LoopInv, Next, Process
<1>3. index'[WalkAt] \in Entries /\ WalkAt \in Heights
  BY <1>1, <1>2, EntryFacts DEF IndexSound
<1>4. q \in Seq(Output)
  BY <1>3, RecordOutputs
<1> HIDE DEF q
<1>5. /\ w.r \in Lists /\ w.in \subseteq ToSet(q)
      /\ Cached(cache) \subseteq Cached(w.r) /\ Cached(w.r) \subseteq Cached(cache) \cup w.in
  <2>1. cache \in Lists
    BY DEF CacheInv
  <2> QED
    BY <1>4, <2>1, PrewarmAllCaches
<1> QED
  BY <1>1, <1>3, <1>5 DEF q

\* What the process knows is gone when it stops.
LEMMA CacheGone ==
  ASSUME CacheInv, Gone, Snapshot(file)'
  PROVE  CacheInv'
<1>1. /\ pc' = "down" /\ batch' = <<>> /\ cache' = EmptyCache /\ known' = {}
  BY DEF Gone
<1>2. Len(batch') = 0 /\ 0 <= ReadAhead
  BY <1>1, StreamAssumption
<1> QED
  BY <1>1, <1>2, EmptyLists DEF CacheInv

\* Every step keeps the lists of the cache and of the file in order.
LEMMA CacheNextInv == StreamInv /\ CacheInv /\ [Next]_vars => CacheInv'
<1> SUFFICES ASSUME StreamInv, CacheInv, [Next]_vars PROVE CacheInv'
  OBVIOUS
<1>0. /\ cache \in Lists /\ known \subseteq Output /\ Len(batch) <= ReadAhead /\ Snapshot(file)
      /\ pc = "rename" => Snapshot(temp)
      /\ batch \in Seq(Entries) /\ Len(batch) \in Nat /\ ReadAhead \in Nat
  BY StreamAssumption DEF CacheInv, StreamInv, LoopInv
<1>1. CASE Ingest \/ Resume \/ BeginPrewarm \/ EndPrewarm \/ Preload \/ EndLoop \/ BeginSave
  <2>1. pc' # "rename" /\ UNCHANGED <<cache, known, batch, file>>
    BY <1>1 DEF Ingest, Resume, Launched, BeginPrewarm, EndPrewarm, Preload, EndLoop, BeginSave,
                cacheVars, disk
  <2> QED
    BY <2>1, <1>0 DEF CacheInv, Snapshot
<1>2. CASE Restore
  <2>1. pc' # "rename" /\ UNCHANGED <<batch, file>>
    BY <1>2 DEF Restore, disk
  <2>2. CASE file.whole
    <3>1. cache' = Restored(file.entries) /\ known' = file.known
      BY <1>2, <2>2 DEF Restore
    <3>2. PICK r \in Lists : file.entries = Listed(r)
      BY <1>0 DEF Snapshot
    <3>3. cache' \in Lists /\ known' \subseteq Output
      BY <3>1, <3>2, <1>0, RestoredCaches DEF Snapshot
    <3> QED
      BY <2>1, <3>3, <1>0 DEF CacheInv, Snapshot
  <2>3. CASE ~ file.whole
    BY <1>2, <2>1, <2>3, <1>0 DEF Restore, cacheVars, CacheInv, Snapshot
  <2> QED
    BY <2>2, <2>3
<1>3. CASE PrewarmBlock
  <2>1. pc' # "rename" /\ UNCHANGED <<batch, file>>
    BY <1>3 DEF PrewarmBlock, disk
  <2>2. cache' \in Lists /\ known' \subseteq Output
    <3> DEFINE q == CreatedBy(index'[WalkAt])
               w == FoldLeft(InsertPrewarm, [r |-> cache, in |-> {}, ok |-> TRUE], q)
    <3>1. /\ cache' = w.r /\ w.r \in Lists /\ index'[WalkAt] \in Entries
          /\ known' = (known \ w.in) \cup (w.in \ PubKey) /\ w.in \subseteq ToSet(q)
      BY <1>3, PrewarmWalk
    <3>2. ToSet(q) \subseteq Output
      BY <3>1, RecordOutputs
    <3> HIDE DEF w, q
    <3> QED
      BY <3>1, <3>2, <1>0
  <2> QED
    BY <2>1, <2>2, <1>0 DEF CacheInv, Snapshot
<1>4. CASE Load
  <2>1. /\ pc = "load" /\ pc' # "rename" /\ UNCHANGED <<cache, known, file>>
        /\ batch' = Append(batch, index'[height])
    BY <1>4 DEF Load, Loads, cacheVars, disk
  <2>2. Len(batch) < ReadAhead
    BY <2>1 DEF StreamInv, LoopInv
  <2>3. Len(batch') = Len(batch) + 1
    BY <2>1, <1>0
  <2> QED
    BY <2>1, <2>2, <2>3, <1>0 DEF CacheInv, Snapshot
<1>5. CASE \E chunk \in NextChunks : IngestChunk(chunk)
  <2>1. PICK chunk \in NextChunks : IngestChunk(chunk)
    BY <1>5
  <2>2. /\ pc = "ingest" /\ Valid(chunk) /\ pc' # "rename" /\ file' = file
        /\ cache' = Spent(Created(chunk), chunk)
        /\ known' = (known \cup Misses(chunk) \cup ToSet(OutputsOf(chunk))) \cap Cached(cache')
        /\ batch' = SubSeq(batch, Len(chunk) + 1, Len(batch))
    BY <2>1 DEF IngestChunk, disk
  <2>3. chunk \in Seq(Entries) /\ Len(chunk) \in 1 .. Len(batch)
    BY <2>2, ChunkShape DEF StreamInv
  <2>4. cache' \in Lists
    BY <2>2, <2>3, <1>0, ChunkCaches
  <2>5. known' \subseteq Output
    BY <2>2 DEF Cached
  <2>6. Len(batch') <= ReadAhead
    <3>1. Len(batch') = Len(batch) - Len(chunk)
      BY <2>2, <2>3, <1>0
    <3> QED
      BY <3>1, <2>3, <1>0
  <2> QED
    BY <2>2, <2>4, <2>5, <2>6, <1>0 DEF CacheInv, Snapshot
<1>6. CASE \/ LoadFails \/ ReadFails \/ Crash \/ \E chunk \in NextChunks : ChunkRefused(chunk)
           \/ \E chunk \in NextChunks : CommitFails(chunk)
  <2>1. Gone /\ file' = file
    BY <1>6 DEF LoadFails, ReadFails, Crash, ChunkRefused, CommitFails, Stop, disk
  <2>2. Snapshot(file)'
    BY <2>1, <1>0 DEF Snapshot
  <2> QED
    BY <2>1, <2>2, CacheGone
<1>7. CASE FinishWriting
  <2>1. /\ UNCHANGED <<cache, known, batch, file>>
        /\ temp' = [whole |-> TRUE, entries |-> Listed(cache), known |-> known, height |-> label]
    BY <1>7 DEF FinishWriting, cacheVars
  <2>2. Snapshot(temp)'
    BY <2>1, <1>0 DEF Snapshot
  <2> QED
    BY <2>1, <2>2, <1>0 DEF CacheInv, Snapshot
<1>8. CASE Rename \/ SaveFails
  <2>1. AfterSave /\ (file' = file \/ (file' = temp /\ pc = "rename"))
    BY <1>8 DEF Rename, SaveFails, disk
  <2>2. Snapshot(file)'
    BY <2>1, <1>0 DEF Snapshot
  <2>3. known' \subseteq Output
    BY <1>8, <1>0 DEF Rename, SaveFails, AfterSave, Gone, cacheVars
  <2>4. CASE ending
    BY <2>1, <2>2, <2>4, CacheGone DEF AfterSave
  <2>5. CASE ~ ending
    <3>1. pc' # "rename" /\ UNCHANGED <<batch, cache>>
      BY <2>1, <2>5 DEF AfterSave, cacheVars
    <3> QED
      BY <2>2, <2>3, <3>1, <1>0 DEF CacheInv
  <2> QED
    BY <2>4, <2>5
<1>9. CASE UNCHANGED vars
  <2>1. UNCHANGED <<pc, cache, known, batch, file, temp>>
    BY <1>9 DEF vars, cacheVars, disk
  <2> QED
    BY <2>1, <1>0 DEF CacheInv, Snapshot
<1> QED
  BY <1>1, <1>2, <1>3, <1>4, <1>5, <1>6, <1>7, <1>8, <1>9 DEF Next, Process, Faults

\* The first cache is lists, and the file has none.
LEMMA CacheInitInv == Init => CacheInv
<1> SUFFICES ASSUME Init PROVE CacheInv
  OBVIOUS
<1>1. cache = EmptyCache /\ known = {} /\ batch = <<>> /\ file = NoFile /\ pc = "down"
  BY DEF Init
<1>2. Len(batch) = 0 /\ 0 <= ReadAhead
  BY <1>1, StreamAssumption
<1>3. Snapshot(file)
  BY <1>1, EmptyLists, EmptyListed DEF Snapshot, NoFile
<1> QED
  BY <1>1, <1>2, <1>3, EmptyLists DEF CacheInv

\* The cache and its snapshot are recency lists in every reachable state.
THEOREM CacheInvariant == Spec => [](StreamInv /\ CacheInv)
<1>1. Init => StreamInv /\ CacheInv
  BY InitInv, CacheInitInv
<1>2. StreamInv /\ CacheInv /\ [Next]_vars => (StreamInv /\ CacheInv)'
  BY NextInv, CacheNextInv
<1> QED
  BY <1>1, <1>2, PTL DEF Spec

\* Pre-warming only fills what is free of a shard.
THEOREM PrewarmEvictsNothing == Spec => PrewarmNeverEvicts
<1>1. ASSUME StreamInv, CacheInv, [Next]_vars
      PROVE  [pc = "prewarm" /\ pc' # "down" => Cached(cache) \subseteq Cached(cache')]_vars
  <2> SUFFICES ASSUME Next, pc = "prewarm", pc' # "down"
               PROVE  Cached(cache) \subseteq Cached(cache')
    BY <1>1
  <2>1. CASE PrewarmBlock
    BY <2>1, <1>1, PrewarmWalk
  <2>2. CASE EndPrewarm
    BY <2>2 DEF EndPrewarm, cacheVars
  <2>3. CASE LoadFails \/ ReadFails \/ Crash
    BY <2>3 DEF LoadFails, ReadFails, Crash, Stop, Gone
  <2> QED
    BY <2>1, <2>2, <2>3
    DEF Next, Process, Faults, Ingest, Resume, Restore, BeginPrewarm, Preload, Load, Loads, EndLoop,
        IngestChunk, ChunkRefused, CommitFails, BeginSave, FinishWriting, Rename, SaveFails
<1> QED
  BY <1>1, CacheInvariant, PTL DEF Spec, PrewarmNeverEvicts

\* A restart changes neither what is cached nor what falls out next: the cache
\* that is restored is the one that was saved.
THEOREM RestoreIsFaithful == Spec => RestoreKeepsRecency
<1>1. ASSUME StreamInv, CacheInv, [Next]_vars
      PROVE  [pc = "restore" /\ pc' # "down" => Listed(cache') = file.entries]_vars
  <2> SUFFICES ASSUME Next, pc = "restore", pc' # "down"
               PROVE  Listed(cache') = file.entries
    BY <1>1
  <2>1. CASE Restore
    <3>1. cache' = Restored(file.entries)
      BY <2>1, <1>1 DEF Restore, StreamInv, FileInv
    <3>2. PICK r \in Lists : file.entries = Listed(r)
      BY <1>1 DEF CacheInv, Snapshot
    <3> QED
      BY <3>1, <3>2, RestoredSame
  <2>2. CASE Crash
    BY <2>2 DEF Crash, Gone
  <2> QED
    BY <2>1, <2>2
    DEF Next, Process, Faults, Ingest, Resume, BeginPrewarm, PrewarmBlock, EndPrewarm, Walks, Preload,
        Load, Loads, LoadFails, ReadFails, EndLoop, IngestChunk, ChunkRefused, CommitFails,
        BeginSave, FinishWriting, Rename, SaveFails
<1> QED
  BY <1>1, CacheInvariant, PTL DEF Spec, RestoreKeepsRecency

\* The store ends at the checkpoint, the cache keeps within its shards, and a
\* batch is what lies between the checkpoint and the loop's height.
THEOREM StreamTypesOK == Spec => []StreamTypeOK
<1>1. ASSUME StreamInv, CacheInv, RecordInv PROVE StreamTypeOK
  <2>1. checkpoint = None \/ checkpoint = MaxStored
    BY <1>1, CheckpointIsTop DEF StreamInv
  <2>2. \A h \in Heights : stored[h] # None => stored[h] \in Entries /\ stored[h].height = h
    BY <1>1 DEF StreamInv, StoreInv, RecordInv
  <2>3. known \subseteq Output /\ Len(batch) <= ReadAhead /\ \A o \in Output : cache[o] \in 0 .. Capacity
    BY <1>1 DEF CacheInv, Lists
  <2>4. \A i \in 1 .. Len(batch) : batch[i].height = height - Len(batch) + i - 1
    BY <1>1 DEF StreamInv, LoopInv
  <2> QED
    BY <2>1, <2>2, <2>3, <2>4 DEF StreamTypeOK
<1> QED
  BY <1>1, CacheInvariant, RecordInvariant, PTL

-----------------------------------------------------------------------------
(* What is in the snapshot *)

\* The ways in which a step changes what is cached.
CacheStep ==
  \/ cache' = cache /\ known' = known
  \/ Cached(cache') = {} /\ known' = {}
  \/ Cached(cache') \subseteq ToSet(file.entries) /\ known' = file.known
  \/ PrewarmBlock
  \/ \E chunk \in NextChunks : IngestChunk(chunk)

\* A snapshot is renamed to the file, and is written from the cache.
FileStep ==
  /\ file' = file \/ (pc = "rename" /\ file' = temp)
  /\ pc' = "rename" => \/ pc = "rename" /\ temp' = temp
                       \/ ToSet(temp'.entries) = Cached(cache) /\ temp'.known = known

\* Every step is one of them.
LEMMA CacheSteps ==
  ASSUME StreamInv, CacheInv, [Next]_vars
  PROVE  CacheStep /\ FileStep
<1>0. Cached(EmptyCache) = {}
  BY DEF Cached, EmptyCache
<1>1. CASE Ingest \/ Resume \/ BeginPrewarm \/ EndPrewarm \/ Preload \/ Load \/ EndLoop \/ BeginSave
  <2>1. pc' # "rename" /\ UNCHANGED <<cache, known, file>>
    BY <1>1 DEF Ingest, Resume, Launched, BeginPrewarm, EndPrewarm, Preload, Load, EndLoop, BeginSave,
                cacheVars, disk
  <2> QED
    BY <2>1 DEF CacheStep, FileStep
<1>2. CASE Restore
  <2>1. pc' # "rename" /\ file' = file
    BY <1>2 DEF Restore, disk
  <2>2. CASE file.whole
    <3>1. cache' = Restored(file.entries) /\ known' = file.known
      BY <1>2, <2>2 DEF Restore
    <3>2. PICK r \in Lists : file.entries = Listed(r)
      BY DEF CacheInv, Snapshot
    <3> QED
      BY <2>1, <3>1, <3>2, RestoredCaches DEF CacheStep, FileStep
  <2>3. CASE ~ file.whole
    BY <1>2, <2>1, <2>3 DEF Restore, cacheVars, CacheStep, FileStep
  <2> QED
    BY <2>2, <2>3
<1>3. CASE PrewarmBlock
  <2>1. pc' # "rename" /\ file' = file
    BY <1>3 DEF PrewarmBlock, disk
  <2> QED
    BY <1>3, <2>1 DEF CacheStep, FileStep
<1>4. CASE \E chunk \in NextChunks : IngestChunk(chunk)
  <2>1. pc' # "rename" /\ file' = file
    BY <1>4 DEF IngestChunk, disk
  <2> QED
    BY <1>4, <2>1 DEF CacheStep, FileStep
<1>5. CASE \/ LoadFails \/ ReadFails \/ Crash
           \/ \E chunk \in NextChunks : ChunkRefused(chunk) \/ CommitFails(chunk)
  <2>1. Gone /\ file' = file
    BY <1>5 DEF LoadFails, ReadFails, Crash, ChunkRefused, CommitFails, Stop, disk
  <2> QED
    BY <2>1, <1>0 DEF Gone, CacheStep, FileStep
<1>6. CASE FinishWriting
  <2>1. UNCHANGED <<cache, known, file>> /\ temp'.entries = Listed(cache) /\ temp'.known = known
    BY <1>6 DEF FinishWriting, cacheVars
  <2>2. ToSet(Listed(cache)) = Cached(cache)
    BY ListedFacts DEF CacheInv
  <2> QED
    BY <2>1, <2>2 DEF CacheStep, FileStep
<1>7. CASE Rename \/ SaveFails
  <2>1. AfterSave /\ (file' = file \/ (file' = temp /\ pc = "rename"))
    BY <1>7 DEF Rename, SaveFails, disk
  <2>2. pc' # "rename"
    BY <2>1 DEF AfterSave, Gone
  <2>3. (cache' = cache /\ known' = known) \/ (Cached(cache') = {} /\ known' = {})
    BY <1>0, <1>7 DEF Rename, SaveFails, AfterSave, Gone, cacheVars
  <2> QED
    BY <2>1, <2>2, <2>3 DEF CacheStep, FileStep
<1>8. CASE UNCHANGED vars
  BY <1>8 DEF vars, cacheVars, disk, CacheStep, FileStep
<1> QED
  BY <1>1, <1>2, <1>3, <1>4, <1>5, <1>6, <1>7, <1>8 DEF Next, Process, Faults

\* Outputs that the graph has; or where the index is ambiguous that pre-warming
\* has read.
Backed(S) == S \subseteq InGraph \cup prewarmed /\ (Clean => S \subseteq InGraph)

SnapshotInv ==
  /\ Backed(Cached(cache))
  /\ Backed(ToSet(file.entries))
  /\ pc = "rename" => Backed(ToSet(temp.entries))

\* The graph only gains outputs.
LEMMA GraphGrows ==
  ASSUME StreamInv, [Next]_vars
  PROVE  InGraph \subseteq InGraph' /\ prewarmed \subseteq prewarmed' /\ (Clean' <=> Clean)
<1>1. \A h \in Heights : stored[h] # None => stored'[h] = stored[h]
  BY StepStores
<1>2. ASSUME NEW h \in StoredHeights
      PROVE  h \in StoredHeights' /\ stored'[h] = stored[h]
  BY <1>1 DEF StoredHeights
<1>3. InGraph \subseteq InGraph'
  <2> SUFFICES ASSUME NEW h \in StoredHeights, NEW o \in ToSet(CreatedBy(stored[h]))
               PROVE  o \in InGraph'
    BY DEF InGraph
  <2>1. h \in StoredHeights' /\ o \in ToSet(CreatedBy(stored'[h]))
    BY <1>2
  <2> QED
    BY <2>1 DEF InGraph
<1> QED
  BY <1>3, Histories DEF Clean

\* What a chunk creates is in the graph once it is committed.
LEMMA ChunkInGraph ==
  ASSUME StreamInv, pc = "ingest", NEW chunk \in NextChunks, Valid(chunk), Stored(chunk)
  PROVE  InGraph' = InGraph \cup ToSet(OutputsOf(chunk))
<1> DEFINE n == Len(chunk)
<1>1. /\ chunk \in Seq(Entries) /\ n \in 1 .. Len(batch) /\ Len(batch) \in Nat
      /\ checkpoint \in -1 .. Tip /\ Tip \in Nat
      /\ FirstOf(chunk) = checkpoint + 1 /\ LastOf(chunk) = checkpoint + n /\ LastOf(chunk) \in Heights
      /\ \A i \in 1 .. n : chunk[i] \in Entries
  BY ChunkShape, IndexAssumption DEF StreamInv, LoopInv
<1>2. ToSet(OutputsOf(chunk)) = UNION {ToSet(CreatedBy(chunk[i])) : i \in 1 .. n}
  BY <1>1, ChunkOutputs
<1>3. stored' = [h \in Heights |-> IF h \in checkpoint + 1 .. checkpoint + n
                                   THEN chunk[h - (checkpoint + 1) + 1] ELSE stored[h]]
  BY <1>1 DEF Stored
<1> HIDE DEF n
<1>4. n \in Nat /\ checkpoint \in Int /\ checkpoint + n \in Heights
  BY <1>1
<1>5. ASSUME NEW h \in Heights, h \in checkpoint + 1 .. checkpoint + n
      PROVE  /\ stored[h] = None /\ stored'[h] # None
             /\ h - checkpoint \in 1 .. n /\ stored'[h] = chunk[h - checkpoint]
  <2>1. h - (checkpoint + 1) + 1 = h - checkpoint /\ h - checkpoint \in 1 .. n /\ ~ (h <= checkpoint)
    BY <1>4, <1>5
  <2>2. stored'[h] = chunk[h - checkpoint] /\ stored'[h] # None
    BY <2>1, <1>1, <1>3, <1>5, EntryFacts
  <2>3. stored[h] = None
    BY <2>1 DEF StreamInv, StoreInv
  <2> QED
    BY <2>1, <2>2, <2>3
<1>6. ASSUME NEW h \in Heights, ~ (h \in checkpoint + 1 .. checkpoint + n)
      PROVE  stored'[h] = stored[h]
  BY <1>3, <1>6
<1>7. ASSUME NEW i \in 1 .. n
      PROVE  checkpoint + i \in StoredHeights' /\ stored'[checkpoint + i] = chunk[i]
  <2>1. /\ checkpoint + i \in Heights /\ checkpoint + i \in checkpoint + 1 .. checkpoint + n
        /\ (checkpoint + i) - checkpoint = i
    BY <1>1, <1>4 DEF Heights
  <2> QED
    BY <2>1, <1>5 DEF StoredHeights
<1>8. ASSUME NEW o \in InGraph' PROVE o \in InGraph \cup ToSet(OutputsOf(chunk))
  <2>1. PICK h \in StoredHeights' : o \in ToSet(CreatedBy(stored'[h]))
    BY <1>8 DEF InGraph
  <2>2. h \in Heights /\ stored'[h] # None
    BY <2>1 DEF StoredHeights
  <2>3. CASE h \in checkpoint + 1 .. checkpoint + n
    BY <2>1, <2>2, <2>3, <1>2, <1>5
  <2>4. CASE ~ (h \in checkpoint + 1 .. checkpoint + n)
    BY <2>1, <2>2, <2>4, <1>6 DEF InGraph, StoredHeights
  <2> QED
    BY <2>3, <2>4
<1>9. ASSUME NEW o \in ToSet(OutputsOf(chunk)) PROVE o \in InGraph'
  <2>1. PICK i \in 1 .. n : o \in ToSet(CreatedBy(chunk[i]))
    BY <1>2, <1>9
  <2>2. checkpoint + i \in StoredHeights' /\ stored'[checkpoint + i] = chunk[i]
    BY <1>7
  <2> QED
    BY <2>1, <2>2 DEF InGraph
<1>10. ASSUME NEW o \in InGraph PROVE o \in InGraph'
  <2>1. PICK h \in StoredHeights : o \in ToSet(CreatedBy(stored[h]))
    BY <1>10 DEF InGraph
  <2>2. h \in Heights /\ stored[h] # None
    BY <2>1 DEF StoredHeights
  <2>3. stored'[h] = stored[h]
    BY <2>2, <1>5, <1>6
  <2> QED
    BY <2>1, <2>2, <2>3 DEF InGraph, StoredHeights
<1> QED
  BY <1>8, <1>9, <1>10

\* The walk of pre-warming goes over blocks that are stored, and reads their
\* outputs if the index is unambiguous.
LEMMA WalkBacked ==
  ASSUME StreamInv, CacheInv, RecordInv, PrewarmBlock, Clean
  PROVE  ToSet(CreatedBy(index'[WalkAt])) \subseteq InGraph
<1>1. /\ pc = "prewarm" /\ WalkAt \in Heights /\ index'[WalkAt] \in Entries
      /\ WalkAt \in DOMAIN index' /\ index' = WithHeight(WalkAt)
  BY PrewarmWalk
<1>2. WalkAt \in Int
  BY <1>1 DEF Heights
<1>3. index'[WalkAt].main
  BY <1>1, <1>2, LoadedMain
<1>4. index'[WalkAt].height = WalkAt
  BY <1>1, <1>2, HeightLoaded DEF StreamInv, IndexSound
<1>5. /\ start \in Nat /\ walked \in Nat /\ height = start /\ batch = <<>> /\ Follows
      /\ checkpoint # None /\ checkpoint \in Int
  BY <1>1 DEF StreamInv, LoopInv, StoreInv, Early
<1>6. WalkAt <= checkpoint
  <2>1. Len(batch) = 0
    BY <1>5
  <2>2. start <= checkpoint + 1
    BY <2>1, <1>5 DEF Follows
  <2> QED
    BY <2>2, <1>5 DEF WalkAt
<1>7. stored[WalkAt] # None
  BY <1>1, <1>5, <1>6 DEF StreamInv, StoreInv
<1>8. stored[WalkAt].main /\ stored[WalkAt].height = WalkAt /\ WalkAt \in StoredHeights
  BY <1>1, <1>7 DEF RecordInv, StoredHeights
<1>9. CreatedBy(index'[WalkAt]) = CreatedBy(stored[WalkAt])
  BY <1>3, <1>4, <1>8 DEF CreatedBy
<1> QED
  BY <1>8, <1>9 DEF InGraph

\* What is cached or saved stays in the graph, step by step.
LEMMA SnapshotNextInv ==
  StreamInv /\ CacheInv /\ RecordInv /\ SnapshotInv /\ [Next]_vars => SnapshotInv'
<1> SUFFICES ASSUME StreamInv, CacheInv, RecordInv, SnapshotInv, [Next]_vars PROVE SnapshotInv'
  OBVIOUS
<1>1. InGraph \subseteq InGraph' /\ prewarmed \subseteq prewarmed' /\ (Clean' <=> Clean)
  BY GraphGrows
<1>2. Backed(Cached(cache)) /\ Backed(ToSet(file.entries)) /\ (pc = "rename" => Backed(ToSet(temp.entries)))
  BY DEF SnapshotInv
<1>3. CacheStep /\ FileStep
  BY CacheSteps
<1>4. Backed(Cached(cache))'
  <2>1. CASE cache' = cache
    BY <2>1, <1>1, <1>2 DEF Backed
  <2>2. CASE Cached(cache') = {}
    BY <2>2 DEF Backed
  <2>3. CASE Cached(cache') \subseteq ToSet(file.entries)
    BY <2>3, <1>1, <1>2 DEF Backed
  <2>4. CASE PrewarmBlock
    <3> DEFINE q == CreatedBy(index'[WalkAt])
               w == FoldLeft(InsertPrewarm, [r |-> cache, in |-> {}, ok |-> TRUE], q)
    <3>1. /\ cache' = w.r /\ prewarmed' = prewarmed \cup w.in /\ w.in \subseteq ToSet(q)
          /\ Cached(w.r) \subseteq Cached(cache) \cup w.in
      BY <2>4, PrewarmWalk
    <3>2. Clean => ToSet(q) \subseteq InGraph
      BY <2>4, WalkBacked
    <3> HIDE DEF w, q
    <3> QED
      BY <3>1, <3>2, <1>1, <1>2 DEF Backed
  <2>5. CASE \E chunk \in NextChunks : IngestChunk(chunk)
    <3>1. PICK chunk \in NextChunks : IngestChunk(chunk)
      BY <2>5
    <3>2. pc = "ingest" /\ Valid(chunk) /\ Stored(chunk) /\ cache' = Spent(Created(chunk), chunk)
      BY <3>1 DEF IngestChunk
    <3>3. chunk \in Seq(Entries) /\ cache \in Lists
      BY <3>2, ChunkShape DEF StreamInv, CacheInv
    <3>4. Cached(cache') \subseteq Cached(cache) \cup Misses(chunk) \cup ToSet(OutputsOf(chunk))
      BY <3>2, <3>3, ChunkCaches
    <3>5. Misses(chunk) \subseteq InGraph
      BY DEF Misses
    <3>6. ToSet(OutputsOf(chunk)) \subseteq InGraph'
      BY <3>2, ChunkInGraph
    <3> QED
      BY <3>4, <3>5, <3>6, <1>1, <1>2 DEF Backed
  <2> QED
    BY <2>1, <2>2, <2>3, <2>4, <2>5, <1>3 DEF CacheStep
<1>5. Backed(ToSet(file.entries))'
  BY <1>1, <1>2, <1>3 DEF FileStep, Backed
<1>6. pc' = "rename" => Backed(ToSet(temp.entries))'
  BY <1>1, <1>2, <1>3 DEF FileStep, Backed
<1> QED
  BY <1>4, <1>5, <1>6 DEF SnapshotInv

\* Nothing is cached or saved at first.
LEMMA SnapshotInitInv == Init => SnapshotInv
<1> SUFFICES ASSUME Init PROVE SnapshotInv
  OBVIOUS
<1>1. Cached(cache) = {} /\ pc # "rename" /\ file.entries = <<>>
  BY DEF Init, Cached, EmptyCache, NoFile
<1>2. ToSet(file.entries) = {}
  <2>1. DOMAIN <<>> = {}
    OBVIOUS
  <2> QED
    BY <2>1, <1>1 DEF ToSet
<1> QED
  BY <1>1, <1>2 DEF SnapshotInv, Backed

\* Wherever a save was cut off, the snapshot can be read, and holds nothing but
\* outputs of the graph, at a height that the graph has reached.
THEOREM SnapshotIsUsable == Spec => []SnapshotUsable
<1>1. Init => StreamInv /\ CacheInv /\ RecordInv /\ SnapshotInv
  BY InitInv, CacheInitInv, RecordInitInv, SnapshotInitInv
<1>2. StreamInv /\ CacheInv /\ RecordInv /\ SnapshotInv /\ [Next]_vars =>
        (StreamInv /\ CacheInv /\ RecordInv /\ SnapshotInv)'
  BY NextInv, CacheNextInv, RecordNextInv, SnapshotNextInv
<1>3. ASSUME StreamInv, SnapshotInv PROVE SnapshotUsable
  <2>1. FileReadable
    BY <1>3, CheckpointIsTop DEF StreamInv, FileInv, FileReadable
  <2> QED
    BY <2>1, <1>3 DEF SnapshotInv, Backed, Clean, SnapshotUsable
<1> QED
  BY <1>1, <1>2, <1>3, PTL DEF Spec

-----------------------------------------------------------------------------
(* What is written of an output that is spent *)

\* Putting in no more outputs of a shard than it has places pushes none of them
\* out again.
LEMMA PutAllKeeps ==
  ASSUME NEW r \in Lists, NEW q \in Seq(Output),
         \A o \in Output : Cardinality(ToSet(q) \cap SameShard(o)) <= Capacity
  PROVE  ToSet(q) \subseteq Cached(FoldLeft(Put, r, q))
<1> DEFINE n == Len(q)
           upto(k) == {q[i] : i \in 1 .. k}
           in(k, x) == upto(k) \cap SameShard(x)
<1>1. n \in Nat /\ (\A i \in 1 .. n : q[i] \in Output) /\ upto(n) = ToSet(q)
  BY DEF ToSet
<1>2. PICK h : PutRun(h, Lists, r, q, FoldLeft(Put, r, q))
  BY PutKeepsLists, PutAll
<1>3. /\ h \in [0 .. n -> Lists] /\ h[n] = FoldLeft(Put, r, q)
      /\ \A i \in 1 .. n : h[i] = Put(h[i - 1], q[i])
  BY <1>2 DEF PutRun
<1> HIDE DEF n
<1>4. ASSUME NEW k \in 0 .. n, NEW x \in Output
      PROVE  /\ IsFiniteSet(in(k, x)) /\ Cardinality(in(k, x)) \in 0 .. Capacity
             /\ upto(k) \subseteq upto(n)
  <2>1. \A i \in 1 .. k : i \in 1 .. n
    BY <1>1
  <2>2. upto(k) \subseteq upto(n)
    BY <2>1
  <2>3. in(k, x) \subseteq ToSet(q) \cap SameShard(x) /\ ToSet(q) \cap SameShard(x) \subseteq Output
    BY <2>2, <1>1 DEF SameShard
  <2>4. IsFiniteSet(ToSet(q) \cap SameShard(x))
    BY <2>3, CacheAssumption, FS_Subset
  <2> HIDE DEF in
  <2>5. IsFiniteSet(in(k, x)) /\ Cardinality(in(k, x)) <= Cardinality(ToSet(q) \cap SameShard(x))
    BY <2>3, <2>4, FS_Subset
  <2>6. Cardinality(in(k, x)) \in Nat /\ Cardinality(ToSet(q) \cap SameShard(x)) \in Nat
    BY <2>4, <2>5, FS_CardinalityType
  <2>7. Cardinality(ToSet(q) \cap SameShard(x)) <= Capacity /\ Capacity \in Nat
    BY CacheAssumption
  <2> DEFINE c == Cardinality(ToSet(q) \cap SameShard(x))
  <2> HIDE DEF upto, c
  <2>8. c \in Nat /\ c <= Capacity /\ Cardinality(in(k, x)) <= c
    BY <2>5, <2>6, <2>7 DEF c
  <2>9. Cardinality(in(k, x)) \in 0 .. Capacity
    BY <2>6, <2>7, <2>8
  <2> QED
    BY <2>2, <2>5, <2>9
<1> DEFINE T == {k \in 0 .. n : \A x \in upto(k) : h[k][x] \in 1 .. Cardinality(in(k, x))}
<1>5. ASSUME NEW k \in 1 .. n, k - 1 \in T PROVE k \in T
  <2> DEFINE o == q[k]
             p == h[k - 1]
  <2>a. k \in 0 .. n /\ k - 1 \in 0 .. n
    BY <1>1
  <2>b. p \in Lists /\ o \in Output /\ h[k] = Put(p, o)
    BY <2>a, <1>1, <1>3
  <2>c. \A x \in upto(k - 1) : p[x] \in 1 .. Cardinality(in(k - 1, x))
    <3> HIDE DEF upto, in
    <3> QED
      BY <1>5
  <2>1. /\ k \in 0 .. n /\ k - 1 \in 0 .. n /\ p \in Lists /\ o \in Output /\ h[k] = Put(p, o)
        /\ \A x \in upto(k - 1) : p[x] \in 1 .. Cardinality(in(k - 1, x))
    <3> HIDE DEF upto, in, p, o
    <3> QED
      BY <2>a, <2>b, <2>c
  <2>2. upto(k) = upto(k - 1) \cup {o}
    <3>1. \A j : j \in 1 .. k <=> j \in 1 .. k - 1 \/ j = k
      BY <1>1
    <3> QED
      BY <3>1
  <2>3. \A x \in upto(k) : x \in Output
    BY <1>1, <1>4, <2>1 DEF ToSet
  <2>4. \A x \in Output : x \in SameShard(o) => in(k, x) = in(k - 1, x) \cup {o}
    BY <2>1, <2>2 DEF SameShard
  <2>5. \A x \in Output : x \notin SameShard(o) => in(k, x) = in(k - 1, x)
    BY <2>1, <2>2 DEF SameShard
  <2>6. \A x \in Output : x \in SameShard(o) => in(k, x) = in(k, o)
    BY <2>1 DEF SameShard
  <2> HIDE DEF o, p, in, upto
  <2>7. /\ Put(p, o)[o] = 1
        /\ \A x \in Output : x \notin SameShard(o) => Put(p, o)[x] = p[x]
        /\ \A x \in SameShard(o) \ {o} :
             /\ p[o] > 0 /\ p[x] > 0 => p[x] # p[o]
             /\ p[o] > 0 /\ p[x] > p[o] => Put(p, o)[x] = p[x]
             /\ p[o] > 0 /\ p[x] > 0 /\ p[x] < p[o] => Put(p, o)[x] = p[x] + 1
             /\ p[o] = 0 /\ p[x] > 0 /\ p[x] < Capacity => Put(p, o)[x] = p[x] + 1
    BY <2>1, PutPlaces
  <2>8. ASSUME NEW x \in upto(k) PROVE Put(p, o)[x] \in 1 .. Cardinality(in(k, x))
    <3>1. x \in Output /\ Cardinality(in(k, x)) \in 0 .. Capacity /\ Cardinality(in(k - 1, x)) \in 0 .. Capacity
          /\ IsFiniteSet(in(k - 1, x)) /\ IsFiniteSet(in(k, x)) /\ Capacity \in Nat
      BY <2>1, <2>3, <1>4, CacheAssumption
    <3>2. CASE x = o
      <4>1. o \in in(k, o)
        BY <3>2, <2>8, <2>1 DEF in, SameShard
      <4>2. Cardinality(in(k, o)) # 0
        BY <4>1, <3>1, <3>2, FS_EmptySet
      <4> QED
        BY <4>2, <3>1, <3>2, <2>7
    <3>3. CASE x # o /\ x \notin SameShard(o)
      <4>1. x \in upto(k - 1)
        BY <3>3, <2>2, <2>8
      <4> QED
        BY <4>1, <3>1, <3>3, <2>1, <2>5, <2>7
    <3>4. CASE x # o /\ x \in SameShard(o)
      <4>1. x \in upto(k - 1) /\ p[x] \in 1 .. Cardinality(in(k - 1, x))
        BY <3>4, <2>1, <2>2, <2>8
      <4>2. p[o] \in 0 .. Capacity
        BY <2>1 DEF Lists
      <4>3. CASE o \in upto(k - 1)
        <5>1. in(k, x) = in(k - 1, x) /\ in(k, o) = in(k, x)
          <6>1. o \in in(k - 1, x)
            BY <4>3, <3>1, <3>4, <2>1 DEF in, SameShard
          <6> QED
            BY <6>1, <3>1, <3>4, <2>4, <2>6
        <5>2. p[o] \in 1 .. Cardinality(in(k - 1, o))
          BY <4>3, <2>1
        <5>3. in(k - 1, o) = in(k - 1, x)
          BY <3>1, <3>4, <2>1 DEF in, SameShard
        <5>4. p[o] \in 1 .. Cardinality(in(k, x)) /\ p[x] \in 1 .. Cardinality(in(k, x))
          BY <5>1, <5>2, <5>3, <4>1
        <5>5. Put(p, o)[x] = p[x] \/ (Put(p, o)[x] = p[x] + 1 /\ p[x] < p[o])
          BY <5>4, <3>1, <3>4, <2>7
        <5> QED
          BY <5>4, <5>5, <3>1
      <4>4. CASE o \notin upto(k - 1)
        <5>1. Cardinality(in(k, x)) = Cardinality(in(k - 1, x)) + 1
          <6>1. o \notin in(k - 1, x)
            BY <4>4 DEF in
          <6> QED
            BY <6>1, <3>1, <3>4, <2>4, FS_AddElement
        <5>2. Put(p, o)[x] = p[x] \/ Put(p, o)[x] = p[x] + 1
          BY <5>1, <4>1, <4>2, <3>1, <3>4, <2>7
        <5> QED
          BY <5>1, <5>2, <4>1, <3>1
      <4> QED
        BY <4>3, <4>4
    <3> QED
      BY <3>2, <3>3, <3>4
  <2> QED
    BY <2>1, <2>8
<1>6. n \in T
  <2>1. 0 \in T
    <3>1. upto(0) = {}
      OBVIOUS
    <3> QED
      BY <3>1, <1>1
  <2> HIDE DEF T
  <2>2. \A k \in 0 .. n : k \in T
    BY <2>1, <1>1, <1>5, Stepwise
  <2> QED
    BY <2>2, <1>1
<1>7. ASSUME NEW x \in ToSet(q) PROVE h[n][x] > 0 /\ x \in Output
  <2>1. x \in upto(n) /\ x \in Output /\ n \in 0 .. n
    <3>1. PICK i \in 1 .. n : x = q[i]
      BY <1>1, <1>7
    <3> QED
      BY <3>1, <1>1
  <2> HIDE DEF upto, in
  <2>2. h[n][x] \in 1 .. Cardinality(in(n, x))
    BY <2>1, <1>6
  <2>3. Cardinality(in(n, x)) \in Int
    BY <2>1, <1>4
  <2> QED
    BY <2>1, <2>2, <2>3
<1> QED
  BY <1>3, <1>7 DEF Cached

\* What is cached without its address are outputs to a public key that
\* pre-warming has cached; in a snapshot, too.
AddressInv ==
  /\ Cached(cache) \ known \subseteq prewarmed \cap PubKey
  /\ ToSet(file.entries) \ file.known \subseteq prewarmed \cap PubKey
  /\ pc = "rename" => ToSet(temp.entries) \ temp.known \subseteq prewarmed \cap PubKey

\* Every step keeps it so.
LEMMA AddressNextInv == StreamInv /\ CacheInv /\ AddressInv /\ [Next]_vars => AddressInv'
<1> SUFFICES ASSUME StreamInv, CacheInv, AddressInv, [Next]_vars PROVE AddressInv'
  OBVIOUS
<1>1. prewarmed \subseteq prewarmed'
  BY Histories
<1>2. CacheStep /\ FileStep
  BY CacheSteps
<1>3. /\ Cached(cache) \ known \subseteq prewarmed \cap PubKey
      /\ ToSet(file.entries) \ file.known \subseteq prewarmed \cap PubKey
      /\ pc = "rename" => ToSet(temp.entries) \ temp.known \subseteq prewarmed \cap PubKey
  BY DEF AddressInv
<1>4. Cached(cache') \ known' \subseteq prewarmed' \cap PubKey
  <2>1. CASE cache' = cache /\ known' = known
    BY <2>1, <1>1, <1>3
  <2>2. CASE Cached(cache') = {} /\ known' = {}
    BY <2>2
  <2>3. CASE Cached(cache') \subseteq ToSet(file.entries) /\ known' = file.known
    BY <2>3, <1>1, <1>3
  <2>4. CASE PrewarmBlock
    <3> DEFINE q == CreatedBy(index'[WalkAt])
               w == FoldLeft(InsertPrewarm, [r |-> cache, in |-> {}, ok |-> TRUE], q)
    <3>1. /\ cache' = w.r /\ prewarmed' = prewarmed \cup w.in
          /\ known' = (known \ w.in) \cup (w.in \ PubKey)
          /\ Cached(w.r) \subseteq Cached(cache) \cup w.in
      BY <2>4, PrewarmWalk
    <3> HIDE DEF w, q
    <3> QED
      BY <3>1, <1>3
  <2>5. CASE \E chunk \in NextChunks : IngestChunk(chunk)
    <3>1. PICK chunk \in NextChunks : IngestChunk(chunk)
      BY <2>5
    <3>2. /\ pc = "ingest" /\ Valid(chunk) /\ cache' = Spent(Created(chunk), chunk)
          /\ known' = (known \cup Misses(chunk) \cup ToSet(OutputsOf(chunk))) \cap Cached(cache')
      BY <3>1 DEF IngestChunk
    <3>3. chunk \in Seq(Entries) /\ cache \in Lists
      BY <3>2, ChunkShape DEF StreamInv, CacheInv
    <3>4. Cached(cache') \subseteq Cached(cache) \cup Misses(chunk) \cup ToSet(OutputsOf(chunk))
      BY <3>2, <3>3, ChunkCaches
    <3> QED
      BY <3>2, <3>4, <1>1, <1>3
  <2> QED
    BY <2>1, <2>2, <2>3, <2>4, <2>5, <1>2 DEF CacheStep
<1>5. ToSet(file'.entries) \ file'.known \subseteq prewarmed' \cap PubKey
  BY <1>1, <1>2, <1>3 DEF FileStep
<1>6. pc' = "rename" => ToSet(temp'.entries) \ temp'.known \subseteq prewarmed' \cap PubKey
  BY <1>1, <1>2, <1>3 DEF FileStep
<1> QED
  BY <1>4, <1>5, <1>6 DEF AddressInv

\* The outputs of a chunk are still cached when its inputs are looked at.
LEMMA ChunkHasRoom ==
  ASSUME BatchHasRoom, StreamInv, CacheInv, pc = "ingest", NEW chunk \in NextChunks, Valid(chunk)
  PROVE  ToSet(OutputsOf(chunk)) \subseteq Cached(Created(chunk))
<1> DEFINE n == Len(chunk)
           from == checkpoint + 1
           window == UNION {ToSet(Creates[h]) : h \in {k \in Heights : from <= k /\ k < from + ReadAhead}}
           first == FoldLeft(Touch, cache, SetToSeq(InputsOf(chunk) \cap Cached(cache)))
           second == FoldLeft(Put, first, SetToSeq(Misses(chunk)))
           q == OutputsOf(chunk)
<1>1. /\ chunk \in Seq(Entries) /\ n \in 1 .. Len(batch) /\ Len(batch) \in Nat
      /\ checkpoint \in -1 .. Tip /\ ReadAhead \in Nat /\ Len(batch) <= ReadAhead
      /\ \A i \in 1 .. n : chunk[i] \in Entries /\ chunk[i].height = checkpoint + i
  BY ChunkShape, StreamAssumption DEF StreamInv, LoopInv, CacheInv
<1>2. /\ q \in Seq(Output) /\ ToSet(q) = UNION {ToSet(CreatedBy(chunk[i])) : i \in 1 .. n}
      /\ InputsOf(chunk) \subseteq Output /\ IsFiniteSet(InputsOf(chunk))
  BY <1>1, ChunkOutputs
<1> HIDE DEF n, q
<1>3. ToSet(q) \subseteq window
  <2> SUFFICES ASSUME NEW i \in 1 .. n, NEW o \in ToSet(CreatedBy(chunk[i]))
               PROVE  o \in window
    BY <1>2
  <2>1. chunk[i].height \in Heights /\ chunk[i].height = checkpoint + i
    BY <1>1, EntryFacts
  <2>2. from <= checkpoint + i /\ checkpoint + i < from + ReadAhead
    BY <1>1
  <2>3. o \in ToSet(Creates[checkpoint + i])
    <3>1. CASE chunk[i].main
      BY <3>1, <2>1 DEF CreatedBy
    <3>2. CASE ~ chunk[i].main
      <4>1. CreatedBy(chunk[i]) = <<>>
        BY <3>2 DEF CreatedBy
      <4>2. ToSet(<<>>) = {}
        <5>1. DOMAIN <<>> = {}
          OBVIOUS
        <5> QED
          BY <5>1 DEF ToSet
      <4> QED
        BY <4>1, <4>2
    <3> QED
      BY <3>1, <3>2
  <2> QED
    BY <2>1, <2>2, <2>3
<1>4. from \in Heights
  <2>1. 1 \in 1 .. n
    BY <1>1
  <2>2. chunk[1].height \in Heights /\ chunk[1].height = from
    BY <2>1, <1>1, EntryFacts
  <2> QED
    BY <2>2
<1>5. \A o \in Output : Cardinality(ToSet(q) \cap SameShard(o)) <= Capacity
  <2> TAKE o \in Output
  <2>1. Cardinality(SameShard(o) \cap window) <= Capacity
    BY <1>4 DEF BatchHasRoom
  <2> HIDE DEF window
  <2>2. ToSet(q) \cap SameShard(o) \subseteq SameShard(o) \cap window
    BY <1>3
  <2>3. IsFiniteSet(SameShard(o) \cap window)
    <3>1. SameShard(o) \cap window \subseteq Output
      BY DEF SameShard
    <3> QED
      BY <3>1, CacheAssumption, FS_Subset
  <2>4. /\ IsFiniteSet(ToSet(q) \cap SameShard(o))
        /\ Cardinality(ToSet(q) \cap SameShard(o)) <= Cardinality(SameShard(o) \cap window)
    BY <2>2, <2>3, FS_Subset
  <2> DEFINE a == Cardinality(ToSet(q) \cap SameShard(o))
             b == Cardinality(SameShard(o) \cap window)
  <2>5. a \in Nat /\ b \in Nat
    BY <2>3, <2>4, FS_CardinalityType
  <2> HIDE DEF a, b
  <2>6. a <= b /\ b <= Capacity /\ Capacity \in Nat
    BY <2>1, <2>4, CacheAssumption DEF a, b
  <2>7. a <= Capacity
    BY <2>5, <2>6
  <2> QED
    BY <2>7 DEF a
<1>6. second \in Lists
  <2>1. ASSUME NEW S, S \subseteq InputsOf(chunk)
        PROVE  SetToSeq(S) \in Seq(Output)
    <3>1. IsFiniteSet(S)
      BY <1>2, <2>1, FS_Subset
    <3>2. SetToSeq(S) \in Seq(S)
      BY <3>1, SetInSequence
    <3>3. S \subseteq Output
      BY <1>2, <2>1
    <3> QED
      BY <3>2, <3>3
  <2>2. first \in Lists
    <3> DEFINE hits == InputsOf(chunk) \cap Cached(cache)
    <3>1. SetToSeq(hits) \in Seq(Output) /\ cache \in Lists
      BY <2>1 DEF CacheInv
    <3> HIDE DEF hits
    <3>2. FoldLeft(Touch, cache, SetToSeq(hits)) \in Lists
      BY <3>1, TouchAllCaches
    <3> QED
      BY <3>2 DEF hits
  <2>3. SetToSeq(Misses(chunk)) \in Seq(Output)
    BY <2>1 DEF Misses
  <2> HIDE DEF first
  <2> QED
    BY <2>2, <2>3, PutAllCaches
<1>7. Created(chunk) = FoldLeft(Put, second, q)
  BY DEF Created, q
<1> HIDE DEF second
<1>8. ToSet(q) \subseteq Cached(FoldLeft(Put, second, q))
  BY <1>2, <1>5, <1>6, PutAllKeeps
<1> QED
  BY <1>7, <1>8 DEF q

\* A chunk writes PERFORMS for all that it spends and the graph has by then,
\* but for the exception.
LEMMA ChunkPerforms ==
  ASSUME BatchHasRoom, StreamInv, CacheInv, AddressInv,
         pc = "ingest", NEW chunk \in NextChunks, Valid(chunk), Stored(chunk)
  PROVE  InputsOf(chunk) \cap InGraph' \subseteq Performs(chunk) \cup (prewarmed \cap PubKey)
<1>1. InGraph' = InGraph \cup ToSet(OutputsOf(chunk))
  BY ChunkInGraph
<1>2. ToSet(OutputsOf(chunk)) \subseteq Cached(Created(chunk))
  BY ChunkHasRoom
<1>3. ASSUME NEW o \in InputsOf(chunk), o \in InGraph'
      PROVE  o \in Performs(chunk) \cup (prewarmed \cap PubKey)
  <2>1. CASE o \in Cached(cache)
    BY <2>1 DEF AddressInv, Performs
  <2>2. CASE o \notin Cached(cache) /\ o \in InGraph
    BY <2>2 DEF Misses, Performs
  <2>3. CASE o \notin Cached(cache) /\ o \in ToSet(OutputsOf(chunk))
    BY <2>3, <1>2 DEF Performs
  <2> QED
    BY <2>1, <2>2, <2>3, <1>1, <1>3
<1> QED
  BY <1>3

\* Nothing is forgotten of what was spent before.
LEMMA PerformsNextInv ==
  ASSUME SpentAfterCreated, BatchHasRoom
  PROVE  StreamInv /\ CacheInv /\ RecordInv /\ AddressInv /\ PerformsUnlessPrewarmed /\ [Next]_vars
           => PerformsUnlessPrewarmed'
<1> SUFFICES ASSUME StreamInv, CacheInv, RecordInv, AddressInv, PerformsUnlessPrewarmed, [Next]_vars
             PROVE  PerformsUnlessPrewarmed'
  OBVIOUS
<1>1. performed \subseteq performed' /\ prewarmed \subseteq prewarmed'
  BY Histories
<1>2. CASE stored' = stored
  <2>1. InGraph' = InGraph /\ StoredHeights' = StoredHeights
    BY <1>2 DEF InGraph, StoredHeights
  <2> QED
    BY <2>1, <1>1, <1>2 DEF PerformsUnlessPrewarmed
<1>3. CASE \E chunk \in NextChunks : IngestChunk(chunk) \/ CommitFails(chunk)
  <2>1. PICK chunk \in NextChunks : pc = "ingest" /\ Valid(chunk) /\ Stored(chunk)
    BY <1>3 DEF IngestChunk, CommitFails
  <2> DEFINE n == Len(chunk)
  <2>2. /\ chunk \in Seq(Entries) /\ n \in 1 .. Len(batch) /\ Len(batch) \in Nat
        /\ checkpoint \in -1 .. Tip
        /\ FirstOf(chunk) = checkpoint + 1 /\ LastOf(chunk) = checkpoint + n
        /\ \A i \in 1 .. n : chunk[i] \in Entries /\ chunk[i].height = checkpoint + i
    BY <2>1, ChunkShape DEF StreamInv, LoopInv
  <2>3. stored' = [h \in Heights |-> IF h \in checkpoint + 1 .. checkpoint + n
                                     THEN chunk[h - (checkpoint + 1) + 1] ELSE stored[h]]
    BY <2>1, <2>2 DEF Stored
  <2>4. n \in Nat /\ checkpoint \in Int /\ checkpoint # None
    BY <2>1, <2>2 DEF StreamInv, LoopInv
  <2>5. InGraph' = InGraph \cup ToSet(OutputsOf(chunk))
    BY <2>1, ChunkInGraph
  <2>6. ToSet(OutputsOf(chunk)) = UNION {ToSet(CreatedBy(chunk[i])) : i \in 1 .. n}
    BY <2>2, ChunkOutputs
  <2>7. InputsOf(chunk) \cap InGraph' \subseteq Performs(chunk) \cup (prewarmed \cap PubKey)
    BY <2>1, ChunkPerforms
  <2>8. performed' = performed \cup Performs(chunk)
    BY <2>1 DEF Stored
  <2> HIDE DEF n
  <2>9. ASSUME NEW h \in Heights, stored'[h] # None, NEW o \in SpentBy(stored'[h]), o \in InGraph'
        PROVE  o \in performed' \cup (prewarmed' \cap PubKey)
    <3>1. CASE h \in checkpoint + 1 .. checkpoint + n
      <4>1. h - (checkpoint + 1) + 1 \in 1 .. n /\ stored'[h] = chunk[h - (checkpoint + 1) + 1]
        BY <3>1, <2>3, <2>4
      <4>2. o \in InputsOf(chunk)
        BY <4>1, <2>9 DEF InputsOf, n
      <4> QED
        BY <4>2, <2>7, <2>8, <2>9, <1>1
    <3>2. CASE ~ (h \in checkpoint + 1 .. checkpoint + n)
      <4>1. stored'[h] = stored[h] /\ stored[h] # None /\ h \in StoredHeights
        BY <3>2, <2>3, <2>9 DEF StoredHeights
      <4>2. CASE o \in InGraph
        BY <4>1, <4>2, <2>9, <1>1 DEF PerformsUnlessPrewarmed
      <4>3. CASE o \in ToSet(OutputsOf(chunk))
        <5>1. PICK i \in 1 .. n : o \in ToSet(CreatedBy(chunk[i]))
          BY <4>3, <2>6
        <5>2. chunk[i].height = checkpoint + i /\ checkpoint + i \in Heights
          BY <2>2, EntryFacts
        <5>3. o \in ToSet(Creates[checkpoint + i])
          <6>1. CASE chunk[i].main
            BY <6>1, <5>1, <5>2 DEF CreatedBy
          <6>2. CASE ~ chunk[i].main
            <7>1. CreatedBy(chunk[i]) = <<>>
              BY <6>2 DEF CreatedBy
            <7>2. DOMAIN <<>> = {}
              OBVIOUS
            <7> QED
              BY <7>1, <7>2, <5>1 DEF ToSet
          <6> QED
            BY <6>1, <6>2
        <5>4. stored[h].height = h /\ h <= checkpoint
          BY <4>1 DEF RecordInv, StreamInv, StoreInv
        <5>5. o \in Spends[h]
          BY <4>1, <5>4, <2>9 DEF SpentBy
        <5>6. checkpoint + i <= h
          BY <5>2, <5>3, <5>5 DEF SpentAfterCreated
        <5>7. h \in Int
          BY DEF Heights
        <5> QED
          BY <5>4, <5>6, <5>7, <2>4
      <4> QED
        BY <4>2, <4>3, <2>5, <2>9
    <3> QED
      BY <3>1, <3>2
  <2> QED
    BY <2>9 DEF PerformsUnlessPrewarmed, StoredHeights
<1>4. CASE \/ Ingest \/ Resume \/ Restore \/ BeginPrewarm \/ PrewarmBlock \/ EndPrewarm \/ Preload
           \/ Load \/ EndLoop \/ LoadFails \/ ReadFails \/ Crash \/ UNCHANGED vars
           \/ BeginSave \/ FinishWriting \/ Rename \/ SaveFails
           \/ \E chunk \in NextChunks : ChunkRefused(chunk)
  <2>1. stored' = stored
    BY <1>4 DEF Ingest, Resume, Launched, Restore, BeginPrewarm, PrewarmBlock, EndPrewarm, Preload,
                Load, EndLoop, LoadFails, ReadFails, Crash, BeginSave, FinishWriting, Rename,
                SaveFails, ChunkRefused, Stop, graphVars, vars
  <2> QED
    BY <2>1, <1>2
<1> QED
  BY <1>3, <1>4 DEF Next, Process, Faults

\* Nothing is cached or spent at first.
LEMMA AddressInitInv == Init => AddressInv /\ PerformsUnlessPrewarmed
<1> SUFFICES ASSUME Init PROVE AddressInv /\ PerformsUnlessPrewarmed
  OBVIOUS
<1>1. Cached(cache) = {} /\ pc # "rename" /\ file.entries = <<>>
  BY DEF Init, Cached, EmptyCache, NoFile
<1>2. ToSet(file.entries) = {}
  <2>1. DOMAIN <<>> = {}
    OBVIOUS
  <2> QED
    BY <2>1, <1>1 DEF ToSet
<1>3. StoredHeights = {}
  BY DEF Init, StoredHeights
<1> QED
  BY <1>1, <1>2, <1>3 DEF AddressInv, PerformsUnlessPrewarmed

\* Through evictions, crashes and stale snapshots, every output of the graph
\* that is spent has its PERFORMS, but for those to a public key that
\* pre-warming has cached.
THEOREM PerformsAreWritten ==
  ASSUME SpentAfterCreated, BatchHasRoom
  PROVE  Spec => []PerformsUnlessPrewarmed
<1> DEFINE Inv == StreamInv /\ CacheInv /\ RecordInv /\ AddressInv /\ PerformsUnlessPrewarmed
<1>1. Init => Inv
  BY InitInv, CacheInitInv, RecordInitInv, AddressInitInv
<1>2. Inv /\ [Next]_vars => Inv'
  BY NextInv, CacheNextInv, RecordNextInv, AddressNextInv, PerformsNextInv
<1>3. Inv => PerformsUnlessPrewarmed
  OBVIOUS
<1> HIDE DEF Inv
<1> QED
  BY <1>1, <1>2, <1>3, PTL DEF Spec

-----------------------------------------------------------------------------
(* Without the exception *)

\* A process that is told not to pre-warm does not.
NoWarmth == depth = 0 /\ prewarmed = {} /\ pc \notin {"begin prewarm", "prewarm"}

\* It stays so.
LEMMA NoWarmthStays == NoWarmth /\ [Next]_vars => NoWarmth'
<1> SUFFICES ASSUME NoWarmth, [Next]_vars PROVE NoWarmth'
  OBVIOUS
<1>1. CASE Restore
  BY <1>1 DEF NoWarmth, Restore, options, warmVars
<1>2. CASE \/ Ingest \/ Resume \/ Preload \/ Load \/ EndLoop \/ BeginSave \/ FinishWriting
           \/ LoadFails \/ ReadFails \/ Crash \/ Rename \/ SaveFails \/ UNCHANGED vars
           \/ \E chunk \in NextChunks : IngestChunk(chunk) \/ ChunkRefused(chunk) \/ CommitFails(chunk)
  BY <1>2 DEF NoWarmth, Ingest, Resume, Launched, Preload, Load, EndLoop, BeginSave, FinishWriting,
              LoadFails, ReadFails, Crash, Rename, SaveFails, IngestChunk, ChunkRefused, CommitFails,
              Stop, Gone, AfterSave, options, warmVars, vars
<1>3. CASE BeginPrewarm \/ PrewarmBlock \/ EndPrewarm
  BY <1>3 DEF NoWarmth, BeginPrewarm, PrewarmBlock, EndPrewarm, Walks
<1> QED
  BY <1>1, <1>2, <1>3 DEF Next, Process, Faults

\* Without pre-warming, or without outputs to a public key, no PERFORMS is missing.
THEOREM PerformsAreComplete ==
  ASSUME SpentAfterCreated, BatchHasRoom, Depths = {0} \/ PubKey = {}
  PROVE  Spec => []PerformsComplete
<1>1. CASE PubKey = {}
  <2>1. PerformsUnlessPrewarmed => PerformsComplete
    BY <1>1 DEF PerformsUnlessPrewarmed, PerformsComplete
  <2> QED
    BY <2>1, PerformsAreWritten, PTL
<1>2. CASE Depths = {0}
  <2>1. Init => NoWarmth
    BY <1>2 DEF Init, NoWarmth
  <2>2. NoWarmth /\ PerformsUnlessPrewarmed => PerformsComplete
    BY DEF NoWarmth, PerformsUnlessPrewarmed, PerformsComplete
  <2> QED
    BY <2>1, <2>2, NoWarmthStays, PerformsAreWritten, PTL DEF Spec
<1> QED
  BY <1>1, <1>2
===============================================================================
