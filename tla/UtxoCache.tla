------------------------------ MODULE UtxoCache ------------------------------
(***************************************************************************)
(* The sharded LRU cache of domain/utxo/cache.rs.  A cache is a function r *)
(* on the outputs: r[o] = 0 when o is not cached, and otherwise o's place  *)
(* in the recency list of its shard, 1 being the most recently used.  What *)
(* is cached of an output (amount, script type, address) is fixed by its   *)
(* key, the transaction id and index, so only presence matters.            *)
(***************************************************************************)
EXTENDS Integers, FiniteSets

CONSTANTS
  Output,    \* the transaction outputs, by key
  Shard,     \* Shard[o]: the shard o's key is assigned to
  Capacity   \* entries per shard

ASSUME CacheAssumption ==
  /\ IsFiniteSet(Output)
  /\ Capacity \in Nat \ {0}

EmptyCache == [o \in Output |-> 0]

Cached(r) == {o \in Output : r[o] > 0}

SameShard(o) == {x \in Output : Shard[x] = Shard[o]}

\* Mutant: a full shard lets nothing fall out.
PutUnbounded(r, o) ==
  [x \in Output |->
     IF x = o THEN 1
     ELSE IF x \in SameShard(o) /\ r[x] > 0 /\ (r[o] = 0 \/ r[x] < r[o]) THEN r[x] + 1
     ELSE r[x]]

\* o is used: entries more recent than it (all, if o is new) move one place
\* down, and the last of a full shard falls out.
Put(r, o) ==
  LET moves(x) == /\ x \in SameShard(o)
                  /\ r[x] > 0
                  /\ r[o] = 0 \/ r[x] < r[o]
  IN [x \in Output |->
        IF x = o THEN 1
        ELSE IF ~ moves(x) THEN r[x]
        ELSE IF r[x] < Capacity THEN r[x] + 1
        ELSE 0]

\* A lookup that hits makes the entry the most recent one.
Touch(r, o) == IF r[o] > 0 THEN Put(r, o) ELSE r

\* A removed entry leaves no gap in its shard.
Pop(r, o) ==
  [x \in Output |->
     IF x = o THEN 0
     ELSE IF x \in SameShard(o) /\ r[o] > 0 /\ r[x] > r[o] THEN r[x] - 1
     ELSE r[x]]

=============================================================================
