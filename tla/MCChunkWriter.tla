---------------------------- MODULE MCChunkWriter ----------------------------
(***************************************************************************)
(* Four blocks.  The coinbase of block 3 repeats that of block 1, as those *)
(* of the blocks 91842 and 91880 repeat earlier ones.  Two addresses that  *)
(* hash to different buckets: blocks 1 and 3 pay one of them, block 2      *)
(* spends from it and pays the other, and block 0 pays no address.         *)
(***************************************************************************)
EXTENDS ChunkWriter

MCTxOf == [h \in 0 .. 3 |-> IF h = 0 THEN "t0" ELSE IF h = 2 THEN "t2" ELSE "t1"]
MCSpends == [h \in 0 .. 3 |-> IF h = 2 THEN "t1" ELSE None]
MCPayer == [h \in 0 .. 3 |-> IF h = 2 THEN "y" ELSE None]
MCPayee == [h \in 0 .. 3 |-> IF h = 0 THEN None ELSE IF h = 2 THEN "x" ELSE "y"]
MCBucketOf == [a \in {"x", "y"} |-> IF a = "x" THEN 1 ELSE 2]

\* Chunks of every length from one to three, and a block larger than a chunk.
MCMemories == {m \in [0 .. 3 -> {1, 2, 4}] : m[0] = 1 /\ m[2] # 4 /\ m[3] # 4}
=============================================================================
