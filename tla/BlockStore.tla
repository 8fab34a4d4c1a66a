------------------------------ MODULE BlockStore ------------------------------
(***************************************************************************)
(* What every way of writing blocks promises to the process that reads the *)
(* graph next: block nodes, transactions and checkpoint rise together, one *)
(* chunk at a time, and only a writer of single blocks ever leaves a block *)
(* above the checkpoint, one at most.  sync_checkpoint_with_db counts on   *)
(* it: it looks at the blocks above the checkpoint, keeps one that has its *)
(* transactions and removes one that has not.                              *)
(*                                                                         *)
(* ChunkWriter implements this query by query, LiveSync chunk by chunk for *)
(* a node that does not reorganise.                                        *)
(***************************************************************************)
EXTENDS Integers

VARIABLES
  way,         \* "batch" or "single": how blocks are written
  nodes,       \* heights that have a block node
  linked,      \* heights whose transactions are INCLUDED_IN their block
  checkpoint   \* lastProcessedHeight, -1 at first

vars == <<way, nodes, linked, checkpoint>>

UpTo(k) == 0 .. k
Above == checkpoint + 1

\* Any store that an earlier writer can have left.
Init ==
  /\ way \in {"batch", "single"}
  /\ checkpoint \in Nat \cup {-1}
  /\ nodes \in {UpTo(checkpoint), UpTo(Above)}
  /\ linked \in {UpTo(checkpoint), nodes}

\* commit_transaction: the blocks of a chunk, all at once.
CommitChunk ==
  /\ way = "batch"
  /\ nodes = UpTo(checkpoint) /\ linked = UpTo(checkpoint)
  /\ checkpoint' \in Nat /\ checkpoint' > checkpoint
  /\ nodes' = UpTo(checkpoint') /\ linked' = UpTo(checkpoint')
  /\ UNCHANGED way

\* write_blocks of ingest_block.
WriteBlock ==
  /\ way = "single"
  /\ nodes = UpTo(checkpoint)
  /\ nodes' = UpTo(Above)
  /\ UNCHANGED <<way, linked, checkpoint>>

\* write_transactions of ingest_block.
LinkTransactions ==
  /\ way = "single"
  /\ nodes = UpTo(Above) /\ linked = UpTo(checkpoint)
  /\ linked' = UpTo(Above)
  /\ UNCHANGED <<way, nodes, checkpoint>>

\* update_checkpoint of ingest_block, or of the next start.
EndBlock ==
  /\ nodes = UpTo(Above) /\ linked = UpTo(Above)
  /\ checkpoint' = Above
  /\ UNCHANGED <<way, nodes, linked>>

\* rollback_block, of a block whose transactions are not there.
RemoveBlock ==
  /\ nodes = UpTo(Above) /\ linked = UpTo(checkpoint)
  /\ nodes' = UpTo(checkpoint)
  /\ UNCHANGED <<way, linked, checkpoint>>

Next == CommitChunk \/ WriteBlock \/ LinkTransactions \/ EndBlock \/ RemoveBlock

Spec == Init /\ [][Next]_vars

=============================================================================
