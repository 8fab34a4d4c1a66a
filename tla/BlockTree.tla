------------------------------ MODULE BlockTree ------------------------------
(***************************************************************************)
(* The blocks a Bitcoin node may ever serve, and the chains they form.     *)
(*                                                                         *)
(* A block stands for one header with all its transactions; what the       *)
(* program reads of it is its height and header.prev_blockhash.  Chains is *)
(* the set of block sequences that can be the node's active chain: each    *)
(* starts at height 0 and each block names the one before it.  Two chains  *)
(* that part ways after a common prefix are the two sides of a reorg.      *)
(***************************************************************************)
EXTENDS Integers, Sequences

CONSTANTS
  Block,    \* the blocks
  None,     \* "no block": an Option that is None
  Parent,   \* Parent[b]: the block named by b's header.prev_blockhash
  Height,   \* Height[b]: the height b is mined at
  Chains    \* the sequences of blocks that can be the active chain

(***************************************************************************)
(* A chain holds the block of height k at index k + 1.                     *)
(***************************************************************************)
IsChain(c) ==
  /\ c \in Seq(Block)
  /\ c # <<>>
  /\ \A i \in 1 .. Len(c) : Height[c[i]] = i - 1
  /\ \A i \in 2 .. Len(c) : Parent[c[i]] = c[i - 1]

ASSUME BlockAssumption ==
  /\ None \notin Block
  /\ Parent \in [Block -> Block \cup {None}]
  /\ Height \in [Block -> Nat]

ASSUME ChainsAssumption == \A c \in Chains : IsChain(c)

=============================================================================
