----------------------------- MODULE StoredChain -----------------------------
(***************************************************************************)
(* What the graph is meant to be: one chain of blocks that starts at       *)
(* genesis, grows at its end by blocks that follow each other, and is only *)
(* ever cut back to one of its own prefixes.  DATA_MODEL.md and the        *)
(* queries of VALIDATION.md (sequential heights, previousHash) describe    *)
(* this chain; LiveSync says how the program keeps it.                     *)
(***************************************************************************)
EXTENDS BlockTree

VARIABLE chain   \* the stored blocks, genesis first

Prefix(c, n) == SubSeq(c, 1, n)

Init == chain = <<>>

\* A committed chunk: one or more blocks, each naming the block before it.
Grow ==
  \E c \in Chains : \E n \in 1 .. Len(c) :
    /\ Len(chain) < n
    /\ chain' = Prefix(c, n)
    /\ chain = Prefix(c, Len(chain))

\* A rolled back block: the chain loses its last one.
DropLast ==
  /\ Len(chain) > 1
  /\ chain' = Prefix(chain, Len(chain) - 1)

Next == Grow \/ DropLast

Spec == Init /\ [][Next]_chain

=============================================================================
