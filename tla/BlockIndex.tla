------------------------------ MODULE BlockIndex ------------------------------
(***************************************************************************)
(* Bitcoin Core's block index as parser/block_index.rs reads it.  LevelDB  *)
(* is scanned in the order of the block hashes, which is no order of the   *)
(* heights; every block the node has ever stored has a record, those of    *)
(* the main chain and those of abandoned branches alike.                   *)
(***************************************************************************)
EXTENDS Integers, Sequences, FiniteSets

CONSTANTS
  None,    \* no chain: CorruptIndex
  Tip,     \* height of the last block of the main chain
  Extra    \* records of other blocks that the node may have

Heights == 0 .. Tip

\* valid and data are the bits BLOCK_VALID_CHAIN and BLOCK_HAVE_DATA of the
\* record's status.
Record == [height : Heights, main : BOOLEAN, valid : BOOLEAN, data : BOOLEAN]

ASSUME IndexAssumption ==
  /\ Tip \in Nat
  /\ Extra \subseteq {e \in Record : ~ e.main}
  /\ None \notin Int /\ None \notin Record

Main(h) == [height |-> h, main |-> TRUE, valid |-> TRUE, data |-> TRUE]

Entries == {Main(h) : h \in Heights} \cup Extra

\* parse_block_record: one of the two bits is enough.
Accepts(e) == e.valid \/ e.data

\* The positions up to i at which a scan finds a record in the range.
Hits(order, from, to, i) ==
  {j \in 1 .. i : Accepts(order[j]) /\ order[j].height \in from .. to}

HeightsAt(order, J) == {order[j].height : j \in J}

\* Mutant: the range is open at its lower end.
LoadBatchOpen(order, from, to) ==
  LET J == Hits(order, from + 1, to, Len(order))
  IN [h \in HeightsAt(order, J) |->
        order[CHOOSE j \in J : order[j].height = h /\ \A k \in J : order[k].height = h => k <= j]]

\* load_batch_index: one scan, given up as soon as every height of the range
\* was seen; of two records of the same height the later one stays.
LoadBatch(order, from, to) ==
  LET seen(i) == HeightsAt(order, Hits(order, from, to, i))
      full == {i \in 1 .. Len(order) : Cardinality(seen(i)) >= to - from + 1}
      end == IF full = {} THEN Len(order) ELSE CHOOSE i \in full : \A k \in full : i <= k
      J == Hits(order, from, to, end)
  IN [h \in HeightsAt(order, J) |->
        order[CHOOSE j \in J : order[j].height = h /\ \A k \in J : order[k].height = h => k <= j]]

\* Mutant: the records are taken in the order of the scan.
GetMainChainUnsorted(order, top) ==
  LET chain == SelectSeq(order, LAMBDA e : Accepts(e) /\ e.height <= top)
  IN IF \/ chain = <<>>
        \/ \E i \in 1 .. Len(chain) - 1 : chain[i + 1].height # chain[i].height + 1
     THEN None ELSE chain

\* The elements of S by number of those that R puts before them.
Sorted(S, R) ==
  [i \in 1 .. Cardinality(S) |-> CHOOSE x \in S : Cardinality({y \in S : <<y, x>> \in R}) = i - 1]

\* sort_by_key, which leaves records of one height in the order of the scan.
ByHeight(order, J) ==
  {p \in J \X J : \/ order[p[1]].height < order[p[2]].height
                  \/ order[p[1]].height = order[p[2]].height /\ p[1] < p[2]}

\* get_main_chain_up_to, and get_main_chain for the highest height: sorted by
\* height, and refused when the heights do not follow each other.
GetMainChain(order, top) ==
  LET J == Hits(order, 0, top, Len(order))
      sorted == Sorted(J, ByHeight(order, J))
      chain == [i \in 1 .. Cardinality(J) |-> order[sorted[i]]]
  IN IF \/ J = {}
        \/ \E i \in 1 .. Cardinality(J) - 1 : chain[i + 1].height # chain[i].height + 1
     THEN None ELSE chain

\* No record of another branch could be taken for one of the main chain.
Unambiguous(order, H) ==
  \A i \in 1 .. Len(order) : Accepts(order[i]) /\ ~ order[i].main => order[i].height \notin H
=============================================================================
